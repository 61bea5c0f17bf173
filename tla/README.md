# Verification of the CS444 kernel and concurrency code

TLA+ models of the programs in this repository, the TLC runs that check them
and TLAPS proofs about them. The repository is coursework for an operating
systems class: three pieces of Linux kernel code (a SLOB allocator, a C-LOOK
I/O scheduler, an encrypted RAM disk) and a handful of POSIX thread programs.
There is little shared code; what the parts have in common is that each is a
small concurrent protocol whose errors a test run is unlikely to show.

`tlc -workers 2 -config X.cfg M` runs a configuration, `tlapm M.tla` checks the
proofs of a module. PROJECT.json lists every run, what it checks, which lines
of the sources each definition stands for, and the hazards the properties are
aimed at.

## Inventory

| Part | Source | State it keeps | Operations | Modelled in |
|---|---|---|---|---|
| SLOB, one page | hw4/slob.c 148-266, 364-446 | the free list encoded in the page's own words, `sp->units`, `sp->freelist`, `PG_slob_free` | carve a block, free a block | SlobPage (PageHeap, PageBlocks, Fit) |
| SLOB, the allocator | hw4/slob.c 271-641 | three lists of partial pages, `PageSlab`, `page_count_slob`, `free_units` | kmalloc, kfree, kmem_cache_alloc/free, the RCU callback | Slob (Heap, PageBlocks, Fit) |
| C-LOOK scheduler | hw2/look-iosched.c | a list of requests per device, one global `currSector` | add, dispatch, merge | Clook |
| RAM disk, in use | hw3/osurd.c 110-343 | data, users, media_change, a timer, a request queue | open, release, rescan, expiry, three ways to serve I/O | Osurd |
| RAM disk, loading | hw3/osurd.c 377-524 | the device array, the cipher, the major number | setup_device, init, exit | OsurdModule |
| Barbershop, second version | con4/c4/c4.c | free chairs, a mutex, two semaphores | the customers' and the barber's loops | BarberShop |
| Barbershop, first version | con4/barber.c | customers, sleeping, three semaphores | the same, with a thread per customer | Barber |
| Producer and consumer | con1/pc.c (= hw1/pc.c) | 32 slots, two named semaphores, a mutex | produce, consume | ProducerConsumer (Mutex) |
| Dining philosophers | con2/dining_problem.c | forks, who eats, a mutex | think, get forks, eat, put forks | Dining (Mutex) |
| Shared list | con3/con3.c | the list, three flags, three counters, three semaphores | search, insert, delete, print | Con3 |
| Three at a time | con4/prob1.c | two semaphores | use, check | not modelled |
| Mersenne Twister | mt19937ar.c/.h, five copies | a global state vector and index | seed, next | not planned (third party) |

Earlier drafts (hw2/ar, con3/ar, sample_codes), kernel configurations, build
files, scripts, write-ups and binaries hold no behaviour of their own.

### How the parts interact

* `kmalloc`, `kfree` and the caches call `slob_alloc` and `slob_free`, which
  share one spinlock, `slob_lock`, and call the page allocator outside it.
  kfree reads `PageSlab` with no lock. An RCU callback calls back into
  `slob_free` after a grace period. Two system calls read the two counters
  with no lock.
* The block layer calls the scheduler with the device's `queue_lock` held, so
  calls for one device never overlap; calls for two devices do, and share
  `currSector`.
* The block layer calls `osurd_open` and `osurd_release` with the device's
  `bd_mutex`, the request functions with `dev->lock` (given to it as the
  queue's lock), `osurd_make_request` and `osurd_revalidate` with neither; the
  timer calls `osurd_invalidate`, which takes `dev->lock`.
* The thread programs share global variables through semaphores and mutexes.

### What is hard here

Interleavings between critical sections (a page is chosen, the lock is dropped,
the page list has changed), reads without a lock (`PageSlab`, the counters,
`currSector`, `media_change`, `forks`), a timer racing an open, a list edited
in its middle, and waiting loops whose end depends on data being right. Memory
is not persistent and nothing is sent over a network: there are no crashes to
recover from and no messages to lose, and no property is about them. The one
thing that outlives a program is the named semaphores of con1/pc.c, which a
later run finds as an earlier one left them.

### What makes each part correct

* SLOB page: the encoded free list describes exactly the free units, joined
  where they touch; loops over it end; the choice is first fit.
* SLOB: no unit is in two owners' hands; lists, counts and page flags agree
  with the blocks handed out; every call returns.
* C-LOOK: no request is lost or repeated, service is in sweeps, none starves.
* RAM disk: what is read was written; nobody loses the medium while using it;
  every call and request ends. (Each segment of a request should go to its own
  place; with segments of unequal length it does not.)
* RAM disk, loading: nobody uses what is not there; unloading gives back all
  that loading took, once, whatever failed in between.
* Barbershop: no chair or call is lost or given twice; nobody is turned away
  while there is room; nobody waits for ever.
* Barbershop, first version: one customer in the chair whatever becomes of the
  count; a sleeping barber can be seen to sleep; cut_hair and get_hair_cut last
  the same time.
* Producer and consumer: every item is announced and taken whole; nobody sleeps
  while there is work. (It should be taken once; two consumers can pick the same.)
* Philosophers: every fork put down is free again; somebody eats. (Neighbours
  should not eat together; in this code they can.)
* Shared list: links lead on, whatever is overwritten; the deleter stays in the
  list. (Inserters and the deleter should work alone, and whoever is kept waiting
  should be woken; with the program's two searchers and two inserters neither is
  so.)

## The modules

### Fit, PageBlocks, PageHeap, SlobPage: one page of SLOB

**SlobPage** is `slob_page_alloc` and the page's part of `slob_free`, word by
word. `mem` is the page: a free block of more than one unit has its size in its
first word and the offset of the next block in its second; a block of one unit
holds the negated offset of the next (`SetSlob`, `SlobUnits`, `SlobNext` are
`set_slob`, `slob_units`, `slob_next`). Words of a block handed out are
overwritten by its owner with anything in `UserWords`, so that a walk straying
into them sees garbage. `PageAlloc` and `NewPage` start a search; `SearchOn`,
`Take`, `NotFound` are an iteration of its loop; `FreeWhole`, `FreeOnFull`,
`FreeBefore`, `FreeAfter` are the branches of `slob_free`, the last followed by
`ReinsertOn` and `Reinsert`. Since `slob_lock` is held throughout, operations
on a page never overlap.

**PageHeap** is what a page promises: first fit over a set of units (**Fit**).
What may become of its blocks, apart from the answers given, is **PageBlocks**,
which Slob instantiates once for every page.

### Heap, Slob: the allocator

**Slob** has any number of threads in the allocator. One action is one stretch
between points where another thread can get in: taking `slob_lock`
(`SearchHit`, `SearchMiss`, `Carve`, `FreeLast`, `FreeOnFull`, `FreeMore`), the
reads and writes of the two counters (`CountLoad`/`CountStore`/`CountLast`,
`CountPageLoad`/`CountPageStore`), taking a page from and giving it back to the
page allocator (`Grow`, `GrowFail`, `Release`). `Kmalloc`, `Kfree`,
`KmemCacheAlloc`, `KmemCacheFree`, `KmemRcuFree` are the front ends. A block
records the page, the unit, the bytes `slob_free` will be told and where it
came from. A page's free list is the set of its free units, which SlobPage
justifies.

Abstractions: the order of pages on a list is left out, so a tie between pages
with equally many units is a choice; counters are read and written once per
list rather than once per page; contents, constructors, tracing, NUMA and
`ksize` are left out; a request of a page or more takes one page; `kmalloc(0)`
changes nothing and is left out; `BUG_ON(!b)` after a new page cannot fire, or
`Carve` would be stuck and TLC report a deadlock.

**Heap** is what an allocator promises: a new block is disjoint from every
block still owned, and a block stays until it is freed.

### Clook: the scheduler

`AddRequest` begins `look_add_request`; `WalkOn` is an iteration of its walk,
`Insert` its end; `Dispatch` and `MergedRequests` are the other hooks. The walk
is taken in iterations because another device may change `currSector` between
two. `Requests` is the block layer's pool of request structures, reused.
`list_del_init` of a merged request takes its place out of the queue. The ghost `owed` counts what was asked for and not yet dispatched. The latter and
former lookups change nothing and are left out; a read of `currSector` torn
between its two halves is not modelled.

### Osurd: the RAM disk

One device. A thread's `pc` follows `osurd_open` (`Open`, `DelTimer`,
`OpenLock`, `Revalidate`, `Erase`, `Count`), a rescan of the open device, which
revalidates it without `dev->lock` (`Rescan`, `Revalidate`, `Erase`,
`RescanDone`), and `osurd_release` (`Close`, `Release`). `Fire` and
`Invalidate` are the timer. `Submit` puts a request on the queue, `Fetch` and
`EndSegment` are the loops of the two request functions; in queueless mode the
submitting thread moves its bio itself, with no lock (`EndBio`). `request_mode`
is chosen at the start and kept. A request is one bio, given by where it begins
and the lengths of its segments (`Extents`).

A transfer goes through the segments. `NextSegment` is the loop of
`osurd_xfer_bio`, which takes `bio_cur_bytes(bio)`, the length of the segment at
the head of what is left, for the length of every one (hw3/osurd.c:190-195):
`sector` is where the driver has got to, `place` (a ghost) where the segment
belongs. `osurd_transfer` of one segment is `Refuse` when it would end beyond the
disk, `ReadSegment`, or `Wipe` and `WriteChunk` for each chunk. What it writes is
the thread's own while it is within the segment, and what lies behind it in
memory (`Stray`) when the segment is shorter than it is taken to be.

The ghost `content` is what each chunk should read as, and `mislaid` holds the
chunks that bios with segments of unequal length have got wrong: those such a
write should have reached and has not, and those it reached and should not have.
A chunk leaves it when something is written there properly, and all do when the
medium is taken away. A value written is its writer's name; encryption is a
constructor that decryption takes off, and a cleared chunk decrypts to
`Gibberish`.

Abstractions: a chunk is moved whole (the code clears and encrypts it 16 bytes
at a time); what a reader gets in its buffer is left out, the properties are
about what is on the disk; `osurd_xfer_request` over several bios is that over
one, the length being taken anew for each; and a request function that works on a
request it has ended is stuck, which stands for the kernel's failure there.

### OsurdModule: loading and unloading around Osurd

**OsurdModule** extends Osurd with the driver's own life. `AllocCipher`,
`Register`, `Allocate` and `SetUp` are `osurd_init`; each may fail, and `SetUp`
fails in the three ways of `setup_device`, leaving behind what it leaves:
nothing at all and no timer when vmalloc fails, a pointer to memory already
given back when the queue or the gendisk is not to be had. `Unload` begins
`osurd_exit` when no device is open; `ExitTimer` and `ReleaseDevice` are a round
of its loop, `ExitFinish` its end. `ours` is the device that Osurd's variables
describe: it can be opened as soon as `add_disk` has run, beside the setting up
of the next devices, and its timer may fire until `ExitTimer` reaches it. vmalloc
returns the first free place, so that memory given back is handed out again.
`ExitSpins` is `del_timer_sync` on a timer that was never initialised, which
does not return. Not in the model: loading a second time after an unload, and
device numbers.

A load that fails after the cipher was allocated never frees it, and one that
was given a major number registers it and then takes the 0 that
`register_blkdev` returns for a failure: `Register` and `Allocate` end in
"failed" with these still held. NothingLeft is about unloading only.

### BarberShop and Barber

In **BarberShop** (c4.c), one action per semaphore or mutex call and per access to
`available_wait_seats`, including the barber's look at it without the mutex.
Sleeps are delays of any length and are no actions.

**Barber** (barber.c) has the three semaphores and, without any lock,
`customers`, `sleeping` and `cut_time`. `customers++` and `--customers` are a
load and a store each, so the count may drift as it does in the program; a name
in `Customers` is a thread, used again for another customer after its exit. That
`pthread_create` can fail and end the program (barber.c:94-95) is left out.
SleepSeen is about customers who saw the barber asleep; one who sees him awake
just before he finds nobody waits beside him while he sleeps, which the code
allows though con4/README.md:24 says that a customer wakes a barber who is
asleep.

### ProducerConsumer

con1/pc.c with `Slots` slots. The tests for empty (`num` of the first slot) and
full (`sec` of the last one) and the search for an item are made without the
mutex, a slot at a time (`LookForItem`, `LookForRoom`, `Scan`); taking and
putting an item clears or sets `num` and `sec` in two steps under it. The
contents of an item are reduced to "not zero". Under the mutex a producer's
search for a free slot is one step (`Put`, `NoRoom`), since `num` changes only
under the mutex.

Mutex holds what this program and the next share, `mutex_sum` and how it is
taken.

### Dining

con2/dining_problem.c. `TestFirst` and `TestSecond` look at the forks without
the mutex, `TakeFirst`/`TakeSecond` and `PutFirst`/`PutSecond` mark them under
it without another look. `print_table` takes the mutex and reads. The
specification is called `TableSpec`, its parts `TableInit`, `TableNext` and
`TableTypeOK`, so that MutexProofs can extend ProducerConsumer beside it.

### Con3

con3/con3.c. `check` and the tests the threads make for themselves are one
action per flag read; the post that follows goes with the last read. `Link` and
`SetValue`, `Fetch` and `Unlink` are the accesses of `sll_insert` and `sll_del`
to the links. Searchers and inserters start from the first node ever allocated,
the deleter from a list of its own. An access through NULL ends the process
(`Crash`), as the NULL list in `sll_print` does (`Exit`); a node that was freed
reads as it was left or ends it too (`ReadFreed`).

Abstractions: the values in the nodes, so that a search, which changes nothing,
is a single step; the two walks of `sll_print` are a step each, and it fails if
the second finds fewer nodes than the first counted. `next` of a new node is
NULL: nothing is freed before the program ends that malloc could hand out again.
Posts beyond what can still be used are not counted. A thread ends after
`Inserts` insertions or `Searches` searches; in the program a searcher goes on for
ever. The ghost `overwritten` says that an inserter has written over a link that
another one made.

## The runs

| Run | Instance | Shows |
|---|---|---|
| slob_page | 6 units, requests of several sizes and alignments | FreeListExact, UnitsExact, LoopsEnd, and the refinement of PageHeap |
| slob | 2 threads, 2 pages of 4 units, all three size classes, an RCU cache, large requests | PagesExact, Routable, OneClassPerPage, PagesKeepPromise, and the refinement of Heap |
| clook | 1 device, 3 requests, 4 sectors | NothingLost, SweepKept, EveryRequestServed |
| clook_devices (violation) | 2 devices, same | a request starves because devices share `currSector` |
| osurd (MCOsurdModule) | 2 devices, 2 openers of either, 3 chunks, requests of one segment, of two equal ones and of a longer before a shorter one, simple and queueless mode, every failure of setting up | TimerStopped, ReadsAsWritten, DeviceAlive, NothingLeft, CallsReturn |
| osurd_full (violation; MCOsurd) | 2 openers, 2 chunks, full mode | the loop goes on with the request it ended |
| osurd_unload (violation; MCOsurdModule) | as osurd, 2 chunks | memory is freed twice, and as another device's |
| barbershop | 5 customers, 3 chairs | SeatsExact, HaircutsExact, TurnedAwayOnlyWhenFull, WaitingIsServed |
| barber_one | 3 customer threads, 1 seat, 3 arrivals | OneChair, SleepSeen, SameDuration |
| pc | 2 producers, 1 consumer, 3 slots, semaphores found at 0 or 1, 5 turns | ItemsAnnounced, TakesWhole, NobodySleepsOn |
| dining | 5 philosophers | ForksReturned, SomebodyEats |
| con3 (MCCon3) | the program's 2 searchers, 2 inserters and deleter, 1 round of each of the four | LinksLeadOn, DeleterStaysInList |

Each passing run also checks its module's TypeOK (Dining's TableTypeOK) and, by default, absence of
deadlock.

### Further configurations

Not in the list of runs, and run in the same way:

| Configuration | Module | Result |
|---|---|---|
| MCSlobOnePage.cfg | MCSlob | CallsReturn and FreshUnits hold: every allocation and free returns, none hands out owned units (2 threads, 1 page) |
| MCSlobGrow.cfg | MCSlob | GrowsOnlyWithoutRoom fails: a page is added although a page of the list has room |
| MCSlobCount.cfg | MCSlob | PageCountExact fails: `page_count_slob++` and `--` are outside the lock (hw4/slob.c:354, 390), an update is lost, and `sys_slob_used` is wrong ever after |
| Osurd.cfg | MCOsurd | the device alone, with requests of all four shapes wherever they fit; its properties hold |
| OsurdSegments.cfg | MCOsurd | SegmentsInPlace fails: "Do each segment independently" (hw3/osurd.c:190), but each is moved as if it were as long as the first, so that of a bio with unequal segments some chunks are never written, or others are |
| ProducerConsumerTwo.cfg | ProducerConsumer | TakesAnItem fails with two consumers (con1/pc.c:122): both pick the slot, the mutex only orders them, and the second consumes an empty one |
| DiningNeighbours.cfg | Dining | NeighboursApart fails: both neighbours find the forks free before either marks them |
| Con3Exclusion.cfg | Con3 | InsertersExclude ("insertions must be mutually exclusive", con3/con3.c:137) and DeleterAlone ("Deleter can work with nobody", :91) fail: a post is used long after what it was decided on has changed |
| Con3Inserters.cfg | Con3 | WalksInList, DeleterStaysInList without its condition, fails: one inserter overwrites the other's link, and the deleter walks off the shorter list |
| Con3Searchers.cfg | Con3 | NobodyWaitsForGood fails with the program's two searchers: `search_count` loses an update, is never 0 again, and the deleter waits for good |

GrowsOnlyWithoutRoom: `slob_alloc` tries `slob_page_alloc` on the one page with
the fewest sufficient units. When that page is fragmented or misaligned it takes
a new page though another has a fit; the comment at hw4/slob.c:336 says there is
not enough space.

### The violations

* **clook_devices**: `currSector` is one variable for all queues
  (hw2/look-iosched.c:11). Dispatches on one device move the head of the other,
  whose new requests then keep passing a waiting one.
* **osurd_full**: hw3/osurd.c:237 drops the request it fetches. The branch for
  requests that are not file system requests loops in the same way in both
  request functions; it is in the model (`Kinds`), but the block layer sends
  this driver none.
* **osurd_unload**: `out_vfree` in `setup_device` frees the disk's memory and
  leaves `dev->data` set (hw3/osurd.c:455-456); `osurd_exit` frees what it
  points to (515-517), which may be the next device's by then, and then that
  device's again.

### Bounds, and why they are enough

* SLOB pages: six units is the least with room for three fragments and two
  blocks between them, so joins on both sides, on one and on none all occur, as
  do one-unit fragments at each end and a gap left by alignment. Four units in
  the slob run give one block of each class on a page, several mixes of small
  and medium frees, and a page filled by a single block. Two pages let one be
  given back while the other is filled; two threads are enough to overlap any
  two critical sections, and the proofs cover any number.
* `CounterRange` bounds both counters, which wrap at 2^32 in the code. It is 1
  in the slob run, which has no property about them, and larger than the number
  of pages in MCSlobCount.cfg.
* C-LOOK: three requests are the least with one waiting, one ahead of it and
  one overtaking; with four sectors there are positions below, at, and above the
  head. The least number that breaks the walk in the mutants is three.
* RAM disk: two openers cover an open or a close beside a request of the other,
  both waiting for `bd_mutex`, and an expiry beside each. Three chunks are the
  least that two segments of unequal length take; the requests of the run
  overlap each other, and with the longer segment first the second is taken to
  end beyond the disk. Osurd.cfg adds the others and OsurdSegments.cfg a fourth
  chunk, which is what a neighbour needs to be overwritten. The proofs cover any
  number of openers and chunks and any requests. With
  two devices, either of which may be the one in use, one is used while the
  other is being set up or released, and each failure occurs before and after.
* Barbershop: five customers and three chairs, so that customers are turned
  away while one is being called. c4.c has twenty and six; the proofs cover any
  numbers. In barber.c three customer threads with one seat are one in the
  chair, one waiting and one turned away; `Arrivals` ends the day.
* Producer and consumer: three slots are a first, a last and one between, and
  two producers race for them; five turns fill the buffer and overrun it.
  `Leftover` lets either semaphore start one too high.
* Philosophers: five, as in the program; their states repeat, so there is no
  bound.
* Shared list: the five threads are the program's own. One insertion and one
  search of each are enough for two inserters to overwrite a link, two searchers
  to lose an update of the count, and the deleter to be overtaken by both
  insertions between counting and walking; like threads are interchangeable
  (`Alike`). The walk is then never long enough to leave the list, so
  Con3Inserters.cfg has two insertions each and one searcher, and there it does.
  The proofs cover any number of threads and rounds. The program's ten
  insertions and endless searches repeat these.

### Fairness

* Slob: weak fairness for code outside the lock (CPUs run on), strong fairness
  for taking `slob_lock`: the kernel's ticket spinlocks serve waiters in turn.
  Callers need never call.
* SlobPage: weak fairness of the loops, which run with interrupts off.
* Clook: the walk runs on under `queue_lock` (weak); a driver with requests
  waiting keeps asking, and adding holds the lock only for a moment (strong
  fairness of `Dispatch`, or adds could disable it again and again).
* Osurd: threads and the handler run on and get a spinlock that is free again
  and again, and a queue with requests is run. No thread needs to open, close
  or submit anything, and the timer need not fire.
* BarberShop: threads run on; the barber, who competes with customers for the
  mutex, gets it in the end (strong), because whoever gives it up sleeps for at
  least 0.2 seconds before coming back.
* ProducerConsumer: strong fairness of each thread: whoever competes for the
  mutex or a semaphore sleeps for seconds between two turns.
* Dining: weak fairness of each philosopher only; SomebodyEats assumes nothing
  of who wins the mutex.
* Con3: weak fairness of each thread, which run on; only Con3Searchers.cfg has a
  property that depends on it, and it fails all the same.
* Barber: none; its properties are about safety.

## The proofs

Everything below is proved by TLAPS for every value of the constants that
satisfies the named ASSUMEs of its module.

### SlobProofs

* `TypeCorrect`, `PagesAlwaysExact`, `AlwaysRoutable`, `AlwaysOneClass`: TypeOK,
  PagesExact, Routable and OneClassPerPage always hold.
* `AlwaysFresh`: no unit of a live block is handed out (FreshUnits).
* `PromiseKept`: seen through the allocator, every page keeps the promise of
  PageBlocks (PagesKeepPromise).
* `Refinement`: Slob implements Heap (HeapSpec).

None of the invariants is inductive alone. That a page is given back only when
nobody has a block on it (PagesExact) depends on the counts being right at
every unlock, on the bodies of live blocks being disjoint, and on the thread
that empties a page being the only one that then touches it. `IInv` therefore
joins TypeOK, Routable and OneClassPerPage with: the bodies of live blocks are
disjoint (Disjoint); what a page has free is the rest, counted exactly
(AllExact); lists hold only the allocator's pages (Listed); a page being set up
or given back belongs to one thread and has no block on it (Transit); a block
being freed is live, in no other thread's hands and not waiting for RCU
(Handled); a pending request is below a page in size (Requested); and PageSlab
agrees with the owner (SlabPages). The proof goes action by action: each
operation is a lemma, the ones that leave the pages alone share `PagesFrame`,
and arithmetic over sets of units rests on `CarveCardinality` and
`FreeCardinality`. Refinement follows from the same invariant: `CarveAt` maps
to Heap's Alloc, the freeing steps to Free, the rest to stuttering.

`PromiseKept` joins the two levels. SlobPage is one page with its operations in
a row, Slob any number of pages with threads in between, and what they have in
common is PageBlocks: `PageRefinement` shows that the words of the free list
implement it, `PromiseKept` that the allocator's callers get it from every
page. PageReads says PageBlocks in Slob's words, ListedFree that the units
slob_alloc takes for free on a listed page are those in no block; AnswerKept,
GivenBackKept and LargeKept take the steps, and TurnedAway a search that fails.

Assumed: threads and pages are distinct from the null values, pages are
finitely many with at least one unit, sizes are positive.

### SlobPageProofs

* `PageTypeCorrect`, `AlwaysUnitsExact`, `AlwaysFreeListExact`: TypeOK,
  UnitsExact and FreeListExact always hold, for pages of any size, any requests
  and whatever the owners of blocks write into them.
* `PageRefinement`: SlobPage implements PageHeap (HeapSpec): a block is carved at
  the first place that fits, and a request is refused only when none does.

The free list lives in the free units themselves, so everything rests on saying
what a word means. `Encodes(m, f, F)` does: the words `m`, read from `f` on, are
the free list of the set of units `F`. It is stated unit by unit (the first
word of every maximal run of `F` holds its length, and names the next run), not
along the list, so it needs no induction: each operation changes the words of
one run or two, and the others read as before (`NodeFrame`).

`IInv` joins TypeOK, UnitsExact and that encoding (FreeList) with: blocks in use
lie apart in the page (Apart); a page at the page allocator has none (Unused);
the walk of `slob_page_alloc` is at the beginning of a free run, `prev` at the
one before, and no place below fits (Looking); the walk of `slob_free` is at a
run below the block given back (Returning). Looking is also what makes the
search first fit, for the refinement. Three lemmas carry the data: a block carved
from a run may leave a gap before it, a rest behind it, both or neither
(`TakeEncodes`), and a block given back may touch the run below, the run above,
both or neither (`GiveFirst`, `GiveAfter`).

`Encodes` says of a word that it names a run's length and the least free unit
behind it, which is what the operations keep up; FreeListExact says that this
least unit is the beginning of the next run and nothing between two runs is on
the list, which follows.

Assumed: a page has at least two units (it has 2048); requests are positive and
fit a page; the owners' words are integers.

### ClookProofs

* `ClookTypeCorrect`, `AlwaysNothingLost`: TypeOK and NothingLost always hold, for
  any number of devices, request structures and sectors.
* `AlwaysSweepKept`: the queue of a lone device stays one sweep (SweepKept).

`IInv` adds to TypeOK and NothingLost that no request is at two devices (Apart);
that a request ends on the device (Fits), which a merge needs; and that the
request being placed is in no queue and its cursor within the queue (Placing).
The count of NothingLost is then a matter of one request: adding brings one that
was at no device, handing over takes one, and a merge puts `rq` in the place of
`next` for the sectors of `next`, which `rq` did not cover before. Every action
touches one device (`OneDevice`); the queue's lemmas are `Inserted`, `Removed`
and `Headless`.

SweepKept needs one thing more, that the walk has only passed requests the new
one goes behind (Walked). That is kept only while nobody else moves
`currSector` during a walk, so the theorem assumes `Alone`, one device; with two
it is false. `SweptReads` turns the sweep into an order on the queue's sectors,
and `SweepInsert`, `SweepRemove` and `SweepMove` are what inserting, merging and
dispatching do to it.

Assumed: the block layer has finitely many request structures, and a device has
at least one sector.

### OsurdProofs

* `OsurdTypeCorrect`, `TimerAlwaysStopped`, `AlwaysReadsAsWritten`: TypeOK,
  TimerStopped and ReadsAsWritten always hold, for any number of openers and
  chunks, requests of any segments and any request mode, the full one included.

`IInv` adds to them who holds `bd_mutex` and `dev->lock` (MutexHeld, LockHeld,
DriverLock), that `users` is the number of threads that got in (UsersExact),
that a changed medium has no users and is erased under the lock by the first of
them (ChangeUnused, FirstUser), that nothing of the old medium is expected once
it is taken away (ContentLost), and that only open devices are read and written
within bounds (IoOpen, IoWiped). WellFormed, a part of IoOpen, carries the
segments: the driver is within what is left of the request, and while the
segments are of one length it is where the one in hand belongs. So whatever goes
elsewhere is of a bio with unequal segments, and is in `mislaid`. UsersExact is the heart: it turns `users == 0`,
which the code tests, into "nobody is in", which the properties need; a step of
a thread changes the count through `UsersMore` or `UsersFewer`.

Assumed: finitely many openers, fewer than a short counts; every request has
segments, and none of them is empty.

The second half is about OsurdModule, for any number of devices and every way
in which setting them up can fail:

* `AlwaysAlive`, `AlwaysNothingLeft`: DeviceAlive and NothingLeft always hold.
* `ModuleKeepsDisk`: so do TypeOK, TimerStopped and ReadsAsWritten, with loading
  and unloading around the device.

`ModuleInv` adds to `IInv` what is held at each stage (HeldByStage,
DevicesByStage) and that only a device that can be opened has users, and that a
timer stopped for good stays so (UsersByStage). The rest is about memory. A
failed set-up gives memory back and leaves the pointer, so that two devices may
point at the same place and `osurd_exit` frees it twice; NothingLeft holds all
the same, because every place in use belongs to some device the loop has yet to
release (HeapOwned). To know that of a place `setup_device` has just been given,
and that giving it back takes nobody else's, one has to know that vmalloc's
first free place is new to all: the places in use are the first ones
(HeapCompact).

Assumed: at least one device.

### BarberShopProofs

* `ShopTypeCorrect`, `SeatsAlwaysExact`, `HaircutsAlwaysExact`,
  `NobodyTurnedAwayEarly`: TypeOK, SeatsExact, HaircutsExact and
  TurnedAwayOnlyWhenFull hold for any number of customers and chairs.

`IInv` is TypeOK with mutual exclusion (MutexHeld) and the two counting
equations; the count of free chairs stays between 0 and Seats only because of
SeatsExact, which is why TypeOK is not inductive.

### BarberProofs

* `BarberTypeCorrect`, `AlwaysOneChair`, `AlwaysSleepSeen`, `AlwaysSameDuration`:
  TypeOK, OneChair, SleepSeen and SameDuration hold for any number of customers,
  seats and arrivals.

The first three together are the inductive invariant. None of them mentions the
count of customers, which is what makes them provable: it is written without a
lock and may be anything. OneChair is an equation of the semaphore, the barber's
place in his loop and the customers in the chair, from which SameDuration
follows: when `cut_time` is written nobody is in the chair or called to it.

### MutexProofs: ProducerConsumer

* `BufferTypeCorrect`: TypeOK holds for any number of producers and consumers.
* `AlwaysTakesWhole`: so does TakesWhole: what a consumer takes is a whole item or
  nothing, whatever the others did since it picked the slot.
* `AlwaysAnnounced`: with one consumer and any number of producers and slots,
  ItemsAnnounced holds.

`Shared` (TypeOK, mutual exclusion, and that `num` and `sec` of a slot differ only
while its holder is between the two) holds however many consumers there are.
TakesWhole follows: while a consumer has the mutex nobody else is between the two
halves of a slot. The rest of `IInv` assumes `OneConsumer`, which `argv[2]` of
the program may be, and has to: the consumer picks a slot before it takes the
mutex, and with two, both may pick the same (ProducerConsumerTwo.cfg). With
three, two can so spend two counts of `s2` on one slot while the third takes
slot 0, and an item in slot 1 is unannounced until the next production. With one, what it picked stays an item (Picked); a
search that has passed empty slots has missed nothing, since producers fill the
first free slot (Passed); and items never outnumber what is announced, about to
be announced, or being taken (Counted).

Assumed: finitely many threads, and that semaphores found at the start are
counts.

### MutexProofs: Dining

* `DiningInvariance`, `DiningTypeCorrect`, `ForksAlwaysReturned`: TableTypeOK and
  ForksReturned hold for any number of philosophers, 1 included, where both
  forks are the same one.

`TableInv` adds to them that a philosopher who has taken its first fork is marked
as eating (TakerEats). `get_forks` returns that mark, so without it a
philosopher could be told that it got nothing and leave with both forks in use.
Nothing is said of who took a fork first: neighbours may hold the same one.
Whoever puts a fork down marks it free for both, so one still in use was taken
since, and by somebody who has yet to put it down.

The proofs of the two programs are in one module, since both share data under
`mutex_sum`; neither uses an assumption about the other's constants.

### Con3Proofs

All for any number of searchers, inserters and rounds:

* `ListInvariance`: `Shape` always holds.
* `ListTypeCorrect`, `LinksAlwaysLeadOn`: TypeOK and LinksLeadOn always hold.
* `WayInvariance`, `DeleterAlwaysInList`: `Safe` and DeleterStaysInList do.

`Shape` is what survives every race of the program. Links only lead to nodes
allocated later (Forward), even when one inserter writes over another's link: so
the list never becomes a ring and walks along it end. The nodes are the first one
and one for each insertion that has got that far (NodesExact), which bounds them
without a sum over the inserters. The deleter's count stays below the node it
looks at (Deleting). Of `search_count` nothing is said but that it is a number:
`search_count++` is a load and a store, and with the program's two searchers an
update is lost, the count falls below zero or never returns to it, and the
deleter is not woken again (Con3Searchers.cfg).

`Safe` adds to `Shape` that the deleter is on its way (`OnTheWay`) as long as no
inserter has written over a link. The two of the program do that, and then the
deleter can walk off the list (Con3Inserters.cfg); the theorem says that nothing
else makes it. While the deleter counts there is a way of `cnt` links from `list`
to its node; when it has drawn its number the first part of that way is the one
it walks, and each step takes a link off the front (WayLonger, WayPart,
WayShorter; WayKept says what the others may do). The proof needs no induction
over the list.

The nodes that a list reaches are defined as the least set closed under the
links, not by recursion, so that a length is provably a number.

### Only model-checked

Liveness (LoopsEnd, CallsReturn, EveryRequestServed, WaitingIsServed,
NobodySleepsOn, SomebodyEats), which needs fairness and ENABLED. Every safety
property of a passing run is also a theorem, ProducerConsumer's ItemsAnnounced
for one consumer and Clook's SweepKept for one device.

## Plan

Done, the most important first: Fit, PageBlocks, PageHeap, SlobPage,
SlobPageProofs; Heap, Slob, SlobProofs; Clook, ClookProofs; BarberShop,
BarberShopProofs; Osurd, OsurdModule, OsurdProofs; Mutex, ProducerConsumer,
Dining, MutexProofs; Barber, BarberProofs; Con3, Con3Proofs. MCSlob, MCSlobPage,
MCOsurd, MCOsurdModule and MCCon3 hold what TLC needs for its instances. What could still be
added is an abstract queue that Clook implements, so that NothingLost and
SweepKept become one statement; it would have to say what a request at
`currSector` itself does to the sweep.

## Not modelled, and why

The inside of the page allocator, of the block layer, of RCU and of AES, which
are not in this repository and appear as the choices they leave open; the
system calls of hw4 (two reads of the counters, which the models keep);
con4/prob1.c, whose main joins each process before it starts the next, so that
no two ever overlap: all it does is block, in the fourth process, if the checker
does not get `sem0` in the 0.2 seconds before; the
creation and removal of a scheduler queue (an allocation, and a check that the
block layer's drain makes true); `osurd_getgeo` (reads only); random number
generation, printing and timing; the drafts, write-ups and build files listed
above.
