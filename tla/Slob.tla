-------------------------------- MODULE Slob --------------------------------
(* The SLOB allocator of hw4/slob.c: its three lists of partly free pages,  *)
(* the kmalloc and kmem_cache front ends over it, the page allocator under  *)
(* it, and the counters of the two added system calls, with any number of   *)
(* threads inside it.  One action is one stretch of code between two points *)
(* where another thread can get in: slob_lock, or an unlocked access to the *)
(* shared counters.  What happens inside a page is a set of free units and  *)
(* a first-fit choice, which SlobPage shows the free list to implement.     *)
EXTENDS Fit, FiniteSets

CONSTANTS Threads, Pages, NoThread, NoPage,
          PageUnits,      \* SLOB_UNITS(PAGE_SIZE)
          Break1, Break2, \* SLOB_BREAK1, SLOB_BREAK2, in bytes
          MinAlign,       \* ARCH_KMALLOC_MINALIGN, in bytes
          RcuFooter,      \* sizeof(struct slob_rcu)
          KmallocSizes,   \* sizes passed to kmalloc; 0 never gets this far
          Caches,         \* [size, align, rcu]: kmem_cache_create arguments
          CounterRange    \* both counters wrap at this, 2^32 in the code

SlobUnit == 2             \* sizeof(slob_t), a 16-bit index
PageSize == PageUnits * SlobUnit
UnitsFor(size) == (size + SlobUnit - 1) \div SlobUnit
AlignUnits(align) == IF align <= SlobUnit THEN 1 ELSE align \div SlobUnit
Offsets == 0 .. PageUnits - 1

ASSUME NoneAssumption == NoThread \notin Threads /\ NoPage \notin Pages
ASSUME PagesAssumption == IsFiniteSet(Pages) /\ PageUnits \in Nat \ {0}
ASSUME SizesAssumption ==
    /\ Break1 \in Nat /\ Break2 \in Nat /\ RcuFooter \in Nat
    /\ MinAlign \in Nat \ {0}
    /\ KmallocSizes \subseteq Nat \ {0}
    /\ Caches \subseteq [size : Nat \ {0}, align : Nat, rcu : BOOLEAN]
    /\ CounterRange \in Nat \ {0}

VARIABLES owner,      \* page -> whose it is: "buddy", "slob" or "large"
          slab,       \* page -> PageSlab
          free,       \* page -> the units its free list holds
          units,      \* page -> sp->units
          list,       \* page -> the partial list it is on (PG_slob_free)
          live,       \* blocks not yet free again
          rcu,        \* blocks whose call_rcu callback is still to run
          lock,       \* the holder of slob_lock
          page_count, \* page_count_slob
          free_units,
          pc, req, blk, page, reg, class   \* per thread

pages == <<owner, slab, free, units, list>>
stats == <<page_count, free_units>>
locals == <<req, blk, page, reg, class>>
vars == <<pages, live, rcu, lock, stats, pc, locals>>

-----------------------------------------------------------------------------
(* A block is what a caller owns: [page, at, size, from].  size is what the *)
(* code will pass to slob_free: *m + align, or the cache's c->size.         *)
NoRequest == [size |-> 0, align |-> 0, from |-> "none"]
NoBlock == [page |-> NoPage, at |-> 0, size |-> 0, from |-> "none"]

Froms == {"kmalloc", "pages", "object", "rcuobject"}
Sizes == {n + MinAlign : n \in KmallocSizes} \cup KmallocSizes
         \cup {c.size + RcuFooter : c \in Caches} \cup {c.size : c \in Caches}
Blocks == [page : Pages, at : Offsets, size : Sizes, from : Froms]

(* Whole pages straight from the page allocator. *)
IsLarge(b) == b.from = "pages" \/ b.size >= PageSize
Body(b) == Extent(b.at, IF IsLarge(b) THEN PageUnits ELSE UnitsFor(b.size))

Held == live \ (rcu \cup {blk[t] : t \in Threads})

(* c->size after __kmem_cache_create left room for the footer. *)
CacheBytes(c) == c.size + (IF c.rcu THEN RcuFooter ELSE 0)
CacheFrom(c) == IF c.rcu THEN "rcuobject" ELSE "object"

ListFor(size) == IF size < Break1 THEN "small"
                 ELSE IF size < Break2 THEN "medium" ELSE "large"

Init ==
    /\ owner = [p \in Pages |-> "buddy"] /\ slab = [p \in Pages |-> FALSE]
    /\ free = [p \in Pages |-> {}] /\ units = [p \in Pages |-> 0]
    /\ list = [p \in Pages |-> "none"]
    /\ live = {} /\ rcu = {} /\ lock = NoThread
    /\ page_count = 0 /\ free_units = 0
    /\ pc = [t \in Threads |-> "idle"]
    /\ req = [t \in Threads |-> NoRequest] /\ blk = [t \in Threads |-> NoBlock]
    /\ page = [t \in Threads |-> NoPage] /\ reg = [t \in Threads |-> 0]
    /\ class = [t \in Threads |-> "none"]

Return(t) ==
    /\ pc' = [pc EXCEPT ![t] = "idle"]
    /\ req' = [req EXCEPT ![t] = NoRequest]
    /\ blk' = [blk EXCEPT ![t] = NoBlock]
    /\ page' = [page EXCEPT ![t] = NoPage]
    /\ reg' = [reg EXCEPT ![t] = 0]
    /\ class' = [class EXCEPT ![t] = "none"]

-----------------------------------------------------------------------------
(* Callers. *)

(* slob_alloc begins by clearing free_units, before it takes the lock. *)
StartAlloc(t, size, align, from) ==
    /\ pc' = [pc EXCEPT ![t] = "search"]
    /\ req' = [req EXCEPT ![t] = [size |-> size, align |-> align, from |-> from]]
    /\ free_units' = 0
    /\ UNCHANGED <<pages, live, rcu, lock, page_count, blk, page, reg, class>>

(* A request of a page or more goes to the page allocator, which may fail. *)
AllocPages(size, from) ==
    /\ \E p \in Pages :
         /\ owner[p] = "buddy"
         /\ owner' = [owner EXCEPT ![p] = "large"]
         /\ live' = live \cup
                    {[page |-> p, at |-> 0, size |-> size, from |-> from]}
    /\ UNCHANGED <<slab, free, units, list, rcu, lock, stats, pc, locals>>

FreePages(b) ==
    /\ owner' = [owner EXCEPT ![b.page] = "buddy"]
    /\ live' = live \ {b}
    /\ UNCHANGED <<slab, free, units, list, lock, stats, pc, locals>>

StartFree(t, b) ==
    /\ pc' = [pc EXCEPT ![t] = "free"]
    /\ blk' = [blk EXCEPT ![t] = b]
    /\ UNCHANGED <<pages, live, lock, stats, req, page, reg, class>>

Kmalloc(t, n) ==
    /\ pc[t] = "idle"
    /\ IF n < PageSize - MinAlign
       THEN StartAlloc(t, n + MinAlign, MinAlign, "kmalloc")
       ELSE AllocPages(n, "pages")

KmemCacheAlloc(t, c) ==
    /\ pc[t] = "idle"
    /\ IF CacheBytes(c) < PageSize
       THEN StartAlloc(t, CacheBytes(c), c.align, CacheFrom(c))
       ELSE AllocPages(CacheBytes(c), CacheFrom(c))

(* kfree looks at PageSlab, without the lock, to tell the two kinds apart. *)
Kfree(t, b) ==
    /\ pc[t] = "idle"
    /\ b.from \in {"kmalloc", "pages"}
    /\ IF slab[b.page] THEN StartFree(t, b) ELSE FreePages(b)
    /\ UNCHANGED rcu

(* __kmem_cache_free goes by the size. *)
CacheFree(t, b) == IF b.size < PageSize THEN StartFree(t, b) ELSE FreePages(b)

KmemCacheFree(t, b) ==
    /\ pc[t] = "idle"
    /\ \/ b.from = "object" /\ CacheFree(t, b) /\ UNCHANGED rcu
       \/ b.from = "rcuobject" /\ rcu' = rcu \cup {b}
          /\ UNCHANGED <<pages, live, lock, stats, pc, locals>>

(* After a grace period some CPU runs the callback. *)
KmemRcuFree(t, b) ==
    /\ pc[t] = "idle"
    /\ rcu' = rcu \ {b}
    /\ CacheFree(t, b)

-----------------------------------------------------------------------------
(* slob_alloc. *)

(* The pages the scan can settle on: enough units, and the fewest of those. *)
Roomy(l, n) == {p \in Pages : list[p] = l /\ units[p] >= n}
Tightest(l, n) == {p \in Roomy(l, n) :
                     \A q \in Roomy(l, n) : units[p] <= units[q]}

(* Faults: the last unit stays in the free list, units are counted in bytes. *)
Without_LastUnit(F, s, n) == F \ Extent(s, n - 1)
Without(F, s, n) == F \ Extent(s, n)

UnitsLeft_InBytes(n, size) == n - size
UnitsLeft(n, size) == n - UnitsFor(size)

(* slob_page_alloc found room at unit s of page p, whose free units are F. *)
CarveAt(t, p, s, F, n, l) ==
    LET b == [page |-> p, at |-> s, size |-> req[t].size, from |-> req[t].from]
    IN /\ free' = [free EXCEPT ![p] = Without(F, s, UnitsFor(b.size))]
       /\ units' = [units EXCEPT ![p] = UnitsLeft(n, b.size)]
       /\ list' = [list EXCEPT ![p] = IF units'[p] = 0 THEN "none" ELSE l]
       /\ live' = live \cup {b}
       /\ blk' = [blk EXCEPT ![t] = b]

Locked(t) == lock = NoThread /\ lock' = t

(* Fault: an unlock is missing. *)
Unlock_Forgotten == UNCHANGED lock
Unlock == lock' = NoThread

SearchHit(t) ==
    LET n == UnitsFor(req[t].size)
        l == ListFor(req[t].size)
    IN /\ pc[t] = "search" /\ Locked(t)
       /\ \E p \in Tightest(l, n) : \E s \in free[p] :
            /\ IsFirstFit(free[p], s, n, AlignUnits(req[t].align))
            /\ CarveAt(t, p, s, free[p], units[p], l)
       /\ pc' = [pc EXCEPT ![t] = "load"]
       /\ class' = [class EXCEPT ![t] = "small"]
       /\ UNCHANGED <<owner, slab, rcu, stats, req, page, reg>>

(* Only one page is tried: when it has no fit, slob_alloc wants a new one. *)
SearchMiss(t) ==
    LET n == UnitsFor(req[t].size)
        tight == Tightest(ListFor(req[t].size), n)
    IN /\ pc[t] = "search" /\ Locked(t)
       /\ \/ tight = {}
          \/ \E p \in tight : NoFit(free[p], n, AlignUnits(req[t].align))
       /\ pc' = [pc EXCEPT ![t] = "load"]
       /\ class' = [class EXCEPT ![t] = "small"]
       /\ UNCHANGED <<pages, live, rcu, stats, req, blk, page, reg>>

(* free_units gains the units of each list, read and written back while the *)
(* lock is held, though another slob_alloc may clear it at any moment.      *)
ListUnits(l) == Cardinality({x \in Pages \X (1 .. PageUnits) :
                               list[x[1]] = l /\ x[2] <= units[x[1]]})

CountLoad(t) ==
    /\ pc[t] = "load"
    /\ reg' = [reg EXCEPT ![t] = free_units]
    /\ pc' = [pc EXCEPT ![t] = "store"]
    /\ UNCHANGED <<pages, live, rcu, lock, stats, req, blk, page, class>>

CountStore(t) ==
    /\ pc[t] = "store" /\ class[t] # "large"
    /\ free_units' = (reg[t] + ListUnits(class[t])) % CounterRange
    /\ class' = [class EXCEPT ![t] = IF @ = "small" THEN "medium" ELSE "large"]
    /\ pc' = [pc EXCEPT ![t] = "load"]
    /\ UNCHANGED <<pages, live, rcu, lock, page_count, req, blk, page, reg>>

CountLast(t) ==
    /\ pc[t] = "store" /\ class[t] = "large"
    /\ free_units' = (reg[t] + ListUnits(class[t])) % CounterRange
    /\ Unlock
    /\ IF blk[t] # NoBlock THEN Return(t)
       ELSE /\ pc' = [pc EXCEPT ![t] = "grow"]
            /\ reg' = [reg EXCEPT ![t] = 0]
            /\ class' = [class EXCEPT ![t] = "none"]
            /\ UNCHANGED <<req, blk, page>>
    /\ UNCHANGED <<pages, live, rcu, page_count>>

GrowFail(t) ==
    /\ pc[t] = "grow"
    /\ Return(t)
    /\ UNCHANGED <<pages, live, rcu, lock, stats>>

Grow(t, p) ==
    /\ pc[t] = "grow"
    /\ owner[p] = "buddy"
    /\ owner' = [owner EXCEPT ![p] = "slob"]
    /\ slab' = [slab EXCEPT ![p] = TRUE]
    /\ page' = [page EXCEPT ![t] = p]
    /\ pc' = [pc EXCEPT ![t] = "carve"]
    /\ UNCHANGED <<free, units, list, live, rcu, lock, stats, req, blk, reg, class>>

(* The lock is taken and dropped again: nobody sees the page half made. *)
Carve(t) ==
    /\ pc[t] = "carve" /\ lock = NoThread
    /\ \E s \in Offsets :
         /\ IsFirstFit(Offsets, s, UnitsFor(req[t].size), AlignUnits(req[t].align))
         /\ CarveAt(t, page[t], s, Offsets, PageUnits, ListFor(req[t].size))
    /\ pc' = [pc EXCEPT ![t] = "countpage"]
    /\ UNCHANGED <<owner, slab, rcu, lock, stats, req, page, reg, class>>

(* page_count_slob++ and -- without the lock: a load and a store. *)
CountPageLoad(t) ==
    /\ pc[t] \in {"countpage", "uncountpage"}
    /\ reg' = [reg EXCEPT ![t] = page_count]
    /\ pc' = [pc EXCEPT ![t] = IF @ = "countpage" THEN "increment" ELSE "decrement"]
    /\ UNCHANGED <<pages, live, rcu, lock, stats, req, blk, page, class>>

CountPageStore(t) ==
    /\ \/ pc[t] = "increment" /\ page_count' = (reg[t] + 1) % CounterRange
       \/ pc[t] = "decrement"
          /\ page_count' = (reg[t] + CounterRange - 1) % CounterRange
    /\ Return(t)
    /\ UNCHANGED <<pages, live, rcu, lock, free_units>>

-----------------------------------------------------------------------------
(* slob_free, of block blk[t]. *)

(* Fault: a page whose last block is freed is kept. *)
LastOnPage_Never(b) == units[b.page] + UnitsFor(b.size) > PageUnits
LastOnPage(b) == units[b.page] + UnitsFor(b.size) = PageUnits

(* Faults: a size in bytes used where units are meant, and the reverse. *)
FreedUnits_InBytes(b) == Extent(b.at, b.size)
FreedUnits(b) == Extent(b.at, UnitsFor(b.size))

ListOfFreed_ByUnits(b) == ListFor(UnitsFor(b.size))
ListOfFreed(b) == ListFor(b.size)

FreeLast(t) ==
    LET b == blk[t]
    IN /\ pc[t] = "free" /\ lock = NoThread
       /\ LastOnPage(b)
       /\ list' = [list EXCEPT ![b.page] = "none"]
       /\ live' = live \ {b}
       /\ page' = [page EXCEPT ![t] = b.page]
       /\ blk' = [blk EXCEPT ![t] = NoBlock]
       /\ pc' = [pc EXCEPT ![t] = "release"]
       /\ UNCHANGED <<owner, slab, free, units, rcu, lock, stats, req, reg, class>>

FreeOnFull(t) ==
    LET b == blk[t]
    IN /\ pc[t] = "free" /\ lock = NoThread
       /\ ~ LastOnPage(b)
       /\ list[b.page] = "none"
       /\ free' = [free EXCEPT ![b.page] = FreedUnits(b)]
       /\ units' = [units EXCEPT ![b.page] = UnitsFor(b.size)]
       /\ list' = [list EXCEPT ![b.page] = ListOfFreed(b)]
       /\ live' = live \ {b}
       /\ Return(t)
       /\ UNCHANGED <<owner, slab, rcu, lock, stats>>

FreeMore(t) ==
    LET b == blk[t]
    IN /\ pc[t] = "free" /\ lock = NoThread
       /\ ~ LastOnPage(b)
       /\ list[b.page] # "none"
       /\ free' = [free EXCEPT ![b.page] = @ \cup FreedUnits(b)]
       /\ units' = [units EXCEPT ![b.page] = @ + UnitsFor(b.size)]
       /\ live' = live \ {b}
       /\ Return(t)
       /\ UNCHANGED <<owner, slab, list, rcu, lock, stats>>

(* Fault: PageSlab is left set on a page given back. *)
Unslab_Forgotten(t) == UNCHANGED slab
Unslab(t) == slab' = [slab EXCEPT ![page[t]] = FALSE]

(* After the unlock: PageSlab is cleared, then the page goes back, and with *)
(* it the fields of its struct page.                                        *)
Release(t) ==
    /\ pc[t] = "release"
    /\ free' = [free EXCEPT ![page[t]] = {}]
    /\ units' = [units EXCEPT ![page[t]] = 0]
    /\ Unslab(t)
    /\ owner' = [owner EXCEPT ![page[t]] = "buddy"]
    /\ pc' = [pc EXCEPT ![t] = "uncountpage"]
    /\ page' = [page EXCEPT ![t] = NoPage]
    /\ UNCHANGED <<list, live, rcu, lock, stats, req, blk, reg, class>>

-----------------------------------------------------------------------------
Call(t) ==
    \/ \E n \in KmallocSizes : Kmalloc(t, n)
    \/ \E c \in Caches : KmemCacheAlloc(t, c)
    \/ \E b \in Held : Kfree(t, b) \/ KmemCacheFree(t, b)
    \/ \E b \in rcu : KmemRcuFree(t, b)

Lock(t) == \/ SearchHit(t) \/ SearchMiss(t) \/ Carve(t)
           \/ FreeLast(t) \/ FreeOnFull(t) \/ FreeMore(t)

Run(t) == \/ CountLoad(t) \/ CountStore(t) \/ CountLast(t)
          \/ GrowFail(t) \/ \E p \in Pages : Grow(t, p)
          \/ CountPageLoad(t) \/ CountPageStore(t)
          \/ Release(t)

Next == \E t \in Threads : Call(t) \/ Lock(t) \/ Run(t)

(* The CPUs keep executing, and a spinlock that is free again and again is  *)
(* won in the end: the kernel's ticket locks serve their waiters in turn.   *)
Fairness == \A t \in Threads : WF_vars(Run(t)) /\ SF_vars(Lock(t))

Spec == Init /\ [][Next]_vars /\ Fairness

-----------------------------------------------------------------------------
Lists == {"none", "small", "medium", "large"}
Labels == {"idle", "search", "load", "store", "grow", "carve", "countpage",
           "increment", "free", "release", "uncountpage", "decrement"}

TypeOK ==
    /\ owner \in [Pages -> {"buddy", "slob", "large"}]
    /\ slab \in [Pages -> BOOLEAN]
    /\ free \in [Pages -> SUBSET Offsets]
    /\ units \in [Pages -> 0 .. PageUnits]
    /\ list \in [Pages -> Lists]
    /\ live \subseteq Blocks /\ rcu \subseteq live
    /\ lock \in Threads \cup {NoThread}
    /\ page_count \in 0 .. CounterRange - 1
    /\ free_units \in 0 .. CounterRange - 1
    /\ pc \in [Threads -> Labels]
    /\ req \in [Threads -> [size : Sizes, align : Nat, from : Froms] \cup {NoRequest}]
    /\ blk \in [Threads -> Blocks \cup {NoBlock}]
    /\ page \in [Threads -> Pages \cup {NoPage}]
    /\ reg \in [Threads -> 0 .. CounterRange - 1]
    /\ class \in [Threads -> Lists]

(* A page of the allocator no thread is setting up or giving back. *)
Settled(p) ==
    /\ owner[p] = "slob"
    /\ \A t \in Threads : pc[t] \in {"carve", "release"} => page[t] # p

LiveOn(p) == {b \in live : b.page = p}

(* slob_alloc hands out no unit of a block that is still owned, being freed *)
(* by another thread or waiting for its grace period: whatever allocations  *)
(* and frees run meanwhile, two owners never share memory.                  *)
FreshUnits ==
    [][\A t \in Threads : blk[t] = NoBlock /\ blk'[t] # NoBlock /\ pc[t] # "idle" =>
         \A c \in live : c.page = blk'[t].page => Body(c) \cap Body(blk'[t]) = {}]_vars

(* slob_alloc and slob_free agree, at every unlock, on which units of a     *)
(* page are free: those of no live block.  sp->units counts them, the page  *)
(* is on a list exactly when there are some, and a page whose last block    *)
(* was freed is not kept.                                                   *)
PagesExact ==
    \A p \in Pages : Settled(p) =>
        /\ free[p] = Offsets \ UNION {Body(b) : b \in LiveOn(p)}
        /\ units[p] = Cardinality(free[p])
        /\ list[p] # "none" <=> units[p] > 0
        /\ LiveOn(p) # {}

(* A block lives on a page of the allocator's or on pages of its own, never *)
(* on a page given back; PageSlab, which kfree reads without the lock,      *)
(* always tells which.                                                      *)
Routable ==
    \A b \in live :
        /\ slab[b.page] <=> ~ IsLarge(b)
        /\ owner[b.page] = IF IsLarge(b) THEN "large" ELSE "slob"

(* Small, medium and large requests never share a page: whichever block is  *)
(* freed first, a page that was full returns to the list it came from.      *)
OneClass(p) ==
    \A b \in LiveOn(p) :
        /\ list[p] \in {"none", ListFor(b.size)}
        /\ \A c \in LiveOn(p) : ListFor(b.size) = ListFor(c.size)
OneClassPerPage == \A p \in Pages : Settled(p) => OneClass(p)

(* Each page, seen through the allocator and all its threads, keeps what     *)
(* PageHeap promises and SlobPage implements: its blocks change only as one  *)
(* is carved for a thread's request, at the first place that fits, or given  *)
(* back whole; and a thread leaves the lists empty-handed only if none of    *)
(* their pages counts enough units or one with the fewest has no room.  So   *)
(* what the allocator believes free never departs, in any interleaving, from *)
(* what the owners have left.                                                *)
BlocksOn(p) == {[at |-> b.at, len |-> UnitsFor(b.size)] :
                  b \in {c \in LiveOn(p) : ~ IsLarge(c)}}
Page(p) == INSTANCE PageBlocks WITH live <- BlocksOn(p)

Asked(t) == [units |-> UnitsFor(req[t].size), align |-> AlignUnits(req[t].align)]
Given(t, p, s) == /\ blk[t] = NoBlock /\ blk'[t] \in LiveOn(p)' \ live
                  /\ blk'[t].at = s /\ Page(p)!Carve(Asked(t), s)
EmptyHanded(t) == pc[t] = "search" /\ pc'[t] # "search" /\ blk'[t] = NoBlock

PagePromise(p) ==
    \/ UNCHANGED BlocksOn(p)
    \/ \E t \in Threads, s \in Offsets : Given(t, p, s)
    \/ \E b \in BlocksOn(p) : Page(p)!GiveBack(b)
Turned(t) ==
    LET tight == Tightest(ListFor(req[t].size), UnitsFor(req[t].size))
    IN tight = {} \/ \E p \in tight : Page(p)!NoRoom(Asked(t))

PagesKeepPromise ==
    [][/\ \A p \in Pages : PagePromise(p)
       /\ \A t \in Threads : EmptyHanded(t) => Turned(t)]_vars

(* Every call returns: no thread is left spinning or holding the lock. *)
CallsReturn == \A t \in Threads : (pc[t] # "idle") ~> (pc[t] = "idle")

(* The allocator implements the abstract heap, a block being its units. *)
AbstractHeap == INSTANCE Heap WITH
    Units <- Pages \X Offsets,
    owned <- {{b.page} \X Body(b) : b \in live}
HeapSpec == AbstractHeap!Spec

-----------------------------------------------------------------------------
(* What the text beside the code says of it.                                *)

(* "Not enough space: must allocate a new page": a new page is asked for    *)
(* only when no page of the request's list has room.                        *)
GrowsOnlyWithoutRoom ==
    \A t \in Threads : pc[t] = "load" /\ class[t] = "small" /\ blk[t] = NoBlock =>
        \A p \in Pages : list[p] = ListFor(req[t].size) =>
            NoFit(free[p], UnitsFor(req[t].size), AlignUnits(req[t].align))

(* "used = page size * number of pages": between calls page_count_slob is   *)
(* the number of pages the allocator has.                                   *)
PageCountExact ==
    (\A t \in Threads : pc[t] = "idle") =>
        page_count = Cardinality({p \in Pages : owner[p] = "slob"}) % CounterRange
=============================================================================
