------------------------------ MODULE SlobPage ------------------------------
(* One page of the SLOB allocator (hw4/slob.c) down to the words its free   *)
(* list is encoded in: slob_page_alloc and the page's part of slob_free,    *)
(* one action per loop iteration.  slob_lock is held from the first step of *)
(* an operation to its last, so the operations on a page never interleave.  *)
(* Pointers are unit offsets from the page's base; offset PageUnits is the  *)
(* base of the next page, which is how the code marks the end of the list.  *)
EXTENDS Fit, FiniteSets

CONSTANTS PageUnits,   \* SLOB_UNITS(PAGE_SIZE)
          Requests,    \* [units, align] pairs reaching slob_page_alloc
          UserWords    \* what the owner of a block may leave in its words

ASSUME PageUnitsAssumption == PageUnits \in Nat /\ PageUnits >= 2
ASSUME RequestsAssumption ==
    \A r \in Requests : /\ r.units \in 1 .. PageUnits
                        /\ r.align \in 1 .. PageUnits
ASSUME UserWordsAssumption == UserWords \subseteq Int

NULL == -1
Offsets == 0 .. PageUnits - 1

VARIABLES mem,        \* the slob_t words of the page
          freelist,   \* sp->freelist
          units,      \* sp->units
          listed,     \* PG_slob_free: sp is on a partial list
          pc,         \* "unused": with the page allocator; else the loop run
          prev, cur,  \* the cursors of the loop
          arg,        \* the request or the block the operation works on
          live,       \* blocks handed out and not yet free (ghost)
          reply       \* what slob_page_alloc returned, until a block is freed (ghost)

cursors == <<prev, cur>>
vars == <<mem, freelist, units, listed, pc, prev, cur, arg, live, reply>>

Blocks == [at : Offsets, len : 1 .. PageUnits]
NoRequest == [units |-> 0, align |-> 1]
NoReply == [req |-> NoRequest, at |-> NULL]

FreeIn(L) == Offsets \ UNION {Extent(b.at, b.len) : b \in L}

-----------------------------------------------------------------------------
(* The encoding of a free block in its first one or two words. *)

SetSlob(m, s, size, next) ==
    IF size > 1 THEN [m EXCEPT ![s] = size, ![s + 1] = next]
                ELSE [m EXCEPT ![s] = -next]

SlobUnits(m, s) == IF m[s] > 0 THEN m[s] ELSE 1

SlobNext(m, s) == IF m[s] < 0 THEN -m[s] ELSE m[s + 1]

SlobLast(m, s) == SlobNext(m, s) % PageUnits = 0

(* ALIGN(cur, align); a page's base is aligned to any align below its size. *)
AlignUp(s, a) == ((s + a - 1) \div a) * a

-----------------------------------------------------------------------------
Init ==
    /\ mem \in {[i \in Offsets |-> w] : w \in UserWords}
    /\ freelist = 0 /\ units = 0 /\ listed = FALSE
    /\ pc = "unused"
    /\ prev = NULL /\ cur = NULL /\ arg = NoRequest
    /\ live = {} /\ reply = NoReply

(* slob_alloc took a fresh page: one free block, then slob_page_alloc. *)
NewPage(r) ==
    /\ pc = "unused"
    /\ units' = PageUnits /\ freelist' = 0 /\ listed' = TRUE
    /\ mem' = SetSlob(mem, 0, PageUnits, PageUnits)
    /\ pc' = "search" /\ arg' = r /\ prev' = NULL /\ cur' = 0
    /\ UNCHANGED <<live, reply>>

(* slob_alloc chose this page of the partial list: it counts enough units. *)
PageAlloc(r) ==
    /\ pc = "idle" /\ listed
    /\ units >= r.units
    /\ pc' = "search" /\ arg' = r /\ prev' = NULL /\ cur' = freelist
    /\ UNCHANGED <<mem, freelist, units, listed, live, reply>>

Delta == AlignUp(cur, arg.align) - cur

(* Fault: an exact fit is refused. *)
RoomEnough_Strict == SlobUnits(mem, cur) > arg.units + Delta
RoomEnough == SlobUnits(mem, cur) >= arg.units + Delta

(* Faults: a page that became full stays on its list, its count is kept. *)
Spend_KeepsCount(n) == UNCHANGED units /\ listed' = (units' # 0)
Spend_KeepsListed(n) == units' = units - n /\ UNCHANGED listed
Spend(n) == units' = units - n /\ listed' = (units' # 0)

(* The words after the head of cur was split off to align the block. *)
SplitHead ==
    IF Delta = 0 THEN mem
    ELSE SetSlob(SetSlob(mem, cur + Delta, SlobUnits(mem, cur) - Delta,
                         SlobNext(mem, cur)),
                 cur, Delta, cur + Delta)

Take == /\ pc = "search" /\ RoomEnough
        /\ LET n    == arg.units
               c    == cur + Delta
               p    == IF Delta = 0 THEN prev ELSE cur
               m1   == SplitHead
               next == SlobNext(m1, c)
               exact == SlobUnits(m1, c) = n
               rest == IF exact THEN next ELSE c + n
               m2   == IF p = NULL THEN m1
                       ELSE SetSlob(m1, p, SlobUnits(m1, p), rest)
               m3   == IF exact THEN m2
                       ELSE SetSlob(m2, c + n, SlobUnits(m1, c) - n, next)
           IN /\ freelist' = IF p = NULL THEN rest ELSE freelist
              /\ \E w \in UserWords :
                   mem' = [i \in Offsets |->
                             IF i \in Extent(c, n) THEN w ELSE m3[i]]
              /\ live' = live \cup {[at |-> c, len |-> n]}
              /\ reply' = [req |-> arg, at |-> c]
        /\ Spend(arg.units)
        /\ pc' = "idle" /\ prev' = NULL /\ cur' = NULL /\ arg' = NoRequest

NotFound ==
    /\ pc = "search" /\ ~ RoomEnough
    /\ SlobLast(mem, cur)
    /\ reply' = [req |-> arg, at |-> NULL]
    /\ pc' = "idle" /\ prev' = NULL /\ cur' = NULL /\ arg' = NoRequest
    /\ UNCHANGED <<mem, freelist, units, listed, live>>

(* Fault: the walk starts over instead of going on. *)
SearchOn_FromHead ==
    /\ pc = "search" /\ ~ RoomEnough
    /\ ~ SlobLast(mem, cur)
    /\ prev' = cur /\ cur' = freelist
    /\ UNCHANGED <<mem, freelist, units, listed, pc, arg, live, reply>>
SearchOn ==
    /\ pc = "search" /\ ~ RoomEnough
    /\ ~ SlobLast(mem, cur)
    /\ prev' = cur /\ cur' = SlobNext(mem, cur)
    /\ UNCHANGED <<mem, freelist, units, listed, pc, arg, live, reply>>

-----------------------------------------------------------------------------
(* slob_free of a block: four ways, the last of them a loop. *)

FreeWhole(b) ==
    /\ pc = "idle"
    /\ units + b.len = PageUnits
    /\ listed' = FALSE /\ pc' = "unused"
    /\ live' = live \ {b} /\ reply' = NoReply
    /\ UNCHANGED <<mem, freelist, units, prev, cur, arg>>

FreeOnFull(b) ==
    /\ pc = "idle"
    /\ units + b.len # PageUnits
    /\ ~ listed
    /\ units' = b.len /\ freelist' = b.at /\ listed' = TRUE
    /\ mem' = SetSlob(mem, b.at, b.len,
                      ((b.at + PageUnits) \div PageUnits) * PageUnits)
    /\ live' = live \ {b} /\ reply' = NoReply
    /\ UNCHANGED <<pc, prev, cur, arg>>

FreeBefore(b) ==
    /\ pc = "idle"
    /\ units + b.len # PageUnits
    /\ listed
    /\ b.at < freelist
    /\ units' = units + b.len
    /\ LET joins == b.at + b.len = freelist
           next  == IF joins THEN SlobNext(mem, freelist) ELSE freelist
           len   == IF joins THEN b.len + SlobUnits(mem, freelist) ELSE b.len
       IN mem' = SetSlob(mem, b.at, len, next)
    /\ freelist' = b.at
    /\ live' = live \ {b} /\ reply' = NoReply
    /\ UNCHANGED <<listed, pc, prev, cur, arg>>

FreeAfter(b) ==
    /\ pc = "idle"
    /\ units + b.len # PageUnits
    /\ listed
    /\ b.at >= freelist
    /\ units' = units + b.len
    /\ pc' = "reinsert" /\ arg' = b
    /\ prev' = freelist /\ cur' = SlobNext(mem, freelist)
    /\ UNCHANGED <<mem, freelist, listed, live, reply>>

ReinsertOn ==
    /\ pc = "reinsert"
    /\ arg.at > cur
    /\ prev' = cur /\ cur' = SlobNext(mem, cur)
    /\ UNCHANGED <<mem, freelist, units, listed, pc, arg, live, reply>>

(* The block joins the free block after it, then the one before it. *)
JoinNext ==
    IF ~ SlobLast(mem, prev) /\ arg.at + arg.len = cur
    THEN SetSlob(mem, arg.at, arg.len + SlobUnits(mem, cur), SlobNext(mem, cur))
    ELSE SetSlob(mem, arg.at, arg.len, cur)

(* Fault: the block before is relinked but never joined. *)
JoinPrev_LinkOnly(m) == SetSlob(m, prev, SlobUnits(m, prev), arg.at)
JoinPrev(m) ==
    IF prev + SlobUnits(m, prev) = arg.at
    THEN SetSlob(m, prev, SlobUnits(m, arg.at) + SlobUnits(m, prev),
                 SlobNext(m, arg.at))
    ELSE SetSlob(m, prev, SlobUnits(m, prev), arg.at)

Reinsert ==
    /\ pc = "reinsert"
    /\ arg.at <= cur
    /\ mem' = JoinPrev(JoinNext)
    /\ live' = live \ {arg} /\ reply' = NoReply
    /\ pc' = "idle" /\ prev' = NULL /\ cur' = NULL /\ arg' = NoRequest
    /\ UNCHANGED <<freelist, units, listed>>

-----------------------------------------------------------------------------
Search == Take \/ NotFound \/ SearchOn

SlobFree(b) == \/ FreeWhole(b) \/ FreeOnFull(b)
               \/ FreeBefore(b) \/ FreeAfter(b)

Next ==
    \/ \E r \in Requests : NewPage(r) \/ PageAlloc(r)
    \/ Search
    \/ \E b \in live : SlobFree(b)
    \/ ReinsertOn \/ Reinsert

(* Code under the spinlock runs on: the loops are fair, the callers are not. *)
Fairness == WF_vars(Search) /\ WF_vars(ReinsertOn \/ Reinsert)

Spec == Init /\ [][Next]_vars /\ Fairness

-----------------------------------------------------------------------------
TypeOK ==
    /\ mem \in [Offsets -> Int]
    /\ freelist \in 0 .. PageUnits
    /\ units \in 0 .. PageUnits
    /\ listed \in BOOLEAN
    /\ pc \in {"unused", "idle", "search", "reinsert"}
    /\ prev \in Offsets \cup {NULL}
    /\ cur \in 0 .. PageUnits \cup {NULL}
    /\ live \subseteq Blocks
    /\ reply \in [req : Requests \cup {NoRequest}, at : Offsets \cup {NULL}]

InUse == pc # "unused"
FreeNow == FreeIn(live)
RunStarts(F) == {s \in F : s - 1 \notin F}

(* In use, the words reached from freelist describe exactly the maximal     *)
(* runs of free units, in address order: no free unit is lost, none that    *)
(* belongs to a caller is listed and two neighbours are always joined.  It  *)
(* is stated at each run's head, so a link that skips or repeats one shows. *)
FreeListExact == InUse /\ FreeNow # {} =>
    LET heads == RunStarts(FreeNow)
        First(s, H) == s \in H /\ \A h \in H : s <= h
    IN /\ First(freelist, heads)
       /\ \A s \in heads :
            /\ Extent(s, SlobUnits(mem, s)) \subseteq FreeNow
            /\ s + SlobUnits(mem, s) \notin FreeNow
            /\ First(SlobNext(mem, s), {h \in heads : h > s} \cup {PageUnits})

(* sp->units counts the free units of the page, and the page is on a        *)
(* partial list exactly when it has one; a free under way counts its own.   *)
UnitsExact == InUse =>
    /\ units = Cardinality(FreeNow) + (IF pc = "reinsert" THEN arg.len ELSE 0)
    /\ listed <=> units > 0

(* The loops of slob_page_alloc and slob_free, run with interrupts off and  *)
(* slob_lock held, always end.                                              *)
LoopsEnd == (pc \in {"search", "reinsert"}) ~> (pc \in {"idle", "unused"})

(* A page implements the first-fit heap over its units. *)
Heap == INSTANCE PageHeap
HeapSpec == Heap!Spec
=============================================================================
