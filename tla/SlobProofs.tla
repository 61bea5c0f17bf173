----------------------------- MODULE SlobProofs -----------------------------
(* What holds of Slob for every number of threads and pages, every page     *)
(* size and every mix of requests: an inductive invariant, and from it the  *)
(* properties the runs check on small instances.                            *)
EXTENDS Slob, FiniteSetTheorems, TLAPS

-----------------------------------------------------------------------------
(* Counting units. *)

(* A request of at least a byte takes at least a unit. *)
LEMMA UnitsForType ==
    ASSUME NEW n \in Nat \ {0}
    PROVE  UnitsFor(n) \in Nat \ {0}
BY DEF UnitsFor, SlobUnit

(* Sizes are positive. *)
LEMMA SizesType == Sizes \subseteq Nat \ {0}
<1>1. \A n \in KmallocSizes : n \in Nat \ {0} /\ n + MinAlign \in Nat \ {0}
  BY SizesAssumption
<1>2. \A c \in Caches : c.size \in Nat \ {0} /\ c.size + RcuFooter \in Nat \ {0}
  BY SizesAssumption
<1> QED
  BY <1>1, <1>2 DEF Sizes

LEMMA SizeUnits ==
    ASSUME NEW n \in Sizes
    PROVE  UnitsFor(n) \in Nat \ {0}
BY SizesType, UnitsForType

(* An extent has as many units as its length. *)
LEMMA ExtentCardinality ==
    ASSUME NEW s \in Int, NEW n \in Nat
    PROVE  IsFiniteSet(Extent(s, n)) /\ Cardinality(Extent(s, n)) = n
<1>1. s + n - 1 \in Int /\ (s > s + n - 1 <=> n = 0)
  OBVIOUS
<1> QED
  BY <1>1, FS_Interval DEF Extent

(* A page is a finite set of PageUnits units. *)
LEMMA OffsetsCardinality ==
    /\ IsFiniteSet(Offsets) /\ Cardinality(Offsets) = PageUnits
    /\ \A F \in SUBSET Offsets :
         /\ IsFiniteSet(F) /\ Cardinality(F) \in 0 .. PageUnits
         /\ Cardinality(F) = PageUnits => F = Offsets
<1>1. IsFiniteSet(Offsets) /\ Cardinality(Offsets) = PageUnits
  BY FS_Interval, PagesAssumption DEF Offsets
<1>2. ASSUME NEW F \in SUBSET Offsets
      PROVE  /\ IsFiniteSet(F) /\ Cardinality(F) \in 0 .. PageUnits
             /\ Cardinality(F) = PageUnits => F = Offsets
  BY <1>1, FS_Subset, FS_CardinalityType, PagesAssumption
<1> QED
  BY <1>1, <1>2

(* Taking an extent out of a set of free units takes as many as it has. *)
LEMMA CarveCardinality ==
    ASSUME NEW F \in SUBSET Offsets, NEW s \in Int, NEW n \in Nat,
           Extent(s, n) \subseteq F
    PROVE  Cardinality(F \ Extent(s, n)) = Cardinality(F) - n
<1>1. F \cap Extent(s, n) = Extent(s, n)
  OBVIOUS
<1>2. Cardinality(F \ Extent(s, n)) = Cardinality(F) - Cardinality(Extent(s, n))
  BY <1>1, OffsetsCardinality, FS_Difference
<1> QED
  BY <1>2, ExtentCardinality

(* Giving back an extent that was not free adds as many as it has. *)
LEMMA FreeCardinality ==
    ASSUME NEW F \in SUBSET Offsets, NEW s \in Int, NEW n \in Nat,
           Extent(s, n) \cap F = {}
    PROVE  Cardinality(F \cup Extent(s, n)) = Cardinality(F) + n
<1>1. F \cap Extent(s, n) = {}
  OBVIOUS
<1>2. IsFiniteSet(F) /\ Cardinality(F) \in Nat
  BY OffsetsCardinality
<1>3. Cardinality(F \cup Extent(s, n))
        = Cardinality(F) + Cardinality(Extent(s, n)) - Cardinality(F \cap Extent(s, n))
  BY <1>2, FS_Union, ExtentCardinality
<1>4. Cardinality(F \cap Extent(s, n)) = 0
  BY <1>1, FS_EmptySet
<1> QED
  BY <1>2, <1>3, <1>4, ExtentCardinality

(* The units of a list are finitely many. *)
LEMMA ListUnitsType ==
    ASSUME TypeOK, NEW l
    PROVE  ListUnits(l) \in Nat
<1>0. IsFiniteSet(1 .. PageUnits) /\ IsFiniteSet(Pages)
  BY FS_Interval, PagesAssumption
<1>1. IsFiniteSet(Pages \X (1 .. PageUnits))
  BY <1>0, FS_Product
<1>2. IsFiniteSet({x \in Pages \X (1 .. PageUnits) :
                     list[x[1]] = l /\ x[2] <= units[x[1]]})
  BY <1>1, FS_Subset
<1> QED
  BY <1>2, FS_CardinalityType DEF ListUnits

-----------------------------------------------------------------------------
(* The inductive invariant. *)

(* Every live block lies within its page, is not empty, and shares no unit  *)
(* with another.                                                            *)
Disjoint ==
    /\ \A b \in live : Body(b) \subseteq Offsets /\ Body(b) # {}
    /\ \A b, c \in live : b.page = c.page /\ b # c => Body(b) \cap Body(c) = {}

(* PagesExact, unit by unit. *)
Exact(p) ==
    /\ \A u \in Offsets : u \in free[p] <=> \A b \in LiveOn(p) : u \notin Body(b)
    /\ units[p] = Cardinality(free[p])
    /\ list[p] # "none" <=> units[p] > 0
    /\ LiveOn(p) # {}
AllExact == \A p \in Pages : Settled(p) => Exact(p)

(* Only settled pages are on a list. *)
Listed == \A p \in Pages : list[p] # "none" => Settled(p)

(* PageSlab is set on the pages of the allocator and on no other. *)
SlabPages == \A p \in Pages : slab[p] <=> owner[p] = "slob"

(* A page being set up or given back has one thread at it and no block. *)
Transit ==
    \A t \in Threads : pc[t] \in {"carve", "release"} =>
        /\ page[t] \in Pages
        /\ owner[page[t]] = "slob" /\ slab[page[t]]
        /\ LiveOn(page[t]) = {}
        /\ \A u \in Threads : pc[u] \in {"carve", "release"} /\ page[u] = page[t]
                              => u = t

(* A thread's block is live, nobody else's and not waiting for RCU; what    *)
(* waits for RCU is a cache object.                                         *)
Handled ==
    /\ \A b \in rcu : b.from = "rcuobject"
    /\ \A t \in Threads :
           /\ pc[t] \in {"idle", "search", "grow", "carve"} => blk[t] = NoBlock
           /\ pc[t] = "free" => blk[t] # NoBlock /\ ~ IsLarge(blk[t])
           /\ blk[t] # NoBlock =>
                /\ blk[t] \in live /\ blk[t] \notin rcu
                /\ \A u \in Threads : blk[u] = blk[t] => u = t

(* A request on its way through slob_alloc is smaller than a page. *)
Requested ==
    \A t \in Threads : pc[t] \in {"search", "load", "store", "grow", "carve"} =>
        /\ req[t].size \in Sizes /\ req[t].size < PageSize
        /\ req[t].from \in Froms /\ req[t].from # "pages"

IInv == /\ TypeOK /\ Disjoint /\ AllExact /\ Listed /\ Transit /\ Handled
        /\ Requested /\ Routable /\ OneClassPerPage /\ SlabPages

-----------------------------------------------------------------------------
(* Steps that leave the pages and the blocks alone. *)

LEMMA InitIInv == Init => IInv
BY NoneAssumption, PagesAssumption, SizesAssumption
   DEF Init, IInv, TypeOK, Disjoint, AllExact, Listed, Transit, Handled,
       Requested, Routable, OneClassPerPage, OneClass, SlabPages, Settled, Lists, Labels, NoRequest,
       NoBlock

AtPage == {"carve", "release"}

LEMMA PagesFrame ==
    ASSUME IInv, UNCHANGED <<pages, live>>,
           \A t \in Threads : pc'[t] \in AtPage <=> pc[t] \in AtPage,
           \A t \in Threads : pc[t] \in AtPage => page'[t] = page[t]
    PROVE  (Disjoint /\ AllExact /\ Listed /\ Transit /\ Routable /\ OneClassPerPage /\ SlabPages)'
<1>0. UNCHANGED <<owner, slab, free, units, list, live>>
  BY DEF pages
<1>1. \A p \in Pages : Settled(p)' <=> Settled(p)
  BY <1>0 DEF Settled, AtPage
<1>2. ASSUME NEW p PROVE LiveOn(p)' = LiveOn(p)
  BY <1>0 DEF LiveOn
<1>3. Disjoint' /\ Routable' /\ SlabPages'
  BY <1>0 DEF IInv, Disjoint, Routable, SlabPages, Body, IsLarge
<1>4. AllExact' /\ Listed' /\ OneClassPerPage'
  BY <1>0, <1>1, <1>2 DEF IInv, AllExact, Exact, Listed, OneClassPerPage, OneClass, Body, IsLarge
<1>5. Transit'
  BY <1>0 DEF IInv, Transit, AtPage, LiveOn
<1> QED
  BY <1>3, <1>4, <1>5

LEMMA StartAllocInv ==
    ASSUME IInv, NEW t \in Threads, pc[t] = "idle",
           NEW size \in Sizes, size < PageSize, NEW align \in Nat,
           NEW from \in Froms \ {"pages"},
           StartAlloc(t, size, align, from)
    PROVE  IInv'
<1>1. TypeOK'
  BY SizesAssumption DEF IInv, TypeOK, StartAlloc, pages, Labels
<1>2. (Disjoint /\ AllExact /\ Listed /\ Transit /\ Routable /\ OneClassPerPage /\ SlabPages)'
  BY PagesFrame DEF StartAlloc, AtPage, IInv, TypeOK
<1>3. Handled' /\ Requested'
  BY DEF IInv, TypeOK, Handled, Requested, StartAlloc, IsLarge, pages
<1> QED
  BY <1>1, <1>2, <1>3 DEF IInv

LEMMA StartFreeInv ==
    ASSUME IInv, NEW t \in Threads, pc[t] = "idle",
           NEW b \in live, \A u \in Threads : blk[u] # b, ~ IsLarge(b),
           rcu' \subseteq rcu, b \notin rcu',
           StartFree(t, b)
    PROVE  IInv'
<1>1. TypeOK'
  BY DEF IInv, TypeOK, StartFree, pages, Labels, stats
<1>2. (Disjoint /\ AllExact /\ Listed /\ Transit /\ Routable /\ OneClassPerPage /\ SlabPages)'
  BY PagesFrame DEF StartFree, AtPage, IInv, TypeOK
<1>3. b # NoBlock
  BY NoneAssumption DEF IInv, TypeOK, Blocks, NoBlock
<1>4. Handled' /\ Requested'
  BY <1>3 DEF IInv, TypeOK, Handled, Requested, StartFree, IsLarge, pages
<1> QED
  BY <1>1, <1>2, <1>4 DEF IInv

LEMMA RcuDeferInv ==
    ASSUME IInv, NEW b \in Held, b.from = "rcuobject", rcu' = rcu \cup {b},
           UNCHANGED <<pages, live, lock, stats, pc, locals>>
    PROVE  IInv'
<1>1. TypeOK'
  BY DEF IInv, TypeOK, pages, stats, locals, Held
<1>2. (Disjoint /\ AllExact /\ Listed /\ Transit /\ Routable /\ OneClassPerPage /\ SlabPages)'
  BY PagesFrame DEF locals
<1>3. Handled' /\ Requested'
  BY DEF IInv, Handled, Requested, Held, locals, IsLarge
<1> QED
  BY <1>1, <1>2, <1>3 DEF IInv

LEMMA SearchMissInv ==
    ASSUME IInv, NEW t \in Threads, SearchMiss(t)
    PROVE  IInv'
<1>1. TypeOK'
  BY DEF IInv, TypeOK, SearchMiss, Locked, pages, stats, Labels, Lists
<1>2. (Disjoint /\ AllExact /\ Listed /\ Transit /\ Routable /\ OneClassPerPage /\ SlabPages)'
  BY PagesFrame DEF SearchMiss, AtPage, IInv, TypeOK
<1>3. Handled' /\ Requested'
  BY DEF IInv, TypeOK, Handled, Requested, SearchMiss, IsLarge
<1> QED
  BY <1>1, <1>2, <1>3 DEF IInv

LEMMA CountLoadInv ==
    ASSUME IInv, NEW t \in Threads, CountLoad(t)
    PROVE  IInv'
<1>1. TypeOK'
  BY DEF IInv, TypeOK, CountLoad, pages, stats, Labels
<1>2. (Disjoint /\ AllExact /\ Listed /\ Transit /\ Routable /\ OneClassPerPage /\ SlabPages)'
  BY PagesFrame DEF CountLoad, AtPage, IInv, TypeOK
<1>3. Handled' /\ Requested'
  BY DEF IInv, TypeOK, Handled, Requested, CountLoad, IsLarge
<1> QED
  BY <1>1, <1>2, <1>3 DEF IInv

LEMMA CounterType ==
    ASSUME NEW n \in Nat
    PROVE  n % CounterRange \in 0 .. CounterRange - 1
BY SizesAssumption

LEMMA ListSumType ==
    ASSUME IInv, NEW t \in Threads, NEW l
    PROVE  (reg[t] + ListUnits(l)) % CounterRange \in 0 .. CounterRange - 1
<1>1. reg[t] + ListUnits(l) \in Nat
  BY ListUnitsType DEF IInv, TypeOK
<1> QED
  BY <1>1, CounterType

LEMMA CountStoreInv ==
    ASSUME IInv, NEW t \in Threads, CountStore(t)
    PROVE  IInv'
<1>0. free_units' \in 0 .. CounterRange - 1
  BY ListSumType DEF CountStore
<1>1. TypeOK'
  BY <1>0 DEF IInv, TypeOK, CountStore, pages, Labels, Lists
<1>2. (Disjoint /\ AllExact /\ Listed /\ Transit /\ Routable /\ OneClassPerPage /\ SlabPages)'
  BY PagesFrame DEF CountStore, AtPage, IInv, TypeOK
<1>3. Handled' /\ Requested'
  BY DEF IInv, TypeOK, Handled, Requested, CountStore, IsLarge
<1> QED
  BY <1>1, <1>2, <1>3 DEF IInv

(* A thread that returns holds nothing any more. *)
LEMMA ReturnType ==
    ASSUME TypeOK, NEW t \in Threads, Return(t)
    PROVE  /\ pc' \in [Threads -> Labels]
           /\ req' \in [Threads -> [size : Sizes, align : Nat, from : Froms]
                                   \cup {NoRequest}]
           /\ blk' \in [Threads -> Blocks \cup {NoBlock}]
           /\ page' \in [Threads -> Pages \cup {NoPage}]
           /\ reg' \in [Threads -> 0 .. CounterRange - 1]
           /\ class' \in [Threads -> Lists]
BY SizesAssumption DEF TypeOK, Return, Labels, Lists

LEMMA ReturnFrame ==
    ASSUME IInv, NEW t \in Threads, Return(t), UNCHANGED <<live, rcu>>
    PROVE  Handled' /\ Requested'
BY DEF IInv, TypeOK, Handled, Requested, Return, IsLarge

LEMMA CountLastInv ==
    ASSUME IInv, NEW t \in Threads, CountLast(t)
    PROVE  IInv'
<1>0. free_units' \in 0 .. CounterRange - 1
  BY ListSumType DEF CountLast
<1>1. CASE blk[t] # NoBlock
  <2>1. Return(t) /\ UNCHANGED <<pages, live, rcu, page_count>> /\ lock' = NoThread
    BY <1>1 DEF CountLast, Unlock
  <2>2. TypeOK'
    BY <1>0, <2>1, ReturnType DEF IInv, TypeOK, pages
  <2>3. (Disjoint /\ AllExact /\ Listed /\ Transit /\ Routable /\ OneClassPerPage /\ SlabPages)'
    BY <2>1, PagesFrame DEF CountLast, Return, AtPage, IInv, TypeOK
  <2> QED
    BY <2>1, <2>2, <2>3, ReturnFrame DEF IInv
<1>2. CASE blk[t] = NoBlock
  <2>1. /\ pc' = [pc EXCEPT ![t] = "grow"]
        /\ reg' = [reg EXCEPT ![t] = 0]
        /\ class' = [class EXCEPT ![t] = "none"]
        /\ UNCHANGED <<pages, live, rcu, page_count, req, blk, page>>
        /\ lock' = NoThread
    BY <1>2 DEF CountLast, Unlock
  <2>2. TypeOK'
    BY <1>0, <2>1, SizesAssumption DEF IInv, TypeOK, pages, Labels, Lists
  <2>3. (Disjoint /\ AllExact /\ Listed /\ Transit /\ Routable /\ OneClassPerPage /\ SlabPages)'
    BY <2>1, PagesFrame DEF CountLast, AtPage, IInv, TypeOK
  <2>4. Handled' /\ Requested'
    BY <1>2, <2>1 DEF CountLast, IInv, TypeOK, Handled, Requested, IsLarge
  <2> QED
    BY <2>2, <2>3, <2>4 DEF IInv
<1> QED
  BY <1>1, <1>2

LEMMA GrowFailInv ==
    ASSUME IInv, NEW t \in Threads, GrowFail(t)
    PROVE  IInv'
<1>1. TypeOK'
  BY ReturnType DEF GrowFail, IInv, TypeOK, pages, stats
<1>2. (Disjoint /\ AllExact /\ Listed /\ Transit /\ Routable /\ OneClassPerPage /\ SlabPages)'
  BY PagesFrame DEF GrowFail, Return, AtPage, IInv, TypeOK
<1> QED
  BY <1>1, <1>2, ReturnFrame DEF IInv, GrowFail

LEMMA CountPageLoadInv ==
    ASSUME IInv, NEW t \in Threads, CountPageLoad(t)
    PROVE  IInv'
<1>1. TypeOK'
  BY DEF IInv, TypeOK, CountPageLoad, pages, stats, Labels
<1>2. (Disjoint /\ AllExact /\ Listed /\ Transit /\ Routable /\ OneClassPerPage /\ SlabPages)'
  BY PagesFrame DEF CountPageLoad, AtPage, IInv, TypeOK
<1>3. Handled' /\ Requested'
  BY DEF IInv, TypeOK, Handled, Requested, CountPageLoad, IsLarge
<1> QED
  BY <1>1, <1>2, <1>3 DEF IInv

LEMMA CountPageStoreInv ==
    ASSUME IInv, NEW t \in Threads, CountPageStore(t)
    PROVE  IInv'
<1>0. page_count' \in 0 .. CounterRange - 1
  <2>1. reg[t] + 1 \in Nat /\ reg[t] + CounterRange - 1 \in Nat
    BY SizesAssumption DEF IInv, TypeOK
  <2> QED
    BY <2>1, CounterType DEF CountPageStore
<1>1. TypeOK'
  BY <1>0, ReturnType DEF CountPageStore, IInv, TypeOK, pages
<1>2. (Disjoint /\ AllExact /\ Listed /\ Transit /\ Routable /\ OneClassPerPage /\ SlabPages)'
  BY PagesFrame DEF CountPageStore, Return, AtPage, IInv, TypeOK
<1> QED
  BY <1>1, <1>2, ReturnFrame DEF IInv, CountPageStore

-----------------------------------------------------------------------------
(* Steps that change one page and the blocks on it. *)

(* What a page's own part of the invariant says of it. *)
PageFine(p) ==
    /\ Settled(p) => Exact(p) /\ OneClass(p)
    /\ list[p] # "none" => Settled(p)

LEMMA OtherPages ==
    ASSUME IInv, NEW q \in Pages,
           owner'[q] = owner[q], slab'[q] = slab[q], free'[q] = free[q],
           units'[q] = units[q], list'[q] = list[q],
           LiveOn(q)' = LiveOn(q),
           \A t \in Threads : pc'[t] \in AtPage /\ page'[t] = q
                              <=> pc[t] \in AtPage /\ page[t] = q
    PROVE  PageFine(q)'
<1>1. Settled(q)' <=> Settled(q)
  BY DEF Settled, AtPage
<1>2. PageFine(q)
  BY DEF IInv, AllExact, OneClassPerPage, Listed, PageFine
<1>3. (Exact(q) => Exact(q)') /\ (OneClass(q) => OneClass(q)')
  BY DEF Exact, OneClass, Body, IsLarge
<1> QED
  BY <1>1, <1>2, <1>3 DEF PageFine

LEMMA AllFine ==
    ASSUME \A p \in Pages : PageFine(p)'
    PROVE  (AllExact /\ Listed /\ OneClassPerPage)'
BY DEF AllExact, Listed, OneClassPerPage, PageFine

(* A block gone leaves the others disjoint. *)
LEMMA FewerDisjoint ==
    ASSUME IInv, live' \subseteq live
    PROVE  Disjoint'
BY DEF IInv, Disjoint, Body, IsLarge

(* A block added on units no live block has. *)
LEMMA OneMoreDisjoint ==
    ASSUME IInv, NEW b, live' = live \cup {b},
           Body(b) \subseteq Offsets, Body(b) # {},
           \A c \in live : c.page = b.page => Body(c) \cap Body(b) = {}
    PROVE  Disjoint'
<1>1. \A c \in live' : Body(c) \subseteq Offsets /\ Body(c) # {}
  BY DEF IInv, Disjoint
<1>2. ASSUME NEW c \in live', NEW d \in live', c.page = d.page, c # d
      PROVE  Body(c) \cap Body(d) = {}
  <2>1. CASE c \in live /\ d \in live
    BY <1>2, <2>1 DEF IInv, Disjoint
  <2>2. CASE c = b /\ d \in live
    BY <1>2, <2>2
  <2>3. CASE c \in live /\ d = b
    BY <1>2, <2>3
  <2> QED
    BY <1>2, <2>1, <2>2, <2>3
<1> QED
  BY <1>1, <1>2 DEF Disjoint, Body, IsLarge

(* A page with the page allocator has no live block. *)
LEMMA BuddyEmpty ==
    ASSUME IInv, NEW p \in Pages, owner[p] = "buddy"
    PROVE  LiveOn(p) = {}
BY DEF IInv, Routable, LiveOn

LEMMA LargeBody ==
    ASSUME NEW b, IsLarge(b), b.at = 0
    PROVE  Body(b) = Offsets
<1>1. 0 + PageUnits - 1 = PageUnits - 1
  BY PagesAssumption
<1> QED
  BY <1>1 DEF Body, Extent, Offsets

LEMMA AllocPagesInv ==
    ASSUME IInv, NEW size \in Sizes, NEW from \in Froms,
           from = "pages" \/ size >= PageSize,
           AllocPages(size, from)
    PROVE  IInv'
<1> PICK p \in Pages :
      /\ owner[p] = "buddy"
      /\ owner' = [owner EXCEPT ![p] = "large"]
      /\ live' = live \cup {[page |-> p, at |-> 0, size |-> size, from |-> from]}
  BY DEF AllocPages
<1> DEFINE b == [page |-> p, at |-> 0, size |-> size, from |-> from]
<1>1. /\ UNCHANGED <<slab, free, units, list, rcu, lock, page_count, free_units>>
      /\ UNCHANGED <<pc, req, blk, page, reg, class>>
  BY DEF AllocPages, stats, locals
<1>2. IsLarge(b) /\ b \in Blocks
  BY PagesAssumption DEF IsLarge, Blocks, Offsets
<1>3. Body(b) = Offsets /\ Offsets # {}
  <2>1. Body(b) = Offsets
    BY <1>2, LargeBody
  <2>2. 0 \in Offsets
    BY PagesAssumption DEF Offsets
  <2> QED
    BY <2>1, <2>2
<1>4. TypeOK'
  BY <1>1, <1>2 DEF IInv, TypeOK
<1>5. LiveOn(p) = {}
  BY BuddyEmpty
<1>6. Disjoint'
  BY <1>3, <1>5, OneMoreDisjoint DEF LiveOn
<1>7. \A q \in Pages \ {p} : PageFine(q)'
  <2> TAKE q \in Pages \ {p}
  <2>1. LiveOn(q)' = LiveOn(q)
    BY DEF LiveOn
  <2>2. owner'[q] = owner[q]
    BY DEF IInv, TypeOK
  <2> QED
    BY <1>1, <2>1, <2>2, OtherPages
<1>8. PageFine(p)'
  <2>1. ~ Settled(p) /\ ~ Settled(p)'
    BY DEF Settled, IInv, TypeOK
  <2>2. list'[p] = "none"
    BY <1>1, <2>1 DEF IInv, Listed
  <2> QED
    BY <2>1, <2>2 DEF PageFine
<1>9. Transit'
  <2>1. ASSUME NEW t \in Threads, pc[t] \in AtPage
        PROVE  page[t] # p /\ owner'[page[t]] = "slob" /\ LiveOn(page[t])' = {}
    BY <1>1, <1>5, <2>1 DEF IInv, TypeOK, Transit, LiveOn, AtPage
  <2> QED
    BY <1>1, <2>1 DEF IInv, Transit, AtPage, LiveOn
<1>10. Handled' /\ Requested'
  BY <1>1 DEF IInv, Handled, Requested, IsLarge
<1>11. Routable'
  <2>1. ASSUME NEW c \in live
        PROVE  /\ slab'[c.page] <=> ~ IsLarge(c)
               /\ owner'[c.page] = IF IsLarge(c) THEN "large" ELSE "slob"
    <3>1. c.page \in Pages \ {p}
      BY <1>5 DEF IInv, TypeOK, Blocks, LiveOn
    <3> QED
      BY <1>1, <3>1 DEF IInv, TypeOK, Routable
  <2>2. ~ slab[p]
    BY DEF IInv, SlabPages
  <2> QED
    BY <1>1, <1>2, <2>1, <2>2 DEF IInv, TypeOK, Routable, IsLarge
<1>12. SlabPages'
  BY <1>1 DEF IInv, TypeOK, SlabPages
<1> QED
  BY <1>4, <1>6, <1>7, <1>8, <1>9, <1>10, <1>11, <1>12, AllFine DEF IInv

LEMMA LargeAtZero ==
    ASSUME IInv, NEW b \in live, IsLarge(b)
    PROVE  Body(b) = Offsets
<1>1. b.at \in Offsets /\ Extent(b.at, PageUnits) \subseteq Offsets
  BY DEF IInv, TypeOK, Blocks, Disjoint, Body
<1>2. b.at + PageUnits - 1 \in Extent(b.at, PageUnits)
  BY <1>1, PagesAssumption DEF Extent, Offsets
<1>3. b.at = 0
  BY <1>1, <1>2, PagesAssumption DEF Offsets
<1> QED
  BY <1>3, LargeBody

LEMMA FreePagesInv ==
    ASSUME IInv, NEW b \in live, IsLarge(b), \A u \in Threads : blk[u] # b,
           rcu' \subseteq rcu, b \notin rcu',
           FreePages(b)
    PROVE  IInv'
<1> DEFINE p == b.page
<1>1. /\ UNCHANGED <<slab, free, units, list, lock, page_count, free_units>>
      /\ UNCHANGED <<pc, req, blk, page, reg, class>>
      /\ owner' = [owner EXCEPT ![p] = "buddy"] /\ live' = live \ {b}
  BY DEF FreePages, stats, locals
<1>2. p \in Pages /\ owner[p] = "large"
  BY DEF IInv, TypeOK, Blocks, Routable
<1>3. TypeOK'
  BY <1>1, <1>2 DEF IInv, TypeOK
<1>4. Disjoint'
  BY <1>1, FewerDisjoint
<1>5. \A c \in live' : c.page # p
  BY <1>1, LargeAtZero DEF IInv, Disjoint
<1>6. \A q \in Pages \ {p} : PageFine(q)'
  <2> TAKE q \in Pages \ {p}
  <2>1. LiveOn(q)' = LiveOn(q)
    BY <1>1 DEF LiveOn
  <2>2. owner'[q] = owner[q]
    BY <1>1 DEF IInv, TypeOK
  <2> QED
    BY <1>1, <2>1, <2>2, OtherPages
<1>7. PageFine(p)'
  <2>1. ~ Settled(p) /\ ~ Settled(p)'
    BY <1>1, <1>2 DEF Settled, IInv, TypeOK
  <2>2. list'[p] = "none"
    BY <1>1, <1>2, <2>1 DEF IInv, Listed
  <2> QED
    BY <2>1, <2>2 DEF PageFine
<1>8. Transit'
  <2>1. ASSUME NEW t \in Threads, pc[t] \in AtPage
        PROVE  page[t] # p /\ owner'[page[t]] = "slob" /\ LiveOn(page[t])' = {}
    BY <1>1, <1>2, <2>1 DEF IInv, TypeOK, Transit, LiveOn, AtPage
  <2> QED
    BY <1>1, <2>1 DEF IInv, Transit, AtPage, LiveOn
<1>9. Handled' /\ Requested'
  BY <1>1 DEF IInv, Handled, Requested, IsLarge
<1>10. Routable'
  BY <1>1, <1>5 DEF IInv, TypeOK, Blocks, Routable, IsLarge
<1>11. SlabPages'
  BY <1>1, <1>2 DEF IInv, TypeOK, SlabPages
<1> QED
  BY <1>2, <1>3, <1>4, <1>6, <1>7, <1>8, <1>9, <1>10, <1>11, AllFine DEF IInv

-----------------------------------------------------------------------------
(* slob_alloc takes a block, from a page of a list or from a new one. *)

LEMMA NewBlock ==
    ASSUME IInv, NEW t \in Threads, NEW p \in Pages, NEW s \in Offsets,
           req[t].size \in Sizes, req[t].size < PageSize,
           req[t].from \in Froms, req[t].from # "pages"
    PROVE  LET b == [page |-> p, at |-> s, size |-> req[t].size,
                     from |-> req[t].from]
           IN  /\ b \in Blocks /\ ~ IsLarge(b) /\ b # NoBlock
               /\ Body(b) = Extent(s, UnitsFor(b.size)) /\ s \in Body(b)
<1> DEFINE b == [page |-> p, at |-> s, size |-> req[t].size, from |-> req[t].from]
<1>1. b \in Blocks
  BY DEF Blocks
<1>2. b.size \in Nat /\ PageSize \in Nat
  <2>1. PageSize \in Nat
    BY PagesAssumption DEF PageSize, SlobUnit
  <2> QED
    BY <2>1, SizesType
<1>3. ~ IsLarge(b)
  BY <1>2 DEF IsLarge
<1>4. b # NoBlock
  BY NoneAssumption DEF NoBlock
<1>5. s \in Extent(s, UnitsFor(b.size))
  BY SizeUnits DEF Extent, Offsets
<1> QED
  BY <1>1, <1>3, <1>4, <1>5 DEF Body

LEMMA ListForType ==
    ASSUME NEW n
    PROVE  ListFor(n) \in Lists \ {"none"}
BY DEF ListFor, Lists

(* The page the block was carved from: exact again, one class still. *)
LEMMA CarvedPage ==
    ASSUME IInv, NEW t \in Threads, NEW p \in Pages, NEW s \in Offsets,
           NEW F \in SUBSET Offsets, NEW n, NEW l,
           req[t].size \in Sizes, req[t].size < PageSize,
           req[t].from \in Froms, req[t].from # "pages",
           l = ListFor(req[t].size),
           \A u \in Offsets : u \in F <=> \A b \in LiveOn(p) : u \notin Body(b),
           n = Cardinality(F),
           \A b \in LiveOn(p) : ListFor(b.size) = l,
           Extent(s, UnitsFor(req[t].size)) \subseteq F,
           CarveAt(t, p, s, F, n, l),
           Settled(p)'
    PROVE  /\ PageFine(p)' /\ units'[p] \in 0 .. PageUnits
           /\ free'[p] \subseteq Offsets /\ list'[p] \in Lists
<1> DEFINE b == [page |-> p, at |-> s, size |-> req[t].size, from |-> req[t].from]
           k == UnitsFor(req[t].size)
<1>1. /\ free' = [free EXCEPT ![p] = F \ Extent(s, k)]
      /\ units' = [units EXCEPT ![p] = n - k]
      /\ list' = [list EXCEPT ![p] = IF units'[p] = 0 THEN "none" ELSE l]
      /\ live' = live \cup {b}
  BY DEF CarveAt, Without, UnitsLeft
<1>2. free'[p] = F \ Extent(s, k) /\ units'[p] = n - k
      /\ list'[p] = IF n - k = 0 THEN "none" ELSE l
  BY <1>1 DEF IInv, TypeOK
<1>3. k \in Nat
  BY SizeUnits
<1>4. units'[p] = Cardinality(free'[p])
  BY <1>2, <1>3, CarveCardinality DEF Offsets
<1>5. units'[p] \in 0 .. PageUnits /\ free'[p] \subseteq Offsets
  BY <1>2, <1>4, OffsetsCardinality
<1>6. l \in Lists \ {"none"}
  BY ListForType
<1>7. list'[p] # "none" <=> units'[p] > 0
  BY <1>2, <1>5, <1>6
<1>8. LiveOn(p)' = LiveOn(p) \cup {b}
  BY <1>1 DEF LiveOn
<1>9. Body(b) = Extent(s, k)
  BY NewBlock
<1>10. \A u \in Offsets : u \in free'[p] <=> \A c \in LiveOn(p)' : u \notin Body(c)
  BY <1>2, <1>8, <1>9
<1>11. Exact(p)'
  <2>1. \A c : Body(c)' = Body(c)
    BY DEF Body, IsLarge
  <2> QED
    BY <1>4, <1>7, <1>8, <1>10, <2>1 DEF Exact
<1>12. OneClass(p)'
  <2>1. \A c \in LiveOn(p)' : ListFor(c.size) = l
    BY <1>8
  <2> QED
    BY <1>2, <2>1 DEF OneClass
<1> QED
  BY <1>2, <1>5, <1>6, <1>11, <1>12 DEF PageFine, Lists

LEMMA SearchHitInv ==
    ASSUME IInv, NEW t \in Threads, SearchHit(t)
    PROVE  IInv'
<1> DEFINE k == UnitsFor(req[t].size)
           l == ListFor(req[t].size)
<1>p. PICK p \in Tightest(l, k) : \E s \in free[p] :
        /\ IsFirstFit(free[p], s, k, AlignUnits(req[t].align))
        /\ CarveAt(t, p, s, free[p], units[p], l)
  BY DEF SearchHit
<1>0. PICK s \in free[p] :
        /\ IsFirstFit(free[p], s, k, AlignUnits(req[t].align))
        /\ CarveAt(t, p, s, free[p], units[p], l)
  BY <1>p
<1> DEFINE b == [page |-> p, at |-> s, size |-> req[t].size, from |-> req[t].from]
<1>1. /\ pc[t] = "search" /\ lock' = t
      /\ pc' = [pc EXCEPT ![t] = "load"] /\ class' = [class EXCEPT ![t] = "small"]
      /\ UNCHANGED <<owner, slab, rcu, page_count, free_units, req, page, reg>>
  BY DEF SearchHit, Locked, stats
<1>2. /\ free' = [free EXCEPT ![p] = free[p] \ Extent(s, k)]
      /\ units' = [units EXCEPT ![p] = units[p] - k]
      /\ list' = [list EXCEPT ![p] = IF units'[p] = 0 THEN "none" ELSE l]
      /\ live' = live \cup {b} /\ blk' = [blk EXCEPT ![t] = b]
  BY <1>0 DEF CarveAt, Without, UnitsLeft
<1>3. /\ req[t].size \in Sizes /\ req[t].size < PageSize
      /\ req[t].from \in Froms /\ req[t].from # "pages"
  BY <1>1 DEF IInv, Requested
<1>4. p \in Pages /\ list[p] = l /\ l # "none"
  BY ListForType DEF Tightest, Roomy
<1>5. Settled(p) /\ Exact(p) /\ OneClass(p)
  BY <1>4 DEF IInv, Listed, AllExact, OneClassPerPage
<1>6. s \in Offsets /\ free[p] \subseteq Offsets
  BY <1>4 DEF IInv, TypeOK
<1>7. Extent(s, k) \subseteq free[p]
  BY <1>0 DEF IsFirstFit, Fits
<1>8. /\ b \in Blocks /\ ~ IsLarge(b) /\ b # NoBlock
      /\ Body(b) = Extent(s, k) /\ s \in Body(b)
  BY <1>3, <1>4, <1>6, NewBlock
<1>9. Settled(p)'
  BY <1>1, <1>5 DEF Settled, IInv, TypeOK
<1>10. /\ PageFine(p)' /\ units'[p] \in 0 .. PageUnits
       /\ free'[p] \subseteq Offsets /\ list'[p] \in Lists
  <2>1. \A c \in LiveOn(p) : ListFor(c.size) = l
    BY <1>4, <1>5 DEF OneClass
  <2> QED
    BY <1>0, <1>3, <1>4, <1>5, <1>6, <1>7, <1>9, <2>1, CarvedPage DEF Exact
<1>11. TypeOK'
  BY <1>1, <1>2, <1>4, <1>8, <1>10 DEF IInv, TypeOK, Labels, Lists
<1>12. \A c \in live : c.page = p => Body(c) \cap Body(b) = {}
  BY <1>5, <1>6, <1>7, <1>8 DEF Exact, LiveOn
<1>13. Disjoint'
  BY <1>2, <1>6, <1>7, <1>8, <1>12, OneMoreDisjoint
<1>14. \A q \in Pages \ {p} : PageFine(q)'
  <2> TAKE q \in Pages \ {p}
  <2>1. LiveOn(q)' = LiveOn(q)
    BY <1>2 DEF LiveOn
  <2>2. free'[q] = free[q] /\ units'[q] = units[q] /\ list'[q] = list[q]
    BY <1>2 DEF IInv, TypeOK
  <2>3. \A u \in Threads : pc'[u] \in AtPage <=> pc[u] \in AtPage
    BY <1>1 DEF IInv, TypeOK, AtPage
  <2> QED
    BY <1>1, <2>1, <2>2, <2>3, OtherPages
<1>15. Transit'
  <2>1. ASSUME NEW u \in Threads, pc'[u] \in AtPage
        PROVE  pc[u] \in AtPage /\ page[u] # p /\ LiveOn(page[u])' = {}
    BY <1>1, <1>2, <1>5, <2>1 DEF IInv, TypeOK, Transit, LiveOn, AtPage, Settled
  <2> QED
    BY <1>1, <2>1 DEF IInv, Transit, AtPage
<1>16. b \notin live
  BY <1>8, <1>12
<1>17. Handled' /\ Requested'
  BY <1>1, <1>2, <1>8, <1>16 DEF IInv, TypeOK, Handled, Requested, IsLarge
<1>18. Routable'
  <2>1. slab[p] /\ owner[p] = "slob"
    BY <1>4, <1>5 DEF Settled, IInv, SlabPages
  <2> QED
    BY <1>1, <1>2, <1>8, <2>1 DEF IInv, Routable, IsLarge
<1>19. SlabPages'
  BY <1>1 DEF IInv, SlabPages
<1> QED
  BY <1>10, <1>11, <1>13, <1>14, <1>15, <1>17, <1>18, <1>19, AllFine DEF IInv

LEMMA GrowInv ==
    ASSUME IInv, NEW t \in Threads, NEW p \in Pages, Grow(t, p)
    PROVE  IInv'
<1>1. /\ pc[t] = "grow" /\ owner[p] = "buddy"
      /\ owner' = [owner EXCEPT ![p] = "slob"] /\ slab' = [slab EXCEPT ![p] = TRUE]
      /\ page' = [page EXCEPT ![t] = p] /\ pc' = [pc EXCEPT ![t] = "carve"]
      /\ UNCHANGED <<free, units, list, live, rcu, lock, page_count, free_units>>
      /\ UNCHANGED <<req, blk, reg, class>>
  BY DEF Grow, stats
<1>2. TypeOK'
  BY <1>1 DEF IInv, TypeOK, Labels
<1>3. LiveOn(p) = {}
  BY <1>1, BuddyEmpty
<1>4. Disjoint'
  BY <1>1, FewerDisjoint
<1>5. \A u \in Threads : pc[u] \in AtPage => page[u] # p
  BY <1>1 DEF IInv, Transit, AtPage
<1>6. \A q \in Pages \ {p} : PageFine(q)'
  <2> TAKE q \in Pages \ {p}
  <2>1. LiveOn(q)' = LiveOn(q)
    BY <1>1 DEF LiveOn
  <2>2. owner'[q] = owner[q] /\ slab'[q] = slab[q]
    BY <1>1 DEF IInv, TypeOK
  <2>3. \A u \in Threads : pc'[u] \in AtPage /\ page'[u] = q
                           <=> pc[u] \in AtPage /\ page[u] = q
    BY <1>1, <1>5 DEF IInv, TypeOK, AtPage
  <2> QED
    BY <1>1, <2>1, <2>2, <2>3, OtherPages
<1>7. PageFine(p)'
  <2>1. ~ Settled(p) /\ ~ Settled(p)'
    BY <1>1 DEF Settled, IInv, TypeOK
  <2>2. list'[p] = "none"
    BY <1>1, <2>1 DEF IInv, Listed
  <2> QED
    BY <2>1, <2>2 DEF PageFine
<1>8. Transit'
  <2>1. ASSUME NEW u \in Threads, u # t, pc'[u] \in AtPage
        PROVE  /\ pc[u] \in AtPage /\ page'[u] = page[u] /\ page[u] # p
               /\ owner'[page[u]] = "slob" /\ slab'[page[u]]
               /\ LiveOn(page[u]) = {}
    BY <1>1, <1>5, <2>1 DEF IInv, TypeOK, Transit, AtPage
  <2>2. page'[t] = p /\ owner'[p] = "slob" /\ slab'[p]
    BY <1>1 DEF IInv, TypeOK
  <2> QED
    BY <1>1, <1>3, <2>1, <2>2 DEF IInv, Transit, AtPage, LiveOn
<1>9. Handled' /\ Requested'
  BY <1>1 DEF IInv, TypeOK, Handled, Requested, IsLarge
<1>10. Routable'
  BY <1>1, <1>3 DEF IInv, TypeOK, Routable, IsLarge, LiveOn
<1>11. SlabPages'
  BY <1>1 DEF IInv, TypeOK, SlabPages
<1> QED
  BY <1>2, <1>4, <1>6, <1>7, <1>8, <1>9, <1>10, <1>11, AllFine DEF IInv

LEMMA CarveInv ==
    ASSUME IInv, NEW t \in Threads, Carve(t)
    PROVE  IInv'
<1> DEFINE k == UnitsFor(req[t].size)
           l == ListFor(req[t].size)
<1>p. PICK p \in Pages : p = page[t]
  BY DEF Carve, IInv, Transit
<1>0. PICK s \in Offsets :
        /\ IsFirstFit(Offsets, s, k, AlignUnits(req[t].align))
        /\ CarveAt(t, p, s, Offsets, PageUnits, l)
  BY <1>p DEF Carve
<1> DEFINE b == [page |-> p, at |-> s, size |-> req[t].size, from |-> req[t].from]
<1>1. /\ pc[t] = "carve" /\ pc' = [pc EXCEPT ![t] = "countpage"]
      /\ UNCHANGED <<owner, slab, rcu, lock, page_count, free_units>>
      /\ UNCHANGED <<req, page, reg, class>>
  BY DEF Carve, stats
<1>2. /\ free' = [free EXCEPT ![p] = Offsets \ Extent(s, k)]
      /\ units' = [units EXCEPT ![p] = PageUnits - k]
      /\ list' = [list EXCEPT ![p] = IF units'[p] = 0 THEN "none" ELSE l]
      /\ live' = live \cup {b} /\ blk' = [blk EXCEPT ![t] = b]
  BY <1>0 DEF CarveAt, Without, UnitsLeft
<1>3. /\ req[t].size \in Sizes /\ req[t].size < PageSize
      /\ req[t].from \in Froms /\ req[t].from # "pages"
  BY <1>1 DEF IInv, Requested
<1>4. /\ p \in Pages /\ owner[p] = "slob" /\ LiveOn(p) = {}
      /\ \A u \in Threads : pc[u] \in AtPage /\ page[u] = p => u = t
  BY <1>p, <1>1 DEF IInv, Transit, AtPage
<1>5. Extent(s, k) \subseteq Offsets
  BY <1>0 DEF IsFirstFit, Fits
<1>6. /\ b \in Blocks /\ ~ IsLarge(b) /\ b # NoBlock
      /\ Body(b) = Extent(s, k) /\ s \in Body(b)
  BY <1>3, <1>4, NewBlock
<1>7. Settled(p)'
  BY <1>p, <1>1, <1>4 DEF Settled, IInv, TypeOK, AtPage
<1>8. /\ PageFine(p)' /\ units'[p] \in 0 .. PageUnits
      /\ free'[p] \subseteq Offsets /\ list'[p] \in Lists
  BY <1>0, <1>3, <1>4, <1>5, <1>7, CarvedPage, OffsetsCardinality
<1>9. TypeOK'
  BY <1>1, <1>2, <1>4, <1>6, <1>8 DEF IInv, TypeOK, Labels, Lists
<1>10. Disjoint'
  BY <1>2, <1>4, <1>5, <1>6, OneMoreDisjoint DEF LiveOn
<1>11. \A q \in Pages \ {p} : PageFine(q)'
  <2> TAKE q \in Pages \ {p}
  <2>1. LiveOn(q)' = LiveOn(q)
    BY <1>2 DEF LiveOn
  <2>2. free'[q] = free[q] /\ units'[q] = units[q] /\ list'[q] = list[q]
    BY <1>2 DEF IInv, TypeOK
  <2>3. \A u \in Threads : pc'[u] \in AtPage /\ page'[u] = q
                           <=> pc[u] \in AtPage /\ page[u] = q
    BY <1>p, <1>1 DEF IInv, TypeOK, AtPage
  <2> QED
    BY <1>1, <2>1, <2>2, <2>3, OtherPages
<1>12. Transit'
  <2>1. ASSUME NEW u \in Threads, pc'[u] \in AtPage
        PROVE  pc[u] \in AtPage /\ u # t /\ page[u] # p /\ LiveOn(page[u])' = {}
    BY <1>p, <1>1, <1>2, <1>4, <2>1 DEF IInv, TypeOK, Transit, LiveOn, AtPage
  <2> QED
    BY <1>1, <2>1 DEF IInv, Transit, AtPage
<1>13. b \notin live
  BY <1>4 DEF LiveOn
<1>14. Handled' /\ Requested'
  BY <1>1, <1>2, <1>6, <1>13 DEF IInv, TypeOK, Handled, Requested, IsLarge
<1>15. Routable'
  BY <1>1, <1>2, <1>4, <1>6 DEF IInv, Routable, SlabPages, IsLarge
<1>16. SlabPages'
  BY <1>1 DEF IInv, SlabPages
<1> QED
  BY <1>8, <1>9, <1>10, <1>11, <1>12, <1>14, <1>15, <1>16, AllFine DEF IInv

LEMMA ReleaseInv ==
    ASSUME IInv, NEW t \in Threads, Release(t)
    PROVE  IInv'
<1>p. PICK p \in Pages : p = page[t]
  BY DEF Release, IInv, Transit
<1>1. /\ pc[t] = "release" /\ pc' = [pc EXCEPT ![t] = "uncountpage"]
      /\ free' = [free EXCEPT ![p] = {}] /\ units' = [units EXCEPT ![p] = 0]
      /\ slab' = [slab EXCEPT ![p] = FALSE]
      /\ owner' = [owner EXCEPT ![p] = "buddy"]
      /\ page' = [page EXCEPT ![t] = NoPage]
      /\ UNCHANGED <<list, live, rcu, lock, page_count, free_units>>
      /\ UNCHANGED <<req, blk, reg, class>>
  BY <1>p DEF Release, Unslab, stats
<1>2. /\ p \in Pages /\ owner[p] = "slob" /\ LiveOn(p) = {}
      /\ \A u \in Threads : pc[u] \in AtPage /\ page[u] = p => u = t
  BY <1>p, <1>1 DEF IInv, Transit, AtPage
<1>3. TypeOK'
  BY <1>1, <1>2, PagesAssumption DEF IInv, TypeOK, Labels
<1>4. Disjoint'
  BY <1>1, FewerDisjoint
<1>5. \A q \in Pages \ {p} : PageFine(q)'
  <2> TAKE q \in Pages \ {p}
  <2>1. LiveOn(q)' = LiveOn(q)
    BY <1>1 DEF LiveOn
  <2>2. /\ owner'[q] = owner[q] /\ slab'[q] = slab[q] /\ free'[q] = free[q]
        /\ units'[q] = units[q]
    BY <1>1 DEF IInv, TypeOK
  <2>3. \A u \in Threads : pc'[u] \in AtPage /\ page'[u] = q
                           <=> pc[u] \in AtPage /\ page[u] = q
    BY <1>p, <1>1 DEF IInv, TypeOK, AtPage
  <2> QED
    BY <1>1, <2>1, <2>2, <2>3, OtherPages
<1>6. PageFine(p)'
  <2>1. ~ Settled(p)
    BY <1>p, <1>1 DEF Settled
  <2>2. ~ Settled(p)'
    BY <1>1, <1>2 DEF Settled, IInv, TypeOK
  <2>3. list'[p] = "none"
    BY <1>1, <1>2, <2>1 DEF IInv, Listed
  <2> QED
    BY <2>2, <2>3 DEF PageFine
<1>7. Transit'
  <2>1. ASSUME NEW u \in Threads, pc'[u] \in AtPage
        PROVE  /\ u # t /\ pc[u] \in AtPage /\ page'[u] = page[u] /\ page[u] # p
               /\ owner'[page[u]] = "slob" /\ slab'[page[u]]
               /\ LiveOn(page[u]) = {}
    BY <1>1, <1>2, <2>1 DEF IInv, TypeOK, Transit, AtPage
  <2> QED
    BY <1>1, <2>1 DEF IInv, Transit, AtPage, LiveOn
<1>8. Handled' /\ Requested'
  BY <1>1 DEF IInv, TypeOK, Handled, Requested, IsLarge
<1>9. Routable'
  BY <1>1, <1>2 DEF IInv, TypeOK, Routable, IsLarge, LiveOn
<1>10. SlabPages'
  BY <1>1, <1>2 DEF IInv, TypeOK, SlabPages
<1> QED
  BY <1>2, <1>3, <1>4, <1>5, <1>6, <1>7, <1>8, <1>9, <1>10, AllFine DEF IInv

-----------------------------------------------------------------------------
(* slob_free gives a block back. *)

(* The block a thread is freeing and the page it is on. *)
LEMMA FreedBlock ==
    ASSUME IInv, NEW t \in Threads, pc[t] = "free", NEW b, b = blk[t]
    PROVE  /\ b \in live /\ b \notin rcu /\ b \in Blocks /\ b # NoBlock
           /\ b.page \in Pages /\ b.at \in Offsets /\ b.size \in Sizes
           /\ UnitsFor(b.size) \in Nat \ {0}
           /\ Body(b) = Extent(b.at, UnitsFor(b.size))
           /\ Settled(b.page) /\ Exact(b.page) /\ OneClass(b.page)
           /\ Body(b) \cap free[b.page] = {}
           /\ units[b.page] = Cardinality(free[b.page])
           /\ free[b.page] \subseteq Offsets /\ Body(b) \subseteq Offsets
           /\ \A u \in Threads : blk[u] = b => u = t
<1>1. b # NoBlock /\ b \in live /\ b \notin rcu /\ ~ IsLarge(b)
      /\ \A u \in Threads : blk[u] = b => u = t
  BY DEF IInv, Handled
<1>2. b \in Blocks /\ b.page \in Pages /\ b.at \in Offsets /\ b.size \in Sizes
  BY <1>1 DEF IInv, TypeOK, Blocks
<1>3. Body(b) = Extent(b.at, UnitsFor(b.size)) /\ Body(b) \subseteq Offsets
  BY <1>1 DEF Body, IInv, Disjoint
<1>4. Settled(b.page)
  BY <1>1 DEF Settled, IInv, Routable, Transit, LiveOn
<1>5. Exact(b.page) /\ OneClass(b.page)
  BY <1>2, <1>4 DEF IInv, AllExact, OneClassPerPage
<1>6. Body(b) \cap free[b.page] = {}
  BY <1>1, <1>3, <1>5 DEF Exact, LiveOn
<1>7. units[b.page] = Cardinality(free[b.page]) /\ free[b.page] \subseteq Offsets
  BY <1>2, <1>5 DEF Exact, IInv, TypeOK
<1> QED
  BY <1>1, <1>2, <1>3, <1>4, <1>5, <1>6, <1>7, SizeUnits

(* What the free of one block of several leaves of its page. *)
LEMMA FreedPage ==
    ASSUME IInv, NEW t \in Threads, pc[t] = "free", NEW b, b = blk[t],
           ~ LastOnPage(b),
           live' = live \ {b},
           free'[b.page] = free[b.page] \cup Body(b),
           units'[b.page] = units[b.page] + UnitsFor(b.size),
           list'[b.page] \in Lists \ {"none"},
           list[b.page] = "none" => list'[b.page] = ListFor(b.size),
           list[b.page] # "none" => list'[b.page] = list[b.page],
           Settled(b.page)'
    PROVE  PageFine(b.page)' /\ units'[b.page] \in 0 .. PageUnits
           /\ free'[b.page] \subseteq Offsets
<1> DEFINE p == b.page
           k == UnitsFor(b.size)
<1>1. /\ b \in live /\ p \in Pages /\ b.at \in Offsets
      /\ k \in Nat \ {0} /\ Body(b) = Extent(b.at, k)
      /\ Exact(p) /\ OneClass(p)
      /\ Body(b) \cap free[p] = {} /\ units[p] = Cardinality(free[p])
      /\ free[p] \subseteq Offsets /\ Body(b) \subseteq Offsets
  BY FreedBlock
<1>2. free'[p] \subseteq Offsets
  BY <1>1
<1>3. units'[p] = Cardinality(free'[p])
  BY <1>1, FreeCardinality DEF Offsets
<1>4. units'[p] \in 0 .. PageUnits
  BY <1>2, <1>3, OffsetsCardinality
<1>5. LiveOn(p)' = LiveOn(p) \ {b}
  BY DEF LiveOn
<1>6. \A c \in LiveOn(p) : c # b => Body(c) \cap Body(b) = {}
  BY <1>1 DEF IInv, Disjoint, LiveOn
<1>7. \A u \in Offsets : u \in free'[p] <=> \A c \in LiveOn(p)' : u \notin Body(c)
  BY <1>1, <1>5, <1>6 DEF Exact, LiveOn
<1>8. LiveOn(p)' # {}
  <2> SUFFICES ASSUME LiveOn(p)' = {} PROVE FALSE
    OBVIOUS
  <2>1. free'[p] = Offsets
    BY <1>2, <1>7
  <2>2. units'[p] = PageUnits
    BY <1>3, <2>1, OffsetsCardinality
  <2> QED
    BY <2>2 DEF LastOnPage
<1>9. list'[p] # "none" <=> units'[p] > 0
  <2>1. units[p] \in Nat
    BY <1>1 DEF IInv, TypeOK
  <2> QED
    BY <1>1, <2>1
<1>10. \A c : Body(c)' = Body(c)
  BY DEF Body, IsLarge
<1>11. Exact(p)'
  BY <1>3, <1>5, <1>7, <1>8, <1>9, <1>10 DEF Exact
<1>12. OneClass(p)'
  <2>1. \A c \in LiveOn(p) : ListFor(c.size) = ListFor(b.size)
    BY <1>1 DEF OneClass, LiveOn
  <2>2. list'[p] = ListFor(b.size)
    BY <1>1 DEF OneClass, LiveOn
  <2> QED
    BY <1>5, <2>1, <2>2 DEF OneClass
<1> QED
  BY <1>2, <1>4, <1>11, <1>12 DEF PageFine

(* The rest of the invariant after such a free. *)
LEMMA FreeOneInv ==
    ASSUME IInv, NEW t \in Threads, pc[t] = "free", NEW b, b = blk[t],
           ~ LastOnPage(b), Return(t),
           live' = live \ {b},
           free' = [free EXCEPT ![b.page] = free[b.page] \cup Body(b)],
           units' = [units EXCEPT ![b.page] = units[b.page] + UnitsFor(b.size)],
           NEW l \in Lists \ {"none"},
           list' = [list EXCEPT ![b.page] = l],
           list[b.page] = "none" => l = ListFor(b.size),
           list[b.page] # "none" => l = list[b.page],
           UNCHANGED <<owner, slab, rcu, lock, page_count, free_units>>
    PROVE  IInv'
<1> DEFINE p == b.page
<1>1. /\ b \in live /\ b \notin rcu /\ p \in Pages /\ Settled(p)
      /\ b # NoBlock /\ \A u \in Threads : blk[u] = b => u = t
  BY FreedBlock
<1>2. \A u \in Threads : /\ pc'[u] \in AtPage <=> pc[u] \in AtPage
                         /\ pc[u] \in AtPage => page'[u] = page[u]
  BY DEF Return, IInv, TypeOK, AtPage
<1>3. Settled(p)'
  BY <1>1, <1>2 DEF Settled, AtPage
<1>4. /\ free'[p] = free[p] \cup Body(b) /\ list'[p] = l
      /\ units'[p] = units[p] + UnitsFor(b.size)
  BY <1>1 DEF IInv, TypeOK
<1>5. PageFine(p)' /\ units'[p] \in 0 .. PageUnits /\ free'[p] \subseteq Offsets
  BY <1>1, <1>3, <1>4, FreedPage
<1>6. TypeOK'
  BY <1>1, <1>4, <1>5, ReturnType DEF IInv, TypeOK
<1>7. Disjoint'
  BY FewerDisjoint
<1>8. \A q \in Pages \ {p} : PageFine(q)'
  <2> TAKE q \in Pages \ {p}
  <2>1. LiveOn(q)' = LiveOn(q)
    BY DEF LiveOn
  <2>2. free'[q] = free[q] /\ units'[q] = units[q] /\ list'[q] = list[q]
    BY DEF IInv, TypeOK
  <2> QED
    BY <1>2, <2>1, <2>2, OtherPages
<1>9. Transit'
  <2>1. ASSUME NEW u \in Threads, pc'[u] \in AtPage
        PROVE  /\ pc[u] \in AtPage /\ page'[u] = page[u]
               /\ LiveOn(page[u])' = {}
    BY <1>2, <2>1 DEF IInv, Transit, LiveOn, AtPage
  <2> QED
    BY <2>1 DEF IInv, Transit, AtPage, LiveOn
<1>10. Handled' /\ Requested'
  BY <1>1 DEF IInv, TypeOK, Handled, Requested, Return, IsLarge
<1>11. Routable' /\ SlabPages'
  BY DEF IInv, Routable, SlabPages, IsLarge
<1> QED
  BY <1>1, <1>5, <1>6, <1>7, <1>8, <1>9, <1>10, <1>11, AllFine DEF IInv

LEMMA FreeOnFullInv ==
    ASSUME IInv, NEW t \in Threads, FreeOnFull(t)
    PROVE  IInv'
<1> PICK b : b = blk[t]
  OBVIOUS
<1>1. /\ pc[t] = "free" /\ ~ LastOnPage(b) /\ list[b.page] = "none"
      /\ free' = [free EXCEPT ![b.page] = FreedUnits(b)]
      /\ units' = [units EXCEPT ![b.page] = UnitsFor(b.size)]
      /\ list' = [list EXCEPT ![b.page] = ListFor(b.size)]
      /\ live' = live \ {b} /\ Return(t)
      /\ UNCHANGED <<owner, slab, rcu, lock, page_count, free_units>>
  BY DEF FreeOnFull, ListOfFreed, stats
<1>2. /\ b.page \in Pages /\ Exact(b.page) /\ UnitsFor(b.size) \in Nat
      /\ units[b.page] = Cardinality(free[b.page]) /\ FreedUnits(b) = Body(b)
  BY <1>1, FreedBlock DEF FreedUnits
<1>3. units[b.page] = 0 /\ free[b.page] = {}
  <2>1. units[b.page] \in Nat /\ free[b.page] \in SUBSET Offsets
    BY <1>2 DEF IInv, TypeOK
  <2>2. units[b.page] = 0
    BY <1>1, <1>2, <2>1 DEF Exact
  <2> QED
    BY <1>2, <2>1, <2>2, OffsetsCardinality, FS_EmptySet
<1>4. /\ free' = [free EXCEPT ![b.page] = free[b.page] \cup Body(b)]
      /\ units' = [units EXCEPT ![b.page] = units[b.page] + UnitsFor(b.size)]
  <2>1. free[b.page] \cup Body(b) = FreedUnits(b)
    BY <1>2, <1>3
  <2>2. units[b.page] + UnitsFor(b.size) = UnitsFor(b.size)
    BY <1>2, <1>3
  <2> QED
    BY <1>1, <2>1, <2>2
<1>5. ListFor(b.size) \in Lists \ {"none"}
  BY ListForType
<1> QED
  BY <1>1, <1>4, <1>5, FreeOneInv

LEMMA FreeMoreInv ==
    ASSUME IInv, NEW t \in Threads, FreeMore(t)
    PROVE  IInv'
<1> PICK b : b = blk[t]
  OBVIOUS
<1>1. /\ pc[t] = "free" /\ ~ LastOnPage(b) /\ list[b.page] # "none"
      /\ free' = [free EXCEPT ![b.page] = @ \cup FreedUnits(b)]
      /\ units' = [units EXCEPT ![b.page] = @ + UnitsFor(b.size)]
      /\ live' = live \ {b} /\ Return(t)
      /\ UNCHANGED <<owner, slab, list, rcu, lock, page_count, free_units>>
  BY DEF FreeMore, stats
<1>2. b.page \in Pages /\ FreedUnits(b) = Body(b)
  BY <1>1, FreedBlock DEF FreedUnits
<1> PICK l : l = list[b.page]
  OBVIOUS
<1>3. l \in Lists \ {"none"} /\ list' = [list EXCEPT ![b.page] = l]
  BY <1>1, <1>2 DEF IInv, TypeOK
<1>4. /\ free' = [free EXCEPT ![b.page] = free[b.page] \cup Body(b)]
      /\ units' = [units EXCEPT ![b.page] = units[b.page] + UnitsFor(b.size)]
  BY <1>1, <1>2
<1> QED
  BY <1>1, <1>3, <1>4, FreeOneInv

LEMMA FreeLastInv ==
    ASSUME IInv, NEW t \in Threads, FreeLast(t)
    PROVE  IInv'
<1> PICK b : b = blk[t]
  OBVIOUS
<1> DEFINE p == b.page
           k == UnitsFor(b.size)
<1>1. /\ pc[t] = "free" /\ units[p] + k = PageUnits
      /\ list' = [list EXCEPT ![p] = "none"] /\ live' = live \ {b}
      /\ page' = [page EXCEPT ![t] = p] /\ blk' = [blk EXCEPT ![t] = NoBlock]
      /\ pc' = [pc EXCEPT ![t] = "release"]
      /\ UNCHANGED <<owner, slab, free, units, rcu, lock, page_count, free_units>>
      /\ UNCHANGED <<req, reg, class>>
  BY DEF FreeLast, LastOnPage, stats
<1>2. /\ b \in live /\ b \notin rcu /\ b # NoBlock /\ p \in Pages /\ b.at \in Offsets
      /\ k \in Nat \ {0} /\ Body(b) = Extent(b.at, k) /\ Settled(p) /\ Exact(p)
      /\ Body(b) \cap free[p] = {} /\ units[p] = Cardinality(free[p])
      /\ free[p] \subseteq Offsets /\ Body(b) \subseteq Offsets
  BY <1>1, FreedBlock
<1>3. free[p] \cup Body(b) = Offsets
  <2>1. Cardinality(free[p] \cup Body(b)) = PageUnits
    BY <1>1, <1>2, FreeCardinality DEF Offsets
  <2> QED
    BY <1>2, <2>1, OffsetsCardinality
<1>4. LiveOn(p) = {b}
  <2>1. ASSUME NEW c \in LiveOn(p), c # b
        PROVE  FALSE
    <3>1. Body(c) \cap Body(b) = {} /\ Body(c) \subseteq Offsets /\ Body(c) # {}
      BY <1>2, <2>1 DEF IInv, Disjoint, LiveOn
    <3>2. Body(c) \cap free[p] = {}
      BY <1>2, <2>1, <3>1 DEF Exact
    <3> QED
      BY <1>3, <3>1, <3>2
  <2> QED
    BY <1>2, <2>1 DEF LiveOn
<1>5. LiveOn(p)' = {}
  BY <1>1, <1>4 DEF LiveOn
<1>6. TypeOK'
  BY <1>1, <1>2 DEF IInv, TypeOK, Labels, Lists
<1>7. Disjoint'
  BY <1>1, FewerDisjoint
<1>8. \A u \in Threads : pc[u] \in AtPage => page[u] # p
  BY <1>2 DEF Settled, AtPage
<1>9. \A q \in Pages \ {p} : PageFine(q)'
  <2> TAKE q \in Pages \ {p}
  <2>1. LiveOn(q)' = LiveOn(q)
    BY <1>1 DEF LiveOn
  <2>2. list'[q] = list[q]
    BY <1>1 DEF IInv, TypeOK
  <2>3. \A u \in Threads : pc'[u] \in AtPage /\ page'[u] = q
                           <=> pc[u] \in AtPage /\ page[u] = q
    BY <1>1 DEF IInv, TypeOK, AtPage
  <2> QED
    BY <1>1, <2>1, <2>2, <2>3, OtherPages
<1>10. PageFine(p)'
  <2>1. ~ Settled(p)'
    BY <1>1 DEF Settled, IInv, TypeOK
  <2>2. list'[p] = "none"
    BY <1>1, <1>2 DEF IInv, TypeOK
  <2> QED
    BY <2>1, <2>2 DEF PageFine
<1>11. Transit'
  <2>1. ASSUME NEW u \in Threads, u # t, pc'[u] \in AtPage
        PROVE  /\ pc[u] \in AtPage /\ page'[u] = page[u] /\ page[u] # p
               /\ LiveOn(page[u]) = {}
    BY <1>1, <1>8, <2>1 DEF IInv, TypeOK, Transit, AtPage
  <2>2. page'[t] = p /\ owner[p] = "slob" /\ slab[p]
    BY <1>1, <1>2 DEF IInv, TypeOK, Settled, SlabPages
  <2> QED
    BY <1>1, <1>2, <1>5, <2>1, <2>2 DEF IInv, Transit, AtPage, LiveOn
<1>12. Handled' /\ Requested'
  BY <1>1, <1>2, FreedBlock DEF IInv, TypeOK, Handled, Requested, IsLarge
<1>13. Routable' /\ SlabPages'
  BY <1>1 DEF IInv, Routable, SlabPages, IsLarge
<1> QED
  BY <1>2, <1>6, <1>7, <1>9, <1>10, <1>11, <1>12, <1>13, AllFine DEF IInv

-----------------------------------------------------------------------------
(* The calls, and every step. *)

LEMMA HeldBlock ==
    ASSUME IInv, NEW b \in Held
    PROVE  /\ b \in live /\ b \notin rcu /\ \A u \in Threads : blk[u] # b
           /\ b.size \in Nat /\ PageSize \in Nat
           /\ slab[b.page] <=> ~ IsLarge(b)
<1>1. PageSize \in Nat
  BY PagesAssumption DEF PageSize, SlobUnit
<1>2. b \in live /\ b \notin rcu /\ \A u \in Threads : blk[u] # b
  BY DEF Held
<1> QED
  BY <1>1, <1>2, SizesType DEF IInv, TypeOK, Blocks, Routable

LEMMA CacheSizes ==
    ASSUME NEW c \in Caches
    PROVE  CacheBytes(c) \in Sizes /\ CacheBytes(c) \in Nat
<1>1. CASE c.rcu
  BY <1>1, SizesType DEF CacheBytes, Sizes
<1>2. CASE ~ c.rcu
  <2>1. c.size + 0 = c.size
    BY SizesAssumption
  <2> QED
    BY <1>2, <2>1, SizesType DEF CacheBytes, Sizes
<1> QED
  BY <1>1, <1>2

LEMMA CallInv ==
    ASSUME IInv, NEW t \in Threads, Call(t)
    PROVE  IInv'
<1>0. PageSize \in Nat
  BY PagesAssumption DEF PageSize, SlobUnit
<1>1. ASSUME NEW n \in KmallocSizes, Kmalloc(t, n)
      PROVE  IInv'
  <2>1. n \in Sizes /\ n + MinAlign \in Sizes /\ n \in Nat /\ MinAlign \in Nat
    BY SizesAssumption DEF Sizes
  <2>2. CASE n < PageSize - MinAlign
    <3>1. n + MinAlign < PageSize
      BY <1>0, <2>1, <2>2
    <3> QED
      BY <1>1, <2>1, <2>2, <3>1, StartAllocInv DEF Kmalloc, Froms
  <2>3. CASE ~ (n < PageSize - MinAlign)
    BY <1>1, <2>1, <2>3, AllocPagesInv DEF Kmalloc, Froms
  <2> QED
    BY <2>2, <2>3
<1>2. ASSUME NEW c \in Caches, KmemCacheAlloc(t, c)
      PROVE  IInv'
  <2>1. c.align \in Nat /\ CacheFrom(c) \in Froms \ {"pages"}
    BY SizesAssumption DEF CacheFrom, Froms
  <2>2. CacheBytes(c) \in Sizes /\ CacheBytes(c) \in Nat
    BY CacheSizes
  <2>3. CASE CacheBytes(c) < PageSize
    BY <1>2, <2>1, <2>2, <2>3, StartAllocInv DEF KmemCacheAlloc
  <2>4. CASE ~ (CacheBytes(c) < PageSize)
    <3>1. CacheBytes(c) >= PageSize
      BY <1>0, <2>2, <2>4
    <3> QED
      BY <1>2, <2>1, <2>2, <2>4, <3>1, AllocPagesInv DEF KmemCacheAlloc
  <2> QED
    BY <2>3, <2>4
<1>3. ASSUME NEW b \in Held, Kfree(t, b)
      PROVE  IInv'
  <2>1. CASE slab[b.page]
    BY <1>3, <2>1, HeldBlock, StartFreeInv DEF Kfree
  <2>2. CASE ~ slab[b.page]
    BY <1>3, <2>2, HeldBlock, FreePagesInv DEF Kfree
  <2> QED
    BY <2>1, <2>2
<1>4. ASSUME NEW b \in live, b.from # "pages", b.size \in Nat,
             \A u \in Threads : blk[u] # b,
             rcu' \subseteq rcu, b \notin rcu', pc[t] = "idle", CacheFree(t, b)
      PROVE  IInv'
  <2>1. CASE b.size < PageSize
    <3>1. ~ IsLarge(b)
      BY <1>0, <1>4, <2>1 DEF IsLarge
    <3> QED
      BY <1>4, <2>1, <3>1, StartFreeInv DEF CacheFree
  <2>2. CASE ~ (b.size < PageSize)
    <3>1. IsLarge(b)
      BY <1>0, <1>4, <2>2 DEF IsLarge
    <3> QED
      BY <1>4, <2>2, <3>1, FreePagesInv DEF CacheFree
  <2> QED
    BY <2>1, <2>2
<1>5. ASSUME NEW b \in Held, KmemCacheFree(t, b)
      PROVE  IInv'
  <2>1. CASE b.from = "object" /\ CacheFree(t, b) /\ UNCHANGED rcu
    BY <1>4, <1>5, <2>1, HeldBlock DEF KmemCacheFree
  <2>2. CASE b.from = "rcuobject" /\ rcu' = rcu \cup {b}
             /\ UNCHANGED <<pages, live, lock, stats, pc, locals>>
    BY <2>2, RcuDeferInv
  <2> QED
    BY <1>5, <2>1, <2>2 DEF KmemCacheFree
<1>6. ASSUME NEW b \in rcu, KmemRcuFree(t, b)
      PROVE  IInv'
  <2>1. /\ b \in live /\ b.from = "rcuobject"
        /\ \A u \in Threads : blk[u] # b
    <3>1. b \in live /\ b # NoBlock
      BY NoneAssumption DEF IInv, TypeOK, Blocks, NoBlock
    <3> QED
      BY <3>1 DEF IInv, Handled
  <2>2. b.size \in Nat
    BY <2>1, SizesType DEF IInv, TypeOK, Blocks
  <2> QED
    BY <1>4, <1>6, <2>1, <2>2 DEF KmemRcuFree
<1> QED
  BY <1>1, <1>2, <1>3, <1>5, <1>6 DEF Call

LEMMA StepInv == IInv /\ [Next]_vars => IInv'
<1> SUFFICES ASSUME IInv, [Next]_vars PROVE IInv'
  OBVIOUS
<1>1. ASSUME NEW t \in Threads, Lock(t) PROVE IInv'
  BY <1>1, SearchHitInv, SearchMissInv, CarveInv, FreeLastInv, FreeOnFullInv,
     FreeMoreInv DEF Lock
<1>2. ASSUME NEW t \in Threads, Run(t) PROVE IInv'
  BY <1>2, CountLoadInv, CountStoreInv, CountLastInv, GrowFailInv, GrowInv,
     CountPageLoadInv, CountPageStoreInv, ReleaseInv DEF Run
<1>3. CASE UNCHANGED vars
  <2>1. /\ UNCHANGED <<pages, live, rcu, lock, page_count, free_units>>
        /\ UNCHANGED <<owner, slab, free, units, list>>
        /\ UNCHANGED <<pc, req, blk, page, reg, class>>
    BY <1>3 DEF vars, pages, stats, locals
  <2>2. TypeOK'
    BY <2>1 DEF IInv, TypeOK
  <2>3. (Disjoint /\ AllExact /\ Listed /\ Transit /\ Routable /\ OneClassPerPage
         /\ SlabPages)'
    BY <2>1, PagesFrame
  <2>4. Handled' /\ Requested'
    BY <2>1 DEF IInv, Handled, Requested, IsLarge
  <2> QED
    BY <2>2, <2>3, <2>4 DEF IInv
<1> QED
  BY <1>1, <1>2, <1>3, CallInv DEF Next

(* The inductive invariant holds of every behaviour. *)
THEOREM Invariance == Spec => []IInv
BY InitIInv, StepInv, PTL DEF Spec

-----------------------------------------------------------------------------
(* What the steps do to the blocks, and the properties that follow. *)

(* The units of a page in no block, and what PageBlocks says in Slob's words. *)
PageFree(p) == {u \in Offsets : \A b \in LiveOn(p) : IsLarge(b) \/ u \notin Body(b)}

LEMMA PageReads ==
    ASSUME NEW p
    PROVE  /\ \A r, s : Page(p)!Carve(r, s) <=>
                /\ IsFirstFit(PageFree(p), s, r.units, r.align)
                /\ BlocksOn(p)' = BlocksOn(p) \cup {[at |-> s, len |-> r.units]}
           /\ \A r : Page(p)!NoRoom(r) <=> NoFit(PageFree(p), r.units, r.align)
           /\ \A x : Page(p)!GiveBack(x) <=> BlocksOn(p)' = BlocksOn(p) \ {x}
<1>1. Page(p)!FreeIn(BlocksOn(p)) = PageFree(p)
  <2>1. Page(p)!FreeIn(BlocksOn(p))
          = {u \in Offsets : \A x \in BlocksOn(p) : u \notin Extent(x.at, x.len)}
    BY DEF Page!FreeIn, Page!Extent, Extent, Offsets
  <2>2. \A b \in LiveOn(p) : ~ IsLarge(b) =>
          /\ [at |-> b.at, len |-> UnitsFor(b.size)] \in BlocksOn(p)
          /\ Body(b) = Extent(b.at, UnitsFor(b.size))
    BY DEF BlocksOn, Body
  <2>3. \A x \in BlocksOn(p) : \E b \in LiveOn(p) :
          ~ IsLarge(b) /\ x = [at |-> b.at, len |-> UnitsFor(b.size)]
    BY DEF BlocksOn
  <2>4. ASSUME NEW u
        PROVE  (\A x \in BlocksOn(p) : u \notin Extent(x.at, x.len))
                 <=> \A b \in LiveOn(p) : IsLarge(b) \/ u \notin Body(b)
    <3>1. ASSUME NEW b \in LiveOn(p), ~ IsLarge(b), u \in Body(b),
                 \A x \in BlocksOn(p) : u \notin Extent(x.at, x.len)
          PROVE  FALSE
      <4> DEFINE x == [at |-> b.at, len |-> UnitsFor(b.size)]
      <4>1. x \in BlocksOn(p) /\ u \in Extent(x.at, x.len)
        BY <2>2, <3>1
      <4> QED
        BY <3>1, <4>1
    <3>2. ASSUME NEW x \in BlocksOn(p), u \in Extent(x.at, x.len)
          PROVE  \E b \in LiveOn(p) : ~ IsLarge(b) /\ u \in Body(b)
      BY <2>2, <2>3, <3>2
    <3> QED
      BY <3>1, <3>2
  <2> QED
    BY <2>1, <2>4 DEF PageFree
<1>2. \A r, s : Page(p)!Carve(r, s) <=>
                /\ IsFirstFit(PageFree(p), s, r.units, r.align)
                /\ BlocksOn(p)' = BlocksOn(p) \cup {[at |-> s, len |-> r.units]}
  BY <1>1 DEF Page!Carve, Page!IsFirstFit, Page!Fits, Page!Extent, IsFirstFit,
              Fits, Extent
<1>3. \A r : Page(p)!NoRoom(r) <=> NoFit(PageFree(p), r.units, r.align)
  BY <1>1 DEF Page!NoRoom, Page!NoFit, Page!Fits, Page!Extent, NoFit, Fits, Extent
<1>4. \A x : Page(p)!GiveBack(x) <=> BlocksOn(p)' = BlocksOn(p) \ {x}
  BY DEF Page!GiveBack
<1> QED
  BY <1>2, <1>3, <1>4

(* slob_alloc's view of a page on a list is the blocks' view. *)
LEMMA ListedFree ==
    ASSUME IInv, NEW p \in Pages, list[p] # "none"
    PROVE  free[p] = PageFree(p)
<1>1. Settled(p) /\ Exact(p) /\ free[p] \subseteq Offsets
  BY DEF IInv, Listed, AllExact, TypeOK
<1>2. \A b \in LiveOn(p) : ~ IsLarge(b)
  BY <1>1 DEF IInv, Routable, Settled, LiveOn
<1> QED
  BY <1>1, <1>2 DEF Exact, PageFree

(* Block b is new: its units are in the page and in no live block. *)
Fresh(b) ==
    /\ b \in Blocks /\ Body(b) \subseteq Offsets /\ Body(b) # {}
    /\ \A c \in live : c.page = b.page => Body(c) \cap Body(b) = {}

(* Block b answers thread t's request, at the first place of its page. *)
Answers(t, b) ==
    /\ blk[t] = NoBlock /\ blk' = [blk EXCEPT ![t] = b]
    /\ ~ IsLarge(b) /\ b.size = req[t].size
    /\ IsFirstFit(PageFree(b.page), b.at, UnitsFor(b.size),
                  AlignUnits(req[t].align))

LEMMA SmallRequest ==
    ASSUME NEW t \in Threads, NEW p, NEW s, req[t].size \in Sizes,
           req[t].size < PageSize, req[t].from # "pages"
    PROVE  ~ IsLarge([page |-> p, at |-> s, size |-> req[t].size,
                      from |-> req[t].from])
<1> DEFINE b == [page |-> p, at |-> s, size |-> req[t].size, from |-> req[t].from]
<1>1. b.size = req[t].size /\ b.from = req[t].from
  OBVIOUS
<1>2. ~ (req[t].size >= PageSize)
  <2>1. req[t].size \in Nat
    BY SizesType
  <2>2. PageSize \in Nat
    BY PagesAssumption DEF PageSize, SlobUnit
  <2> QED
    BY <2>1, <2>2
<1> HIDE DEF b
<1>3. ~ IsLarge(b)
  BY <1>1, <1>2 DEF IsLarge
<1> QED
  BY <1>3 DEF b

LEMMA SearchHitFresh ==
    ASSUME IInv, NEW t \in Threads, SearchHit(t)
    PROVE  \E b : Fresh(b) /\ live' = live \cup {b} /\ Answers(t, b)
<1> DEFINE k == UnitsFor(req[t].size)
           l == ListFor(req[t].size)
<1>p. PICK p \in Tightest(l, k) : \E s \in free[p] :
        /\ IsFirstFit(free[p], s, k, AlignUnits(req[t].align))
        /\ CarveAt(t, p, s, free[p], units[p], l)
  BY DEF SearchHit
<1>0. PICK s \in free[p] :
        /\ IsFirstFit(free[p], s, k, AlignUnits(req[t].align))
        /\ CarveAt(t, p, s, free[p], units[p], l)
  BY <1>p
<1> DEFINE b == [page |-> p, at |-> s, size |-> req[t].size, from |-> req[t].from]
<1>1. live' = live \cup {b} /\ blk' = [blk EXCEPT ![t] = b]
  BY <1>0 DEF CarveAt
<1>2. /\ req[t].size \in Sizes /\ req[t].size < PageSize
      /\ req[t].from \in Froms /\ req[t].from # "pages"
  BY DEF IInv, Requested, SearchHit
<1>3. p \in Pages /\ list[p] = l /\ l # "none"
  BY ListForType DEF Tightest, Roomy
<1>4. Exact(p) /\ free[p] \subseteq Offsets
  BY <1>3 DEF IInv, TypeOK, Listed, AllExact
<1>5. Extent(s, k) \subseteq free[p]
  BY <1>0 DEF IsFirstFit, Fits
<1>6. b \in Blocks /\ Body(b) = Extent(s, k) /\ s \in Body(b)
  BY <1>2, <1>3, <1>4, NewBlock
<1>7. \A c \in live : c.page = p => Body(c) \cap Body(b) = {}
  BY <1>4, <1>5, <1>6 DEF Exact, LiveOn
<1>8. Fresh(b)
  BY <1>4, <1>5, <1>6, <1>7 DEF Fresh
<1>9. ~ IsLarge(b) /\ blk[t] = NoBlock
  BY <1>2, SmallRequest DEF IInv, Handled, SearchHit
<1>10. free[p] = PageFree(p)
  BY <1>3, ListedFree
<1>11. Answers(t, b)
  BY <1>0, <1>1, <1>9, <1>10 DEF Answers
<1> QED
  BY <1>1, <1>8, <1>11

LEMMA CarveFresh ==
    ASSUME IInv, NEW t \in Threads, Carve(t)
    PROVE  \E b : Fresh(b) /\ live' = live \cup {b} /\ Answers(t, b)
<1> DEFINE k == UnitsFor(req[t].size)
           p == page[t]
<1>0. PICK s \in Offsets :
        /\ IsFirstFit(Offsets, s, k, AlignUnits(req[t].align))
        /\ CarveAt(t, p, s, Offsets, PageUnits, ListFor(req[t].size))
  BY DEF Carve
<1> DEFINE b == [page |-> p, at |-> s, size |-> req[t].size, from |-> req[t].from]
<1>1. live' = live \cup {b} /\ blk' = [blk EXCEPT ![t] = b]
  BY <1>0 DEF CarveAt
<1>2. /\ req[t].size \in Sizes /\ req[t].size < PageSize
      /\ req[t].from \in Froms /\ req[t].from # "pages"
      /\ p \in Pages /\ LiveOn(p) = {}
  BY DEF IInv, Requested, Transit, Carve
<1>3. Extent(s, k) \subseteq Offsets
  BY <1>0 DEF IsFirstFit, Fits
<1>4. b \in Blocks /\ Body(b) = Extent(s, k) /\ s \in Body(b)
  BY <1>2, NewBlock
<1>5. Fresh(b)
  BY <1>2, <1>3, <1>4 DEF Fresh, LiveOn
<1>6. ~ IsLarge(b) /\ blk[t] = NoBlock
  BY <1>2, SmallRequest DEF IInv, Handled, Carve
<1>7. Offsets = PageFree(p)
  BY <1>2 DEF PageFree
<1>8. Answers(t, b)
  BY <1>0, <1>1, <1>6, <1>7 DEF Answers
<1> QED
  BY <1>1, <1>5, <1>8

LEMMA AllocPagesFresh ==
    ASSUME IInv, NEW size \in Sizes, NEW from \in Froms,
           from = "pages" \/ size >= PageSize,
           AllocPages(size, from)
    PROVE  \E b : Fresh(b) /\ IsLarge(b) /\ live' = live \cup {b} /\ UNCHANGED blk
<1> PICK p \in Pages :
      /\ owner[p] = "buddy"
      /\ live' = live \cup {[page |-> p, at |-> 0, size |-> size, from |-> from]}
  BY DEF AllocPages
<1> DEFINE b == [page |-> p, at |-> 0, size |-> size, from |-> from]
<1>1. IsLarge(b) /\ b \in Blocks
  BY PagesAssumption DEF IsLarge, Blocks, Offsets
<1>2. Body(b) = Offsets /\ Offsets # {}
  <2>1. Body(b) = Offsets
    BY <1>1, LargeBody
  <2>2. 0 \in Offsets
    BY PagesAssumption DEF Offsets
  <2> QED
    BY <2>1, <2>2
<1>3. LiveOn(p) = {}
  BY BuddyEmpty
<1>4. Fresh(b)
  BY <1>1, <1>2, <1>3 DEF Fresh, LiveOn
<1> QED
  BY <1>1, <1>4 DEF AllocPages, locals

(* Every step adds a fresh block, takes one away or leaves the blocks alone; *)
(* a thread is given a block by a fresh allocation, or by a call to free it. *)
BlockStep ==
    \/ \E b : /\ Fresh(b) /\ live' = live \cup {b}
              /\ \/ IsLarge(b) /\ UNCHANGED blk
                 \/ \E t \in Threads : Answers(t, b)
    \/ /\ UNCHANGED live \/ \E b \in live : live' = live \ {b}
       /\ \A t \in Threads : blk'[t] \in {blk[t], NoBlock} \/ pc[t] = "idle"

LEMMA Returned ==
    ASSUME IInv, NEW t \in Threads, Return(t)
    PROVE  \A u \in Threads : blk'[u] \in {blk[u], NoBlock}
BY DEF IInv, TypeOK, Return

LEMMA CallStep ==
    ASSUME IInv, NEW t \in Threads, Call(t)
    PROVE  BlockStep
<1>0. PageSize \in Nat
  BY PagesAssumption DEF PageSize, SlobUnit
<1>1. pc[t] = "idle"
  BY DEF Call, Kmalloc, KmemCacheAlloc, Kfree, KmemCacheFree, KmemRcuFree
<1>2. ASSUME NEW size, NEW align, NEW from, StartAlloc(t, size, align, from)
      PROVE  BlockStep
  BY <1>2 DEF StartAlloc, BlockStep
<1>3. ASSUME NEW b, StartFree(t, b)
      PROVE  BlockStep
  BY <1>1, <1>3 DEF StartFree, BlockStep, IInv, TypeOK
<1>4. ASSUME NEW b \in live, FreePages(b)
      PROVE  BlockStep
  BY <1>4 DEF FreePages, BlockStep, locals
<1>5. ASSUME NEW size \in Sizes, NEW from \in Froms,
             from = "pages" \/ size >= PageSize, AllocPages(size, from)
      PROVE  BlockStep
  BY <1>5, AllocPagesFresh DEF BlockStep
<1>6. ASSUME NEW n \in KmallocSizes, Kmalloc(t, n)
      PROVE  BlockStep
  <2>1. n \in Sizes /\ "pages" \in Froms
    BY DEF Sizes, Froms
  <2> QED
    BY <1>2, <1>5, <1>6, <2>1 DEF Kmalloc
<1>7. ASSUME NEW c \in Caches, KmemCacheAlloc(t, c)
      PROVE  BlockStep
  <2>1. CacheFrom(c) \in Froms
    BY DEF CacheFrom, Froms
  <2>2. CacheBytes(c) \in Sizes /\ CacheBytes(c) \in Nat
    BY CacheSizes
  <2>3. CASE CacheBytes(c) < PageSize
    BY <1>2, <1>7, <2>3 DEF KmemCacheAlloc
  <2>4. CASE ~ (CacheBytes(c) < PageSize)
    <3>1. CacheBytes(c) >= PageSize
      BY <1>0, <2>2, <2>4
    <3> QED
      BY <1>5, <1>7, <2>1, <2>2, <2>4, <3>1 DEF KmemCacheAlloc
  <2> QED
    BY <2>3, <2>4
<1>8. ASSUME NEW b \in live, CacheFree(t, b)
      PROVE  BlockStep
  BY <1>3, <1>4, <1>8 DEF CacheFree
<1>9. ASSUME NEW b \in Held, Kfree(t, b) \/ KmemCacheFree(t, b)
      PROVE  BlockStep
  <2>1. b \in live
    BY DEF Held
  <2>2. CASE Kfree(t, b)
    BY <1>3, <1>4, <2>1, <2>2 DEF Kfree
  <2>3. CASE KmemCacheFree(t, b) /\ UNCHANGED <<live, locals>>
    BY <2>3 DEF BlockStep, locals
  <2> QED
    BY <1>8, <1>9, <2>1, <2>2, <2>3 DEF KmemCacheFree
<1>10. ASSUME NEW b \in rcu, KmemRcuFree(t, b)
       PROVE  BlockStep
  BY <1>8, <1>10 DEF KmemRcuFree, IInv, TypeOK
<1> QED
  BY <1>6, <1>7, <1>9, <1>10 DEF Call

LEMMA LockStep ==
    ASSUME IInv, NEW t \in Threads, Lock(t)
    PROVE  BlockStep
<1>1. CASE SearchHit(t)
  BY <1>1, SearchHitFresh DEF BlockStep
<1>2. CASE SearchMiss(t)
  BY <1>2 DEF SearchMiss, BlockStep
<1>3. CASE Carve(t)
  BY <1>3, CarveFresh DEF BlockStep
<1>4. CASE FreeLast(t)
  BY <1>4, FreedBlock DEF FreeLast, BlockStep, IInv, TypeOK
<1>5. CASE FreeOnFull(t)
  BY <1>5, FreedBlock, Returned DEF FreeOnFull, BlockStep
<1>6. CASE FreeMore(t)
  BY <1>6, FreedBlock, Returned DEF FreeMore, BlockStep
<1> QED
  BY <1>1, <1>2, <1>3, <1>4, <1>5, <1>6 DEF Lock

LEMMA RunStep ==
    ASSUME IInv, NEW t \in Threads, Run(t)
    PROVE  BlockStep
<1>1. CASE CountLoad(t) \/ CountStore(t) \/ CountPageLoad(t) \/ Release(t)
           \/ \E p \in Pages : Grow(t, p)
  <2>1. UNCHANGED <<live, blk>>
    BY <1>1 DEF CountLoad, CountStore, CountPageLoad, Release, Grow
  <2> QED
    BY <2>1 DEF BlockStep
<1>2. CASE CountLast(t)
  <2>1. UNCHANGED live /\ (UNCHANGED blk \/ Return(t))
    BY <1>2 DEF CountLast
  <2> QED
    BY <2>1, Returned DEF BlockStep
<1>3. CASE GrowFail(t) \/ CountPageStore(t)
  BY <1>3, Returned DEF GrowFail, CountPageStore, BlockStep
<1> QED
  BY <1>1, <1>2, <1>3 DEF Run

LEMMA EveryStep == IInv /\ [Next]_vars => BlockStep
<1>1. ASSUME UNCHANGED vars PROVE BlockStep
  BY <1>1 DEF vars, locals, BlockStep
<1> QED
  BY <1>1, CallStep, LockStep, RunStep DEF Next

(* TypeOK holds for every value of the constants. *)
THEOREM TypeCorrect == Spec => []TypeOK
BY Invariance, PTL DEF IInv

(* Whatever the threads do, the free units of every settled page are those  *)
(* of no live block, sp->units counts them and the lists go by that count.  *)
THEOREM PagesAlwaysExact == Spec => []PagesExact
<1>1. IInv => PagesExact
  <2> SUFFICES ASSUME IInv, NEW p \in Pages, Settled(p)
               PROVE  /\ free[p] = Offsets \ UNION {Body(b) : b \in LiveOn(p)}
                      /\ units[p] = Cardinality(free[p])
                      /\ list[p] # "none" <=> units[p] > 0
                      /\ LiveOn(p) # {}
    BY DEF PagesExact
  <2>1. Exact(p) /\ free[p] \subseteq Offsets
    BY DEF IInv, AllExact, TypeOK
  <2> QED
    BY <2>1 DEF Exact
<1> QED
  BY <1>1, Invariance, PTL

(* kfree's unlocked look at PageSlab always tells pages from blocks. *)
THEOREM AlwaysRoutable == Spec => []Routable
BY Invariance, PTL DEF IInv

(* Sizes of two lists never share a page. *)
THEOREM AlwaysOneClass == Spec => []OneClassPerPage
BY Invariance, PTL DEF IInv

(* No block handed out shares a unit with a block still owned. *)
THEOREM AlwaysFresh == Spec => FreshUnits
<1>1. IInv /\ [Next]_vars =>
        [\A t \in Threads : blk[t] = NoBlock /\ blk'[t] # NoBlock /\ pc[t] # "idle" =>
           \A c \in live : c.page = blk'[t].page => Body(c) \cap Body(blk'[t]) = {}]_vars
  <2> SUFFICES ASSUME IInv, [Next]_vars, NEW t \in Threads, blk[t] = NoBlock,
                      blk'[t] # NoBlock, pc[t] # "idle", NEW c \in live,
                      c.page = blk'[t].page
               PROVE  Body(c) \cap Body(blk'[t]) = {}
    OBVIOUS
  <2>1. \E b : Fresh(b) /\ blk'[t] = b
    BY EveryStep DEF BlockStep, Answers, IInv, TypeOK
  <2> QED
    BY <2>1 DEF Fresh
<1> QED
  BY <1>1, Invariance, PTL DEF Spec, FreshUnits

(* A block added, for a thread or by the page allocator, or taken away: what *)
(* each page's blocks make of it.                                            *)
LEMMA AnswerKept ==
    ASSUME IInv, NEW t \in Threads, NEW b, Fresh(b), Answers(t, b),
           live' = live \cup {b}, NEW p \in Pages
    PROVE  PagePromise(p)
<1> DEFINE x == [at |-> b.at, len |-> UnitsFor(b.size)]
<1>1. CASE p # b.page
  <2>1. LiveOn(p)' = LiveOn(p)
    BY <1>1 DEF LiveOn
  <2> QED
    BY <2>1 DEF PagePromise, BlocksOn, IsLarge
<1>2. CASE p = b.page
  <2>1. LiveOn(p)' = LiveOn(p) \cup {b} /\ b \notin live
    BY <1>2 DEF LiveOn, Fresh
  <2>2. BlocksOn(p)' = BlocksOn(p) \cup {x}
    BY <2>1 DEF BlocksOn, IsLarge, Answers
  <2>3. /\ x.len = Asked(t).units
        /\ IsFirstFit(PageFree(p), b.at, Asked(t).units, Asked(t).align)
    BY <1>2 DEF Answers, Asked
  <2>4. Page(p)!Carve(Asked(t), b.at)
    BY <2>2, <2>3, PageReads
  <2>5. blk'[t] = b /\ blk[t] = NoBlock /\ b.at \in Offsets
    BY DEF Answers, Fresh, Blocks, IInv, TypeOK
  <2>6. Given(t, p, b.at)
    BY <2>1, <2>4, <2>5 DEF Given
  <2> QED
    BY <2>5, <2>6 DEF PagePromise
<1> QED
  BY <1>1, <1>2

LEMMA LargeKept ==
    ASSUME NEW b, IsLarge(b), live' = live \cup {b}, NEW p
    PROVE  PagePromise(p)
<1>1. {c \in LiveOn(p) : ~ IsLarge(c)}' = {c \in LiveOn(p) : ~ IsLarge(c)}
  BY DEF LiveOn, IsLarge
<1> QED
  BY <1>1 DEF PagePromise, BlocksOn

LEMMA GivenBackKept ==
    ASSUME IInv, NEW b \in live, live' = live \ {b}, NEW p \in Pages
    PROVE  PagePromise(p)
<1> DEFINE R(c) == [at |-> c.at, len |-> UnitsFor(c.size)]
           S == {c \in LiveOn(p) : ~ IsLarge(c)}
<1>1. BlocksOn(p) = {R(c) : c \in S} /\ BlocksOn(p)' = {R(c) : c \in S \ {b}}
  BY DEF BlocksOn, LiveOn, IsLarge
<1>2. CASE b \notin S
  BY <1>1, <1>2 DEF PagePromise
<1>3. CASE b \in S
  <2>1. ASSUME NEW c \in S, c # b PROVE R(c) # R(b)
    <3>1. Body(b) = Extent(R(b).at, R(b).len) /\ Body(c) = Extent(R(c).at, R(c).len)
      BY <1>3 DEF Body
    <3>2. Body(b) \cap Body(c) = {} /\ Body(b) # {}
      BY <1>3, <2>1 DEF IInv, Disjoint, LiveOn
    <3> QED
      BY <3>1, <3>2
  <2>2. BlocksOn(p)' = BlocksOn(p) \ {R(b)} /\ R(b) \in BlocksOn(p)
    BY <1>1, <1>3, <2>1
  <2>3. Page(p)!GiveBack(R(b))
    BY <2>2, PageReads
  <2> QED
    BY <2>2, <2>3 DEF PagePromise
<1> QED
  BY <1>2, <1>3

(* A thread goes on from its search without a block only in SearchMiss. *)
LEMMA TurnedAway ==
    ASSUME IInv, NEW t \in Threads, EmptyHanded(t), Next
    PROVE  Turned(t)
<1> DEFINE n == UnitsFor(req[t].size)
           tight == Tightest(ListFor(req[t].size), n)
<1>1. SearchMiss(t)
  <2>1. PICK u \in Threads : Call(u) \/ Lock(u) \/ Run(u)
    BY DEF Next
  <2>2. ASSUME u # t PROVE FALSE
    <3>1. pc'[t] = pc[t]
      BY <2>1, <2>2 DEF IInv, TypeOK, Call, Kmalloc, KmemCacheAlloc, Kfree, KmemCacheFree,
           KmemRcuFree, CacheFree, StartAlloc, AllocPages, StartFree, FreePages, Lock,
           SearchHit, SearchMiss, Carve, FreeLast, FreeOnFull, FreeMore, Run, CountLoad,
           CountStore, CountLast, GrowFail, Grow, CountPageLoad, CountPageStore, Release,
           Return
    <3> QED
      BY <3>1 DEF EmptyHanded
  <2>3. SearchHit(t) \/ SearchMiss(t)
    BY <2>1, <2>2 DEF EmptyHanded, Call, Kmalloc, KmemCacheAlloc, Kfree, KmemCacheFree,
         KmemRcuFree, Lock, Carve, FreeLast, FreeOnFull, FreeMore, Run, CountLoad,
         CountStore, CountLast, GrowFail, Grow, CountPageLoad, CountPageStore, Release
  <2>4. ASSUME SearchHit(t) PROVE FALSE
    <3>1. PICK b : Fresh(b) /\ Answers(t, b)
      BY <2>4, SearchHitFresh
    <3>2. blk'[t] = b /\ b.page \in Pages
      BY <3>1 DEF Answers, Fresh, Blocks, IInv, TypeOK
    <3> QED
      BY <3>2, NoneAssumption DEF EmptyHanded, NoBlock
  <2> QED
    BY <2>3, <2>4
<1>2. CASE tight = {}
  BY <1>2 DEF Turned
<1>3. CASE tight # {}
  <2>1. PICK p \in tight : NoFit(free[p], n, AlignUnits(req[t].align))
    BY <1>1, <1>3 DEF SearchMiss
  <2>2. p \in Pages /\ list[p] # "none"
    BY <2>1, ListForType DEF Tightest, Roomy
  <2>3. NoFit(PageFree(p), Asked(t).units, Asked(t).align)
    BY <2>1, <2>2, ListedFree DEF Asked
  <2>4. Page(p)!NoRoom(Asked(t))
    BY <2>3, PageReads
  <2> QED
    BY <2>4 DEF Turned
<1> QED
  BY <1>2, <1>3

(* Every page keeps PageHeap's promise to whoever uses the allocator, though *)
(* any number of threads share its pages: what SlobPage proves of one page   *)
(* on its own is what Slob's callers get.                                    *)
THEOREM PromiseKept == Spec => PagesKeepPromise
<1>1. IInv /\ [Next]_vars =>
        [/\ \A p \in Pages : PagePromise(p)
         /\ \A t \in Threads : EmptyHanded(t) => Turned(t)]_vars
  <2> SUFFICES ASSUME IInv, Next
               PROVE  /\ \A p \in Pages : PagePromise(p)
                      /\ \A t \in Threads : EmptyHanded(t) => Turned(t)
    OBVIOUS
  <2>1. ASSUME NEW p \in Pages PROVE PagePromise(p)
    <3>1. CASE UNCHANGED live
      BY <3>1 DEF PagePromise, BlocksOn, LiveOn, IsLarge
    <3>2. CASE ~ UNCHANGED live
      BY <3>2, EveryStep, AnswerKept, LargeKept, GivenBackKept DEF BlockStep
    <3> QED
      BY <3>1, <3>2
  <2> QED
    BY <2>1, TurnedAway
<1> QED
  BY <1>1, Invariance, PTL DEF Spec, PagesKeepPromise

(* Slob implements the abstract heap: with a block read as the set of its   *)
(* units, every step is an allocation of unowned units, a free or neither.  *)
THEOREM Refinement == Spec => HeapSpec
<1> DEFINE U(b) == {b.page} \X Body(b)
           owned == {U(b) : b \in live}
<1>1. Init => AbstractHeap!Init
  BY DEF Init, AbstractHeap!Init
<1>2. IInv /\ BlockStep => [AbstractHeap!Next]_owned
  <2> SUFFICES ASSUME IInv, BlockStep PROVE AbstractHeap!Next \/ UNCHANGED owned
    OBVIOUS
  <2>1. ASSUME NEW b, Fresh(b), live' = live \cup {b}
        PROVE  AbstractHeap!Next
    <3>0. PICK u : u \in Body(b)
      BY <2>1 DEF Fresh
    <3>1. U(b) \in SUBSET (Pages \X Offsets) /\ U(b) # {}
      <4>1. b.page \in Pages /\ Body(b) \subseteq Offsets
        BY <2>1 DEF Fresh, Blocks
      <4>2. <<b.page, u>> \in U(b)
        BY <3>0
      <4> QED
        BY <4>1, <4>2
    <3>2. \A x \in owned : U(b) \cap x = {}
      BY <2>1 DEF Fresh
    <3>3. owned' = owned \cup {U(b)}
      BY <2>1 DEF Body, IsLarge
    <3> QED
      BY <3>1, <3>2, <3>3 DEF AbstractHeap!Next, AbstractHeap!Alloc
  <2>2. ASSUME NEW b \in live, live' = live \ {b}
        PROVE  AbstractHeap!Next
    <3>1. U(b) \in SUBSET (Pages \X Offsets) /\ U(b) \in owned
      BY DEF IInv, TypeOK, Blocks, Disjoint
    <3>2. ASSUME NEW c \in live, c # b PROVE U(c) # U(b)
      <4>1. PICK u : u \in Body(b)
        BY DEF IInv, Disjoint
      <4>2. <<b.page, u>> \in U(b)
        BY <4>1
      <4>3. <<b.page, u>> \notin U(c)
        BY <3>2, <4>1 DEF IInv, Disjoint
      <4> QED
        BY <4>2, <4>3
    <3>3. owned' = owned \ {U(b)}
      BY <2>2, <3>2 DEF Body, IsLarge
    <3> QED
      BY <3>1, <3>3 DEF AbstractHeap!Next, AbstractHeap!Free
  <2>3. ASSUME UNCHANGED live
        PROVE  UNCHANGED owned
    BY <2>3 DEF Body, IsLarge
  <2> QED
    BY <2>1, <2>2, <2>3 DEF BlockStep
<1> QED
  BY <1>1, <1>2, Invariance, EveryStep, PTL DEF Spec, HeapSpec, AbstractHeap!Spec
=============================================================================
