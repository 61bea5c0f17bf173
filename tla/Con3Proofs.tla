----------------------------- MODULE Con3Proofs -----------------------------
(* Proofs about Con3, for any number of searchers, inserters and rounds:     *)
(* every variable keeps its type, links lead on, and the deleter does not    *)
(* walk off the end of its list, which others are appending to, unless one   *)
(* of them has overwritten another's link.                                   *)
EXTENDS Con3, FiniteSetTheorems, SequenceTheorems, TLAPS

(* Where each kind of thread can be. *)
SearcherLabels == {"checkSearch", "wait", "counted", "search", "leaving",
                   "checkDelete", "checkDelete2", "done"}
InserterLabels == {"begin", "begin2", "wait", "end", "link", "value", "count", "print",
                   "printed", "checkDelete", "checkDelete2", "checkInsert",
                   "checkInsert2", "done"}
DeleterLabels == {"rest", "rest2", "wait", "measure", "top", "walk", "fetch", "unlink",
                  "deleted", "exit", "count", "print", "checkInsert", "checkInsert2",
                  "checkSearch"}
Labelled ==
    /\ pc \in [Threads -> Labels]
    /\ \A s \in Searchers : pc[s] \in SearcherLabels
    /\ \A i \in Inserters : pc[i] \in InserterLabels
    /\ pc[Deleter] \in DeleterLabels

(* Links lead to nodes that were allocated later. *)
Forward ==
    /\ next \in Seq(Nat) /\ Len(next) > 0
    /\ \A n \in Nodes : next[n] = 0 \/ next[n] \in n + 1 .. Len(next)

(* The variables whose values do not depend on each other. *)
Ranges ==
    /\ freed \in 0 .. Len(next)
    /\ sem_search \in Nat /\ sem_insert \in Nat /\ sem_delete \in 0 .. MaxNodes
    /\ state_insert \in BOOLEAN /\ state_delete \in BOOLEAN
    /\ search_count \in Int /\ num \in [Threads -> Int] /\ overwritten \in BOOLEAN
    /\ cursor \in [Threads -> 0 .. Len(next)]
    /\ list \in 0 .. Len(next) /\ prev \in 0 .. Len(next)
    /\ cnt \in 0 .. Len(next) /\ rdn \in 0 .. Len(next)
    /\ status \in {"running", "exited", "crashed"}

(* Who is in a round has a round to be in, and an inserter a node to append  *)
(* to.                                                                       *)
Inserting ==
    /\ left \in [Users -> Nat]
    /\ \A s \in Searchers : pc[s] \in {"checkSearch", "wait"} => left[s] > 0
    /\ \A i \in Inserters :
          /\ left[i] <= Inserts
          /\ pc[i] \in {"begin", "begin2", "wait"} => left[i] > 0
          /\ pc[i] \in {"end", "link"} => left[i] < Inserts
          /\ pc[i] \in {"end", "link", "value"} => cursor[i] # 0

(* The first node and those linked in the rounds that have got that far are  *)
(* all there are.                                                            *)
Linked == {r \in Inserters \X (1 .. Inserts) :
              r[2] > left[r[1]] + (IF pc[r[1]] \in {"end", "link"} THEN 1 ELSE 0)}
NodesExact == Len(next) = 1 + Cardinality(Linked)

(* The deleter counts no further than the node it looks at, and walks only   *)
(* in a list that has a first node.                                          *)
Deleting ==
    /\ pc[Deleter] = "measure" => cnt < cursor[Deleter]
    /\ pc[Deleter] # "measure" => cnt = 0
    /\ pc[Deleter] = "walk" => rdn > 0
    /\ pc[Deleter] \in {"fetch", "unlink"} =>
          prev # 0 /\ (cursor[Deleter] = 0 \/ cursor[Deleter] > prev)
    /\ list = 0 => pc[Deleter] \in {"deleted", "exit"}

Shape == Labelled /\ Forward /\ Ranges /\ Inserting /\ NodesExact /\ Deleting

(* The way the deleter has counted, or has still to walk.                    *)
Way(links, from, to, n) ==
    \E p \in [0 .. n -> 1 .. Len(links)] :
        /\ p[0] = from /\ p[n] = to
        /\ \A k \in 0 .. n - 1 : links[p[k]] = p[k + 1]

OnTheWay ==
    /\ pc[Deleter] = "measure" => Way(next, list, cursor[Deleter], cnt)
    /\ pc[Deleter] = "walk" => \E n \in Nodes : Way(next, cursor[Deleter], n, rdn)
    /\ pc[Deleter] = "fetch" => next[prev] = cursor[Deleter] /\ cursor[Deleter] # 0
    /\ pc[Deleter] = "unlink" => next[prev] # 0

(* It stays where it is as long as inserters link where nothing is linked.   *)
Safe == Shape /\ (~ overwritten => OnTheWay)

-----------------------------------------------------------------------------
(* There are finitely many threads of each kind, and none is of two kinds.   *)
LEMMA Kinds ==
    /\ IsFiniteSet(Inserters) /\ Cardinality(Inserters) \in Nat
    /\ Searchers \subseteq Threads /\ Inserters \subseteq Threads /\ Deleter \in Threads
    /\ Searchers \cap Inserters = {} /\ Deleter \notin Searchers \cup Inserters
    /\ Users = Searchers \cup Inserters
    /\ Inserts \in Nat \ {0} /\ Searches \in Nat \ {0} /\ MaxNodes \in Nat \ {0}
<1>1. IsFiniteSet(Inserters) /\ Cardinality(Inserters) \in Nat
  BY ThreadsAssumption, FS_Subset, FS_CardinalityType DEF Threads, Users
<1>2. Inserts * Cardinality(Inserters) \in Nat
  BY <1>1, RoundsAssumption
<1> QED
  BY <1>1, <1>2, ThreadsAssumption, RoundsAssumption DEF Threads, Users, MaxNodes

(* No more nodes are linked than there are rounds. *)
LEMMA LinkedBound ==
    /\ IsFiniteSet(Linked)
    /\ Cardinality(Linked) \in 0 .. MaxNodes - 1
<1> DEFINE All == Inserters \X (1 .. Inserts)
<1>1. IsFiniteSet(1 .. Inserts) /\ Cardinality(1 .. Inserts) = Inserts
  BY RoundsAssumption, FS_Interval
<1>2. IsFiniteSet(All) /\ Cardinality(All) = Cardinality(Inserters) * Inserts
  BY <1>1, Kinds, FS_Product
<1>3. Linked \subseteq All
  BY DEF Linked
<1>4. /\ IsFiniteSet(Linked) /\ Cardinality(Linked) \in Nat
      /\ Cardinality(Linked) <= Cardinality(All)
  <2> HIDE DEF All
  <2> QED
    BY <1>2, <1>3, FS_Subset, FS_CardinalityType
<1>5. Cardinality(All) = Inserts * Cardinality(Inserters)
  BY <1>2, Kinds
<1>6. Cardinality(All) \in Nat
  BY <1>2, FS_CardinalityType
<1> QED
  BY <1>4, <1>5, <1>6 DEF MaxNodes

(* What main sets up, and what is left when the process has ended. *)
Fresh ==
    /\ next = <<0>> /\ freed = 0 /\ overwritten = FALSE
    /\ sem_search = 0 /\ sem_insert = 0 /\ sem_delete = 0
    /\ state_insert = FALSE /\ state_delete = FALSE /\ search_count = 0
    /\ pc = Start /\ cursor = Zero /\ num = Zero
    /\ list = First /\ prev = 0 /\ cnt = 0 /\ rdn = 0
    /\ left = AllLeft
    /\ status \in {"running", "exited", "crashed"}

LEMMA FreshLabels ==
    ASSUME pc = Start
    PROVE  /\ pc \in [Threads -> Labels]
           /\ \A s \in Searchers : pc[s] = "checkSearch"
           /\ \A i \in Inserters : pc[i] = "begin"
           /\ pc[Deleter] = "rest"
BY Kinds DEF Start, Labels

LEMMA FreshSafe == Fresh => Safe
<1> SUFFICES ASSUME Fresh PROVE Safe
  OBVIOUS
<1> USE Kinds, FreshLabels DEF Fresh
<1>1. /\ next \in Seq(Nat) /\ Len(next) = 1 /\ next[1] = 0 /\ Nodes = {1}
  BY DEF Nodes
<1>2. Labelled
  BY DEF Labelled, SearcherLabels, InserterLabels, DeleterLabels
<1>3. Forward
  BY <1>1 DEF Forward
<1>4. Ranges
  <2>1. 0 \in 0 .. Len(next) /\ 1 \in 0 .. Len(next) /\ 0 \in 0 .. MaxNodes
    BY <1>1
  <2>2. cursor \in [Threads -> 0 .. Len(next)] /\ num \in [Threads -> Int]
    BY <2>1 DEF Zero
  <2>3. /\ freed \in 0 .. Len(next) /\ sem_search \in Nat /\ sem_insert \in Nat
        /\ sem_delete \in 0 .. MaxNodes /\ search_count \in Int
        /\ list \in 0 .. Len(next) /\ prev \in 0 .. Len(next)
        /\ cnt \in 0 .. Len(next) /\ rdn \in 0 .. Len(next)
    BY <2>1 DEF First
  <2>4. /\ state_insert \in BOOLEAN /\ state_delete \in BOOLEAN /\ overwritten \in BOOLEAN
        /\ status \in {"running", "exited", "crashed"}
    OBVIOUS
  <2> HIDE DEF Fresh
  <2> QED
    BY <2>2, <2>3, <2>4 DEF Ranges
<1>5. Inserting
  BY DEF Inserting, AllLeft
<1>6. Linked = {}
  BY DEF Linked, AllLeft
<1>7. NodesExact
  BY <1>1, <1>6, FS_EmptySet DEF NodesExact
<1>8. Deleting
  BY DEF Deleting, First
<1>9. OnTheWay
  BY DEF OnTheWay
<1> QED
  BY <1>2, <1>3, <1>4, <1>5, <1>7, <1>8, <1>9 DEF Safe, Shape

LEMMA FreshSafeNext == Fresh' => Safe'
BY FreshSafe, PTL

(* A process that ends leaves that. *)
LEMMA EndSafe ==
    ASSUME NEW s \in {"exited", "crashed"}, End(s)
    PROVE  Safe'
<1>1. Fresh'
  BY DEF End, Fresh, Start, Zero, AllLeft
<1> QED
  BY <1>1, FreshSafeNext

-----------------------------------------------------------------------------
(* A label that a thread of its kind can be at. *)
Fits(t, l) == \/ t \in Searchers /\ l \in SearcherLabels
              \/ t \in Inserters /\ l \in InserterLabels
              \/ t = Deleter /\ l \in DeleterLabels

LEMMA LabelledKept ==
    ASSUME Labelled, NEW t \in Threads, NEW l \in Labels, Goto(t, l), Fits(t, l)
    PROVE  Labelled'
<1>1. pc' = [pc EXCEPT ![t] = l] /\ pc \in [Threads -> Labels]
  BY DEF Goto, Labelled
<1>2. \A u \in Threads : pc'[u] = IF u = t THEN l ELSE pc[u]
  BY <1>1
<1> QED
  BY <1>1, <1>2, Kinds DEF Labelled, Fits

(* The links and who is about to link are what NodesExact is about. *)
LEMMA NodesExactKept ==
    ASSUME NodesExact, Len(next') = Len(next),
           \A i \in Inserters :
               /\ left'[i] = left[i]
               /\ pc'[i] \in {"end", "link"} <=> pc[i] \in {"end", "link"}
    PROVE  NodesExact'
<1>1. Linked' = Linked
  BY DEF Linked
<1> QED
  BY <1>1 DEF NodesExact

(* The deleter is not disturbed by others, whatever they link. *)
LEMMA DeletingKept ==
    ASSUME Deleting, pc'[Deleter] = pc[Deleter], cursor'[Deleter] = cursor[Deleter],
           UNCHANGED deleters
    PROVE  Deleting'
BY DEF Deleting, deleters

(* The inserters are not disturbed by the deleter, nor by each other.        *)
LEMMA InsertingKept ==
    ASSUME Inserting, UNCHANGED left,
           \A u \in Users : pc'[u] = pc[u] /\ cursor'[u] = cursor[u]
    PROVE  Inserting'
BY Kinds DEF Inserting

(* The labels at which a thread has nothing to do with the list, and a step  *)
(* from one such label to another.                                           *)
QuietLabels == Labels \ {"end", "link", "value", "measure", "walk", "fetch", "unlink"}
Quiet(t) ==
    /\ UNCHANGED <<nodes, cursor, deleters, status>>
    /\ left' \in [Users -> Nat] /\ \A u \in Users \ {t} : left'[u] = left[u]
    /\ t \in Inserters => left'[t] = left[t]
    /\ \E l \in QuietLabels :
          /\ Goto(t, l) /\ Fits(t, l)
          /\ t \in Inserters /\ l \in {"begin", "begin2", "wait"} => left[t] > 0
          /\ t \in Searchers /\ l \in {"checkSearch", "wait"} => left'[t] > 0
          /\ t = Deleter /\ list = 0 => l \in {"deleted", "exit"}
    /\ pc[t] \in QuietLabels
    /\ sem_search' \in Nat /\ sem_insert' \in Nat /\ sem_delete' \in 0 .. MaxNodes
    /\ state_insert' \in BOOLEAN /\ state_delete' \in BOOLEAN
    /\ search_count' \in Int /\ num' \in [Threads -> Int]

LEMMA QuietShape ==
    ASSUME Shape, NEW t \in Threads, Quiet(t)
    PROVE  Shape'
<1> USE DEF Shape
<1>1. PICK l \in QuietLabels :
          /\ Goto(t, l) /\ Fits(t, l)
          /\ t \in Inserters /\ l \in {"begin", "begin2", "wait"} => left[t] > 0
          /\ t \in Searchers /\ l \in {"checkSearch", "wait"} => left'[t] > 0
          /\ t = Deleter /\ list = 0 => l \in {"deleted", "exit"}
  BY DEF Quiet
<1>2. UNCHANGED <<next, freed, overwritten, cursor, list, prev, cnt, rdn, status>>
  BY DEF Quiet, nodes, deleters
<1>3. \A u \in Threads : pc'[u] = IF u = t THEN l ELSE pc[u]
  BY <1>1 DEF Goto, Labelled
<1>4. Labelled'
  BY <1>1, LabelledKept DEF QuietLabels
<1>5. Forward'
  BY <1>2 DEF Forward, Nodes
<1>6. Ranges'
  <2>1. /\ sem_search' \in Nat /\ sem_insert' \in Nat /\ sem_delete' \in 0 .. MaxNodes
        /\ state_insert' \in BOOLEAN /\ state_delete' \in BOOLEAN
        /\ search_count' \in Int /\ num' \in [Threads -> Int]
    BY DEF Quiet
  <2> QED
    BY <1>2, <2>1 DEF Ranges
<1>7. pc[t] \in QuietLabels
  BY DEF Quiet
<1>8. Inserting'
  <2>1. /\ left' \in [Users -> Nat] /\ \A u \in Users \ {t} : left'[u] = left[u]
        /\ t \in Inserters => left'[t] = left[t]
    BY DEF Quiet
  <2>2. \A i \in Inserters : left'[i] = left[i]
    BY <2>1, Kinds
  <2>3. \A u \in Searchers : pc'[u] \in {"checkSearch", "wait"} => left'[u] > 0
    BY <1>1, <1>3, <2>1, Kinds DEF Inserting
  <2> QED
    BY <1>1, <1>2, <1>3, <2>1, <2>2, <2>3, Kinds DEF Inserting, QuietLabels
<1>9. NodesExact'
  <2>1. \A i \in Inserters :
            /\ left'[i] = left[i]
            /\ pc'[i] \in {"end", "link"} <=> pc[i] \in {"end", "link"}
    BY <1>1, <1>3, <1>7, Kinds DEF QuietLabels, Quiet
  <2> QED
    BY <1>2, <2>1, NodesExactKept
<1>10. Deleting'
  BY <1>1, <1>2, <1>3, <1>7, Kinds DEF Deleting, QuietLabels
<1> QED
  BY <1>4, <1>5, <1>6, <1>8, <1>9, <1>10

(* A length is a number. *)
LEMMA LengthType ==
    ASSUME Shape, NEW n \in Int
    PROVE  Length(n) \in Nat
<1>1. IsFiniteSet(Nodes)
  BY LenProperties, FS_Interval DEF Shape, Forward, Nodes
<1>2. Reached(n) \subseteq Nodes
  BY DEF Reached
<1> QED
  BY <1>1, <1>2, FS_Subset, FS_CardinalityType DEF Length

(* check, but for the wakeups it gives, changes nothing but where a thread   *)
(* is.                                                                       *)
LEMMA CheckQuiet ==
    ASSUME Shape, NEW t \in Threads, Check(t)
    PROVE  Quiet(t)
<1> USE Kinds DEF Quiet, Fits, QuietLabels, Labels, SearcherLabels, InserterLabels,
                  DeleterLabels, flags, mine, sems
<1>1. /\ sem_search \in Nat /\ sem_insert \in Nat /\ sem_delete \in 0 .. MaxNodes
      /\ state_insert \in BOOLEAN /\ state_delete \in BOOLEAN
      /\ search_count \in Int /\ num \in [Threads -> Int] /\ left \in [Users -> Nat]
  BY DEF Shape, Ranges, Inserting
<1>2. t \in Searchers => pc[t] \in SearcherLabels
  BY DEF Shape, Labelled
<1>3. t \in Inserters => pc[t] \in InserterLabels
  BY DEF Shape, Labelled
<1>4. t = Deleter => pc[t] \in DeleterLabels
  BY DEF Shape, Labelled
<1>5. t \in Searchers \/ t \in Inserters \/ t = Deleter
  BY DEF Threads
<1>6. t \in Searchers /\ pc[t] \in {"checkSearch", "wait"} => left[t] > 0
  BY DEF Shape, Inserting
<1>7. t = Deleter /\ list = 0 => pc[t] \in {"deleted", "exit"}
  BY DEF Shape, Deleting
<1>8. CASE CheckInsert(t)
  <2>1. AfterInsert(t) \in QuietLabels /\ Fits(t, AfterInsert(t))
    BY <1>2, <1>3, <1>4, <1>5, <1>8 DEF CheckInsert, AfterInsert, Again
  <2> QED
    BY <1>1, <1>2, <1>3, <1>4, <1>5, <1>6, <1>7, <1>8, <2>1 DEF CheckInsert, AfterInsert, Again
<1>9. CASE CheckInsert2(t)
  <2>1. AfterInsert(t) \in QuietLabels /\ Fits(t, AfterInsert(t))
    BY <1>2, <1>3, <1>4, <1>5, <1>9 DEF CheckInsert2, AfterInsert, Again
  <2>2. sem_insert' \in Nat
    BY <1>1, <1>9 DEF CheckInsert2, PostInsert, Posted
  <2> QED
    BY <1>1, <1>2, <1>3, <1>4, <1>5, <1>6, <1>7, <1>9, <2>1, <2>2
       DEF CheckInsert2, AfterInsert, Again
<1>10. CASE CheckSearch(t)
  <2>1. sem_search' \in Nat
    BY <1>1, <1>10 DEF CheckSearch, PostSearch, Posted
  <2> QED
    BY <1>1, <1>2, <1>3, <1>4, <1>5, <1>6, <1>7, <1>10, <2>1 DEF CheckSearch, AfterSearch
<1>11. CASE CheckDelete(t) \/ CheckDelete2(t)
  <2>1. pc[t] \in {"checkDelete", "checkDelete2"} /\ t # Deleter
    BY <1>4, <1>11 DEF CheckDelete, CheckDelete2
  <2>2. /\ AfterDelete(t) \in QuietLabels /\ Fits(t, AfterDelete(t))
        /\ t \in Inserters => AfterDelete(t) = "checkInsert"
        /\ t \in Searchers /\ AfterDelete(t) \in {"checkSearch", "wait"} => left[t] > 0
    BY <1>5, <2>1 DEF AfterDelete, Again
  <2>3. sem_delete' \in 0 .. MaxNodes
    BY <1>1, <1>11 DEF CheckDelete, CheckDelete2, PostDelete, Posted
  <2>4. PICK l \in {"checkDelete2", AfterDelete(t)} : Goto(t, l)
    BY <1>11 DEF CheckDelete, CheckDelete2
  <2>5. /\ UNCHANGED <<nodes, cursor, deleters, status, left, sem_search, sem_insert>>
        /\ UNCHANGED <<state_insert, state_delete, search_count, num>>
    BY <1>11 DEF CheckDelete, CheckDelete2
  <2>6. /\ l \in QuietLabels /\ Fits(t, l)
        /\ t \in Inserters => l \notin {"begin", "begin2", "wait"}
        /\ t \in Searchers /\ l \in {"checkSearch", "wait"} => left[t] > 0
    BY <1>5, <2>1, <2>2, <2>4
  <2> QED
    BY <1>1, <2>1, <2>3, <2>4, <2>5, <2>6
<1> QED
  BY <1>8, <1>9, <1>10, <1>11 DEF Check

(* The search itself, the printing, and the looks at the flags before a wait *)
(* are as quiet.                                                             *)
LEMMA OtherQuiet ==
    ASSUME Shape, NEW t \in Threads,
           \/ SearchStep(t) \/ LookForInserter(t) \/ LookForDeleter(t) \/ LeaveInsert(t)
           \/ CountNodes(t)
           \/ PrintNodes(t) /\ ~ Crash
           \/ t = Deleter /\ (LookForSearchers \/ LookForInserters \/ LeaveDelete)
    PROVE  Quiet(t)
<1> USE Kinds DEF Quiet, Fits, QuietLabels, Labels, SearcherLabels, InserterLabels,
                  DeleterLabels, flags, mine, sems
<1>0. t = Deleter => t \notin Searchers /\ t \notin Inserters
  OBVIOUS
<1>1. /\ sem_search \in Nat /\ sem_insert \in Nat /\ sem_delete \in 0 .. MaxNodes
      /\ state_insert \in BOOLEAN /\ state_delete \in BOOLEAN
      /\ search_count \in Int /\ num \in [Threads -> Int] /\ left \in [Users -> Nat]
  BY DEF Shape, Ranges, Inserting
<1>2. t \in Searchers => pc[t] \in SearcherLabels
  BY DEF Shape, Labelled
<1>3. t \in Inserters => pc[t] \in InserterLabels
  BY DEF Shape, Labelled
<1>4. t = Deleter => pc[t] \in DeleterLabels
  BY DEF Shape, Labelled
<1>5. t \in Searchers \/ t \in Inserters \/ t = Deleter
  BY DEF Threads
<1>6. /\ t \in Inserters /\ pc[t] \in {"begin", "begin2"} => left[t] > 0
      /\ t \in Searchers /\ pc[t] \in {"checkSearch", "wait"} => left[t] > 0
  BY DEF Shape, Inserting
<1>7. t = Deleter /\ list = 0 => pc[t] \in {"deleted", "exit"}
  BY DEF Shape, Deleting
<1> HIDE Kinds
<1> USE ThreadsAssumption
<1>8. CASE EnterSearch(t)
  <2>1. /\ t \in Users /\ t \notin Inserters /\ t # Deleter /\ left[t] - 1 \in Nat
        /\ left' = [left EXCEPT ![t] = left[t] - 1]
    BY <1>1, <1>6, <1>8, Kinds DEF EnterSearch
  <2>2. left' \in [Users -> Nat] /\ \A u \in Users \ {t} : left'[u] = left[u]
    BY <1>1, <2>1
  <2> QED
    BY <1>1, <1>8, <2>1, <2>2 DEF EnterSearch
<1>9. CASE CountIn(t)
  BY <1>1, <1>2, <1>3, <1>4, <1>5, <1>9 DEF CountIn
<1>10. CASE LeaveSearch(t)
  BY <1>1, <1>2, <1>3, <1>4, <1>5, <1>10 DEF LeaveSearch
<1>11. CASE CountOut(t)
  BY <1>1, <1>2, <1>3, <1>4, <1>5, <1>11 DEF CountOut
<1>12. CASE LookForInserter(t)
  BY <1>1, <1>2, <1>3, <1>4, <1>5, <1>6, <1>12 DEF LookForInserter
<1>13. CASE LookForDeleter(t)
  <2>1. sem_insert' \in Nat
    BY <1>1, <1>13 DEF LookForDeleter, PostInsert, Posted
  <2> QED
    BY <1>1, <1>2, <1>3, <1>4, <1>5, <1>6, <1>13, <2>1 DEF LookForDeleter
<1>14. CASE LeaveInsert(t)
  <2>1. t \in Inserters /\ t \notin Searchers /\ t # Deleter
    BY <1>14, Kinds DEF LeaveInsert
  <2> QED
    BY <1>1, <1>14, <2>1 DEF LeaveInsert
<1>15. CASE CountNodes(t)
  <2>1. Length(Top(t)) \in Nat
    <3>1. Top(t) \in Int
      BY LenProperties DEF Top, First, Shape, Ranges, Forward
    <3> QED
      BY <3>1, LengthType
  <2> QED
    BY <1>1, <1>2, <1>3, <1>4, <1>5, <1>7, <1>15, <2>1 DEF CountNodes
<1>16. CASE PrintNodes(t) /\ ~ Crash
  BY <1>1, <1>2, <1>3, <1>4, <1>5, <1>7, <1>16 DEF PrintNodes
<1>17. CASE t = Deleter /\ LookForSearchers
  BY <1>1, <1>7, <1>17, <1>0 DEF LookForSearchers
<1>18. CASE t = Deleter /\ LookForInserters
  <2>1. sem_delete' \in 0 .. MaxNodes
    BY <1>1, <1>18, Kinds DEF LookForInserters, PostDelete, Posted
  <2> QED
    BY <1>1, <1>7, <1>18, <1>0, <2>1 DEF LookForInserters
<1>19. CASE t = Deleter /\ LeaveDelete
  BY <1>1, <1>4, <1>7, <1>19 DEF LeaveDelete
<1> QED
  BY <1>8, <1>9, <1>10, <1>11, <1>12, <1>13, <1>14, <1>15, <1>16, <1>17, <1>18, <1>19
     DEF SearchStep

(* The links after a node is appended to c. *)
LEMMA LinkedAfter ==
    ASSUME Forward, NEW c \in Nodes,
           next' = Append([next EXCEPT ![c] = Len(next) + 1], 0)
    PROVE  /\ next' \in Seq(Nat) /\ Len(next') = Len(next) + 1
           /\ \A n \in Nodes : next'[n] = IF n = c THEN Len(next) + 1 ELSE next[n]
           /\ next'[Len(next) + 1] = 0
           /\ Forward'
<1> DEFINE changed == [next EXCEPT ![c] = Len(next) + 1]
<1>1. next \in Seq(Nat) /\ Len(next) \in Nat \ {0} /\ c \in 1 .. Len(next)
  BY LenProperties DEF Forward, Nodes
<1>2. /\ changed \in Seq(Nat) /\ Len(changed) = Len(next)
      /\ \A n \in Nodes : changed[n] = IF n = c THEN Len(next) + 1 ELSE next[n]
  BY <1>1, ExceptSeq DEF Nodes
<1> HIDE DEF changed
<1>3. /\ Append(changed, 0) \in Seq(Nat) /\ Len(Append(changed, 0)) = Len(changed) + 1
      /\ \A n \in 1 .. Len(changed) : Append(changed, 0)[n] = changed[n]
      /\ Append(changed, 0)[Len(changed) + 1] = 0
  BY <1>2, AppendProperties
<1>4. next' = Append(changed, 0)
  BY DEF changed
<1>5. /\ next' \in Seq(Nat) /\ Len(next') = Len(next) + 1
      /\ \A n \in Nodes : next'[n] = IF n = c THEN Len(next) + 1 ELSE next[n]
      /\ next'[Len(next) + 1] = 0
  BY <1>2, <1>3, <1>4 DEF Nodes
<1>6. Forward'
  <2> SUFFICES ASSUME NEW n \in 1 .. Len(next) + 1
               PROVE  next'[n] = 0 \/ next'[n] \in n + 1 .. Len(next')
    BY <1>1, <1>5 DEF Forward, Nodes
  <2>2. CASE n = Len(next) + 1
    BY <1>5, <2>2
  <2>3. CASE n \in Nodes
    BY <1>1, <1>5, <2>3 DEF Forward, Nodes
  <2> QED
    BY <1>1, <2>2, <2>3 DEF Nodes
<1> QED
  BY <1>5, <1>6

(* An inserter's steps in a round. *)
LEMMA EnterInsertShape ==
    ASSUME Shape, NEW t \in Threads, EnterInsert(t)
    PROVE  Shape'
<1> USE Kinds DEF Shape, EnterInsert, Goto, Point
<1>1. /\ t \in Inserters /\ pc[t] = "wait" /\ left[t] \in 1 .. Inserts
      /\ pc' = [pc EXCEPT ![t] = "end"] /\ cursor' = [cursor EXCEPT ![t] = First]
      /\ left' = [left EXCEPT ![t] = left[t] - 1]
      /\ UNCHANGED <<next, freed, overwritten, list, prev, cnt, rdn>>
  <2>1. t \in Inserters /\ pc[t] = "wait" /\ left[t] \in Nat
    BY DEF Inserting
  <2> QED
    BY <2>1 DEF Inserting, nodes, deleters
<1>2. \A u \in Threads : pc'[u] = IF u = t THEN "end" ELSE pc[u]
  BY <1>1 DEF Labelled
<1>3. \A u \in Threads : cursor'[u] = IF u = t THEN First ELSE cursor[u]
  BY <1>1 DEF Ranges
<1>4. \A u \in Users : left'[u] = IF u = t THEN left[t] - 1 ELSE left[u]
  BY <1>1 DEF Inserting
<1>5. Labelled'
  BY <1>1, LabelledKept DEF Fits, InserterLabels, Labels
<1>6. Forward'
  BY <1>1 DEF Forward, Nodes
<1>7. Len(next) \in Nat /\ First \in 0 .. Len(next)
  BY LenProperties DEF Forward, First
<1>8. Ranges'
  <2>1. cursor' \in [Threads -> 0 .. Len(next)]
    BY <1>1, <1>7 DEF Ranges
  <2>2. sem_insert' \in Nat
    BY DEF Ranges
  <2>3. /\ UNCHANGED <<sem_search, sem_delete, state_delete, search_count, num, status, next>>
        /\ state_insert' = TRUE
    BY <1>1
  <2> QED
    BY <1>1, <2>1, <2>2, <2>3 DEF Ranges
<1>9. Inserting'
  <2>1. left' \in [Users -> Nat]
    BY <1>1, <1>4 DEF Inserting
  <2> QED
    BY <1>1, <1>2, <1>3, <1>4, <2>1 DEF Inserting, First
<1>10. NodesExact'
  <2>1. \A i \in Inserters :
            left'[i] + (IF pc'[i] \in {"end", "link"} THEN 1 ELSE 0)
          = left[i] + (IF pc[i] \in {"end", "link"} THEN 1 ELSE 0)
    BY <1>1, <1>2, <1>4
  <2>2. Linked' = Linked
    BY <2>1 DEF Linked
  <2> QED
    BY <1>1, <2>2 DEF NodesExact
<1>11. Deleting'
  BY <1>1, <1>2, <1>3, DeletingKept DEF deleters
<1> QED
  BY <1>5, <1>6, <1>8, <1>9, <1>10, <1>11

LEMMA FindEndShape ==
    ASSUME Shape, NEW t \in Threads, FindEnd(t)
    PROVE  Shape'
<1> USE Kinds DEF Shape, FindEnd
<1>1. t \in Inserters /\ pc[t] = "end" /\ cursor[t] \in Nodes
  <2>1. t \in Inserters /\ pc[t] = "end"
    BY DEF Labelled, SearcherLabels, DeleterLabels, Threads
  <2> QED
    BY <2>1, LenProperties DEF Inserting, Ranges, Forward, Nodes
<1>2. UNCHANGED <<next, freed, overwritten, sems, flags, num, list, prev, cnt, rdn, left, status>>
  BY DEF nodes, deleters
<1>3. PICK l \in {"end", "link"}, c \in 0 .. Len(next) :
          /\ pc' = [pc EXCEPT ![t] = l] /\ cursor' = [cursor EXCEPT ![t] = c] /\ c # 0
  <2>1. CASE next[cursor[t]] # 0
    <3>1. /\ next[cursor[t]] \in 0 .. Len(next)
          /\ cursor' = [cursor EXCEPT ![t] = next[cursor[t]]]
      BY <1>1, <2>1 DEF Forward, Nodes, Point
    <3>2. pc' = [pc EXCEPT ![t] = "end"]
      BY <1>1, <2>1 DEF Labelled
    <3> QED
      BY <2>1, <3>1, <3>2
  <2>2. CASE next[cursor[t]] = 0
    <3>1. cursor' = [cursor EXCEPT ![t] = cursor[t]] /\ cursor[t] \in 0 .. Len(next)
      BY <2>2 DEF Ranges
    <3>2. pc' = [pc EXCEPT ![t] = "link"]
      BY <2>2 DEF Goto
    <3>3. cursor[t] # 0
      BY <1>1 DEF Nodes
    <3> QED
      BY <3>1, <3>2, <3>3
  <2> QED
    BY <2>1, <2>2
<1>4. \A u \in Threads : pc'[u] = IF u = t THEN l ELSE pc[u]
  BY <1>3 DEF Labelled
<1>5. \A u \in Threads : cursor'[u] = IF u = t THEN c ELSE cursor[u]
  BY <1>3 DEF Ranges
<1>6. Labelled'
  BY <1>1, <1>3, LabelledKept DEF Goto, Fits, InserterLabels, Labels
<1>7. Forward'
  BY <1>2 DEF Forward, Nodes
<1>8. Ranges'
  <2>1. cursor' \in [Threads -> 0 .. Len(next)]
    BY <1>3 DEF Ranges
  <2>2. UNCHANGED <<sem_search, sem_insert, sem_delete, state_insert, state_delete,
                    search_count>>
    BY <1>2 DEF sems, flags
  <2> QED
    BY <1>2, <2>1, <2>2 DEF Ranges
<1>9. Inserting'
  BY <1>1, <1>2, <1>3, <1>4, <1>5 DEF Inserting
<1>10. NodesExact'
  BY <1>1, <1>2, <1>3, <1>4, NodesExactKept
<1>11. Deleting'
  BY <1>1, <1>2, <1>4, <1>5, DeletingKept DEF deleters
<1> QED
  BY <1>6, <1>7, <1>8, <1>9, <1>10, <1>11

LEMMA LinkShape ==
    ASSUME Shape, NEW t \in Threads, Link(t)
    PROVE  Shape'
<1> USE Kinds DEF Shape, Link
<1>1. t \in Inserters /\ pc[t] = "link" /\ cursor[t] \in Nodes
  <2>1. t \in Inserters /\ pc[t] = "link"
    BY DEF Labelled, SearcherLabels, DeleterLabels, Threads
  <2> QED
    BY <2>1, LenProperties DEF Inserting, Ranges, Forward, Nodes
<1>2. /\ pc' = [pc EXCEPT ![t] = "value"]
      /\ UNCHANGED <<freed, sems, flags, cursor, num, list, prev, cnt, rdn, left, status>>
  BY DEF mine, deleters, Goto
<1>3. next' \in Seq(Nat) /\ Len(next') = Len(next) + 1 /\ Forward'
  BY <1>1, LinkedAfter DEF NewNext
<1>4. \A u \in Threads : pc'[u] = IF u = t THEN "value" ELSE pc[u]
  BY <1>2 DEF Labelled
<1>5. Len(next) \in Nat
  BY LenProperties DEF Forward
<1>6. Labelled'
  BY <1>1, LabelledKept DEF Fits, InserterLabels, Labels
<1>7. Ranges'
  <2>1. UNCHANGED <<sem_search, sem_insert, sem_delete, state_insert, state_delete,
                    search_count>>
    BY <1>2 DEF sems, flags
  <2>3. overwritten' \in BOOLEAN
    OBVIOUS
  <2>2. cursor' \in [Threads -> 0 .. Len(next')]
    <3>1. \A u \in Threads : cursor[u] \in 0 .. Len(next')
      BY <1>3, <1>5 DEF Ranges
    <3> QED
      BY <1>2, <3>1 DEF Ranges
  <2>4. /\ freed' \in 0 .. Len(next') /\ list' \in 0 .. Len(next') /\ prev' \in 0 .. Len(next')
        /\ cnt' \in 0 .. Len(next') /\ rdn' \in 0 .. Len(next')
    BY <1>2, <1>3, <1>5 DEF Ranges
  <2>5. /\ sem_search' \in Nat /\ sem_insert' \in Nat /\ sem_delete' \in 0 .. MaxNodes
        /\ state_insert' \in BOOLEAN /\ state_delete' \in BOOLEAN
        /\ search_count' \in Int /\ num' \in [Threads -> Int]
        /\ status' \in {"running", "exited", "crashed"}
    BY <1>2, <2>1 DEF Ranges
  <2> HIDE DEF Link
  <2> QED
    BY <2>2, <2>3, <2>4, <2>5 DEF Ranges
<1>8. Inserting'
  BY <1>1, <1>2, <1>4 DEF Inserting
<1>9. NodesExact'
  <2>1. left[t] + 1 \in 1 .. Inserts
    BY <1>1 DEF Inserting
  <2>2. \A i \in Inserters : left[i] \in Nat
    BY DEF Inserting
  <2>3. \A i \in Inserters, k \in 1 .. Inserts :
          <<i, k>> \in Linked' <=> <<i, k>> \in Linked \/ (i = t /\ k = left[t] + 1)
    BY <1>1, <1>2, <1>4, <2>1, <2>2 DEF Linked
  <2>4. <<t, left[t] + 1>> \notin Linked
    BY <1>1, <2>1 DEF Linked
  <2>5. Linked' = Linked \cup {<<t, left[t] + 1>>}
    <3>1. /\ Linked \subseteq Inserters \X (1 .. Inserts)
          /\ Linked' \subseteq Inserters \X (1 .. Inserts)
          /\ <<t, left[t] + 1>> \in Inserters \X (1 .. Inserts)
      BY <1>1, <2>1 DEF Linked
    <3> QED
      BY <2>3, <3>1
  <2>6. Cardinality(Linked') = Cardinality(Linked) + 1
    BY <2>4, <2>5, LinkedBound, FS_AddElement
  <2> QED
    BY <1>3, <1>5, <2>6, LinkedBound DEF NodesExact
<1>10. Deleting'
  BY <1>1, <1>2, <1>4, DeletingKept DEF deleters
<1> QED
  BY <1>3, <1>6, <1>7, <1>8, <1>9, <1>10

LEMMA SetValueShape ==
    ASSUME Shape, NEW t \in Threads, SetValue(t), ~ Crash
    PROVE  Shape'
<1> USE Kinds DEF Shape, SetValue
<1>1. t \in Inserters /\ pc[t] = "value"
  BY DEF Labelled, SearcherLabels, DeleterLabels, Threads
<1>2. /\ cursor' = [cursor EXCEPT ![t] = 0] /\ pc' = [pc EXCEPT ![t] = "count"]
      /\ UNCHANGED <<next, freed, overwritten, sems, flags, num, list, prev, cnt, rdn, left, status>>
  BY DEF nodes, deleters, Goto, Point
<1>3. \A u \in Threads : pc'[u] = IF u = t THEN "count" ELSE pc[u]
  BY <1>2 DEF Labelled
<1>4. \A u \in Threads : cursor'[u] = IF u = t THEN 0 ELSE cursor[u]
  BY <1>2 DEF Ranges
<1>5. Labelled'
  BY <1>1, <1>2, LabelledKept DEF Goto, Fits, InserterLabels, Labels
<1>6. Forward'
  BY <1>2 DEF Forward, Nodes
<1>7. Ranges'
  <2>1. UNCHANGED <<sem_search, sem_insert, sem_delete, state_insert, state_delete,
                    search_count>>
    BY <1>2 DEF sems, flags
  <2>2. cursor' \in [Threads -> 0 .. Len(next)]
    BY <1>2, LenProperties DEF Ranges, Forward
  <2> QED
    BY <1>2, <2>1, <2>2 DEF Ranges
<1>8. Inserting'
  BY <1>1, <1>2, <1>3, <1>4 DEF Inserting
<1>9. NodesExact'
  BY <1>1, <1>2, <1>3, NodesExactKept
<1>10. Deleting'
  BY <1>1, <1>2, <1>3, <1>4, DeletingKept DEF deleters
<1> QED
  BY <1>5, <1>6, <1>7, <1>8, <1>9, <1>10

(* What the deleter's steps have in common. *)
LEMMA DeleterMoves ==
    ASSUME Shape, NEW l \in DeleterLabels, NEW c \in 0 .. Len(next),
           Goto(Deleter, l), Point(Deleter, c),
           Forward', Len(next') = Len(next),
           sem_delete' \in 0 .. MaxNodes, state_delete' \in BOOLEAN,
           freed' \in 0 .. Len(next), list' \in 0 .. Len(next), prev' \in 0 .. Len(next),
           cnt' \in 0 .. Len(next), rdn' \in 0 .. Len(next),
           UNCHANGED <<overwritten, sem_search, sem_insert, state_insert, search_count, num,
                       left, status>>,
           Deleting'
    PROVE  Shape'
<1> USE Kinds DEF Shape, Goto, Point
<1>1. \A u \in Threads : pc'[u] = IF u = Deleter THEN l ELSE pc[u]
  BY DEF Labelled
<1>2. \A u \in Threads : cursor'[u] = IF u = Deleter THEN c ELSE cursor[u]
  BY DEF Ranges
<1>3. Labelled'
  BY LabelledKept DEF Fits, DeleterLabels, Labels
<1>4. Ranges'
  <2>1. cursor' \in [Threads -> 0 .. Len(next)]
    BY DEF Ranges
  <2> QED
    BY <2>1 DEF Ranges
<1>5. Inserting'
  BY <1>1, <1>2, InsertingKept DEF Users
<1>6. NodesExact'
  BY <1>1, NodesExactKept
<1> QED
  BY <1>3, <1>4, <1>5, <1>6

(* What the deleter's variables are between its steps. *)
LEMMA DeleterRanges ==
    ASSUME Shape
    PROVE  /\ sem_delete \in 0 .. MaxNodes /\ state_delete \in BOOLEAN
           /\ Len(next) \in Nat \ {0}
           /\ freed \in 0 .. Len(next) /\ list \in 0 .. Len(next) /\ prev \in 0 .. Len(next)
           /\ cnt \in 0 .. Len(next) /\ rdn \in 0 .. Len(next)
           /\ cursor[Deleter] \in 0 .. Len(next)
           /\ Forward
           /\ \A n \in Nodes : next[n] \in 0 .. Len(next) /\ (next[n] = 0 \/ next[n] > n)
<1>1. Len(next) \in Nat \ {0}
  BY LenProperties DEF Shape, Forward
<1>2. \A n \in Nodes : next[n] \in 0 .. Len(next) /\ (next[n] = 0 \/ next[n] > n)
  BY <1>1 DEF Shape, Forward, Nodes
<1> QED
  BY <1>1, <1>2, Kinds DEF Shape, Ranges

LEMMA ForwardKept == ASSUME Forward, next' = next PROVE Forward'
BY DEF Forward, Nodes

(* The deleter's steps in the list, whatever inserters do to it meanwhile.   *)
LEMMA DeleteShape ==
    ASSUME Shape,
           \/ EnterDelete \/ Measure \/ (Walk /\ ~ Crash) \/ (Fetch /\ ~ Crash)
           \/ Unlink \/ DeleteTop
    PROVE  Shape'
<1> USE Kinds DEF sems, flags, nodes, deleters
<1>0. Deleting /\ cursor \in [Threads -> 0 .. Len(next)] /\ pc \in [Threads -> Labels]
  BY DEF Shape, Ranges, Labelled
<1>1. CASE EnterDelete
  <2>1. /\ pc[Deleter] = "wait" /\ list # 0 /\ cnt = 0 /\ sem_delete' = sem_delete - 1
        /\ sem_delete > 0 /\ state_delete' = TRUE
        /\ Goto(Deleter, "measure") /\ Point(Deleter, list)
        /\ UNCHANGED <<next, freed, overwritten, search_count, num, sem_search, sem_insert, state_insert, list, prev, cnt,
                       rdn, left, status>>
    BY <1>0, <1>1 DEF EnterDelete, Deleting
  <2>2. pc'[Deleter] = "measure" /\ cursor'[Deleter] = list
    BY <1>0, <2>1 DEF Goto, Point
  <2>3. Deleting'
    BY <2>1, <2>2, DeleterRanges DEF Deleting
  <2>4. Forward'
    BY <2>1, DeleterRanges, ForwardKept
  <2>5. sem_delete' \in 0 .. MaxNodes
    BY <2>1, DeleterRanges
  <2>6. "measure" \in DeleterLabels
    BY DEF DeleterLabels
  <2> QED
    BY <2>1, <2>3, <2>4, <2>5, <2>6, DeleterRanges, DeleterMoves
<1>2. CASE Measure
  <2> DEFINE c == cursor[Deleter]
             n == next[c]
  <2>1. pc[Deleter] = "measure" /\ cnt < c /\ c \in Nodes /\ list # 0
    BY <1>0, <1>2, DeleterRanges DEF Measure, Deleting, Nodes
  <2>2. /\ UNCHANGED <<next, freed, overwritten, search_count, num, sem_search, sem_insert, sem_delete, state_insert,
                       state_delete, list, prev, left, status>>
    BY <1>2 DEF Measure
  <2>3. Forward'
    BY <2>2, DeleterRanges, ForwardKept
  <2>4. CASE n # 0
    <3>1. cnt' = cnt + 1 /\ Point(Deleter, n) /\ UNCHANGED <<pc, rdn>>
      BY <1>2, <2>4 DEF Measure
    <3>2. n \in 0 .. Len(next) /\ n > c
      BY <2>1, <2>4, DeleterRanges
    <3>3. cursor'[Deleter] = n /\ Goto(Deleter, "measure")
      BY <1>0, <2>1, <3>1 DEF Point, Goto
    <3>4. cnt' \in 0 .. Len(next) /\ cnt' < n
      BY <2>1, <3>1, <3>2, DeleterRanges
    <3>5. Deleting'
      BY <2>1, <2>2, <3>1, <3>3, <3>4 DEF Deleting
    <3>6. "measure" \in DeleterLabels
      BY DEF DeleterLabels
    <3> HIDE DEF c, n
    <3> QED
      BY <2>2, <2>3, <3>1, <3>2, <3>3, <3>4, <3>5, <3>6, DeleterRanges, DeleterMoves
  <2>5. CASE n = 0
    <3>1. PICK r \in 0 .. cnt :
             /\ rdn' = r /\ cnt' = Reset /\ Point(Deleter, list)
             /\ Goto(Deleter, IF r = 0 THEN "top" ELSE "walk")
      BY <1>2, <2>5 DEF Measure, Drawn
    <3>2. r \in 0 .. Len(next) /\ cnt' = 0
      BY <3>1, DeleterRanges DEF Reset
    <3>3. PICK l \in {"top", "walk"} : Goto(Deleter, l) /\ (l = "walk" => r > 0)
      BY <3>1
    <3>4. pc'[Deleter] = l
      BY <1>0, <3>3 DEF Goto
    <3>5. Deleting'
      BY <2>1, <2>2, <3>1, <3>2, <3>3, <3>4 DEF Deleting
    <3>6. l \in DeleterLabels
      BY DEF DeleterLabels
    <3> QED
      BY <2>2, <2>3, <3>1, <3>2, <3>3, <3>5, <3>6, DeleterRanges, DeleterMoves
  <2> QED
    BY <2>4, <2>5
<1>3. CASE Walk /\ ~ Crash
  <2> DEFINE c == cursor[Deleter]
  <2>1. /\ pc[Deleter] = "walk" /\ c # 0 /\ c \in Nodes /\ rdn > 0 /\ list # 0 /\ cnt = 0
    BY <1>0, <1>3, DeleterRanges DEF Walk, Deleting, Nodes
  <2>2. /\ UNCHANGED <<next, freed, overwritten, search_count, num, sem_search, sem_insert, sem_delete, state_insert,
                       state_delete, list, cnt, left, status>>
        /\ prev' = c /\ Point(Deleter, next[c]) /\ rdn' = rdn - 1
        /\ Goto(Deleter, IF rdn = 1 THEN "fetch" ELSE "walk")
    BY <1>3, <2>1 DEF Walk
  <2>3. Forward'
    BY <2>2, DeleterRanges, ForwardKept
  <2>4. next[c] \in 0 .. Len(next) /\ (next[c] = 0 \/ next[c] > c)
    BY <2>1, DeleterRanges
  <2>5. PICK l \in {"fetch", "walk"} : Goto(Deleter, l) /\ (l = "walk" => rdn # 1)
    BY <2>2
  <2>6. pc'[Deleter] = l /\ cursor'[Deleter] = next[c]
    BY <1>0, <2>2, <2>5 DEF Goto, Point
  <2>7. Deleting'
    BY <2>1, <2>2, <2>4, <2>5, <2>6, DeleterRanges DEF Deleting
  <2>8. l \in DeleterLabels
    BY DEF DeleterLabels
  <2>9. c \in 0 .. Len(next) /\ rdn - 1 \in 0 .. Len(next)
    BY <2>1, DeleterRanges
  <2> HIDE DEF c
  <2> QED
    BY <2>2, <2>3, <2>4, <2>5, <2>7, <2>8, <2>9, DeleterRanges, DeleterMoves
<1>4. CASE Fetch /\ ~ Crash
  <2> DEFINE c == cursor[Deleter]
  <2>1. /\ pc[Deleter] = "fetch" /\ c # 0 /\ c \in Nodes /\ list # 0 /\ cnt = 0
        /\ prev # 0 /\ c > prev
    BY <1>0, <1>4, DeleterRanges DEF Fetch, Deleting, Nodes
  <2>2. /\ UNCHANGED <<next, freed, overwritten, search_count, num, sem_search, sem_insert, sem_delete, state_insert,
                       state_delete, list, prev, cnt, rdn, left, status>>
        /\ Point(Deleter, next[c]) /\ Goto(Deleter, "unlink")
    BY <1>4, <2>1 DEF Fetch
  <2>3. Forward'
    BY <2>2, DeleterRanges, ForwardKept
  <2>4. next[c] \in 0 .. Len(next) /\ (next[c] = 0 \/ next[c] > c)
    BY <2>1, DeleterRanges
  <2>5. pc'[Deleter] = "unlink" /\ cursor'[Deleter] = next[c]
    BY <1>0, <2>2 DEF Goto, Point
  <2>6. Deleting'
    BY <2>1, <2>2, <2>4, <2>5, DeleterRanges DEF Deleting
  <2>7. "unlink" \in DeleterLabels
    BY DEF DeleterLabels
  <2> HIDE DEF c
  <2> QED
    BY <2>2, <2>3, <2>4, <2>6, <2>7, DeleterRanges, DeleterMoves
<1>5. CASE Unlink
  <2> DEFINE c == cursor[Deleter]
  <2>1. /\ pc[Deleter] = "unlink" /\ list # 0 /\ cnt = 0
        /\ prev \in Nodes /\ (c = 0 \/ c > prev)
    BY <1>0, <1>5, DeleterRanges DEF Unlink, Deleting, Nodes
  <2>2. /\ UNCHANGED <<freed, overwritten, search_count, num, sem_search, sem_insert, sem_delete, state_insert,
                       state_delete, list, cnt, rdn, left, status>>
        /\ next' = [next EXCEPT ![prev] = c] /\ prev' = 0
        /\ Point(Deleter, 0) /\ Goto(Deleter, "deleted")
    BY <1>5 DEF Unlink
  <2>3. next \in Seq(Nat) /\ prev \in 1 .. Len(next) /\ c \in Nat
    BY <2>1, DeleterRanges DEF Forward, Nodes
  <2>4. /\ next' \in Seq(Nat) /\ Len(next') = Len(next)
        /\ \A n \in 1 .. Len(next) : next'[n] = IF n = prev THEN c ELSE next[n]
    BY <2>2, <2>3, ExceptSeq
  <2>5. Forward'
    <3>1. c \in 0 .. Len(next) /\ (c = 0 \/ c \in prev + 1 .. Len(next))
      BY <2>1, <2>3, DeleterRanges
    <3>2. \A n \in 1 .. Len(next) : next[n] = 0 \/ next[n] \in n + 1 .. Len(next)
      BY DeleterRanges DEF Forward, Nodes
    <3>3. \A n \in 1 .. Len(next) : next'[n] = 0 \/ next'[n] \in n + 1 .. Len(next)
      BY <2>4, <3>1, <3>2
    <3> QED
      BY <2>4, <3>3, DeleterRanges DEF Forward, Nodes
  <2>6. pc'[Deleter] = "deleted"
    BY <1>0, <2>2 DEF Goto
  <2>7. Deleting'
    BY <2>1, <2>2, <2>6 DEF Deleting
  <2>8. "deleted" \in DeleterLabels
    BY DEF DeleterLabels
  <2>9. 0 \in 0 .. Len(next)
    BY DeleterRanges
  <2> QED
    BY <2>2, <2>4, <2>5, <2>7, <2>8, <2>9, DeleterRanges, DeleterMoves
<1>6. CASE DeleteTop
  <2>1. pc[Deleter] = "top" /\ list \in Nodes /\ cnt = 0
    BY <1>0, <1>6, DeleterRanges DEF DeleteTop, Deleting, Nodes
  <2>2. /\ UNCHANGED <<next, overwritten, search_count, num, sem_search, sem_insert, sem_delete, state_insert,
                       state_delete, prev, cnt, rdn, left, status>>
        /\ list' = next[list] /\ freed' \in {list, freed}
        /\ Point(Deleter, 0) /\ Goto(Deleter, "deleted")
    BY <1>6 DEF DeleteTop
  <2>3. Forward'
    BY <2>2, DeleterRanges, ForwardKept
  <2>4. next[list] \in 0 .. Len(next)
    BY <2>1, DeleterRanges
  <2>5. pc'[Deleter] = "deleted"
    BY <1>0, <2>2 DEF Goto
  <2>6. Deleting'
    BY <2>1, <2>2, <2>5 DEF Deleting
  <2>7. "deleted" \in DeleterLabels
    BY DEF DeleterLabels
  <2>8. 0 \in 0 .. Len(next) /\ freed' \in 0 .. Len(next)
    BY <2>2, DeleterRanges
  <2> QED
    BY <2>2, <2>3, <2>4, <2>6, <2>7, <2>8, DeleterRanges, DeleterMoves
<1> QED
  BY <1>1, <1>2, <1>3, <1>4, <1>5, <1>6

-----------------------------------------------------------------------------
(* A step is one of these: quiet, an inserter's or the deleter's in the      *)
(* list, or the end of the process.                                          *)
LEMMA StepKinds ==
    ASSUME Shape, Next
    PROVE  \/ Ended
           \/ \E s \in {"exited", "crashed"} : End(s)
           \/ \E t \in Threads :
                 \/ Quiet(t) /\ Step(t)
                 \/ EnterInsert(t) \/ FindEnd(t) \/ Link(t) \/ (SetValue(t) /\ ~ Crash)
           \/ \/ EnterDelete \/ Measure \/ (Walk /\ ~ Crash) \/ (Fetch /\ ~ Crash)
              \/ Unlink \/ DeleteTop
<1>1. ASSUME NEW t \in Threads, Step(t), ~ Crash, ~ Exit, ~ Quiet(t)
      PROVE  \/ EnterInsert(t) \/ FindEnd(t) \/ Link(t) \/ (SetValue(t) /\ ~ Crash)
             \/ EnterDelete \/ Measure \/ (Walk /\ ~ Crash) \/ (Fetch /\ ~ Crash)
             \/ Unlink \/ DeleteTop
  BY <1>1, CheckQuiet, OtherQuiet DEF Step, InsertStep, Delete
<1>2. ASSUME NEW t \in Threads, ReadFreed(t) PROVE Crash
  BY <1>2 DEF ReadFreed
<1>3. Crash => End("crashed")
  BY DEF Crash
<1>4. Exit => End("exited")
  BY DEF Exit
<1> QED
  BY <1>1, <1>2, <1>3, <1>4 DEF Next

LEMMA ShapeKept ==
    ASSUME Shape, [Next]_vars
    PROVE  Shape'
<1>1. CASE UNCHANGED vars \/ Ended
  <2>1. UNCHANGED vars
    BY <1>1 DEF Ended
  <2> QED
    BY <2>1 DEF vars, nodes, sems, flags, mine, deleters, Shape, Labelled, Forward, Nodes,
                Ranges, Inserting, NodesExact, Linked, Deleting
<1>2. ASSUME NEW s \in {"exited", "crashed"}, End(s) PROVE Shape'
  BY <1>2, EndSafe DEF Safe
<1> QED
  BY <1>1, <1>2, StepKinds, QuietShape, EnterInsertShape, FindEndShape, LinkShape,
     SetValueShape, DeleteShape

(* Shape is kept whatever searchers do to their count and inserters to each  *)
(* other's links.                                                            *)
THEOREM ListInvariance == Spec => []Shape
<1>1. Init => Shape
  BY FreshSafe DEF Init, Fresh, Safe
<1>2. Shape /\ [Next]_vars => Shape'
  BY ShapeKept
<1> QED
  BY <1>1, <1>2, PTL DEF Spec

(* Every variable keeps its type: no more nodes are allocated than there are *)
(* rounds, nobody begins a round he does not have, and the deleter's counts  *)
(* and indices stay within the nodes there are, whatever becomes of the      *)
(* count of searchers.                                                       *)
THEOREM ListTypeCorrect == Spec => []TypeOK
<1>1. Shape => TypeOK
  <2> SUFFICES ASSUME Shape PROVE TypeOK
    OBVIOUS
  <2>1. Len(next) \in 1 .. MaxNodes
    BY LinkedBound, Kinds DEF Shape, NodesExact
  <2>2. \A n \in 1 .. Len(next) : next[n] \in 0 .. Len(next)
    BY DeleterRanges DEF Nodes
  <2>3. pc \in [Threads -> Labels] /\ left \in [Users -> Nat] /\ Ranges
    BY DEF Shape, Labelled, Inserting
  <2> QED
    BY <2>1, <2>2, <2>3 DEF TypeOK, Ranges
<1> QED
  BY ListInvariance, <1>1, PTL

(* Links lead to nodes allocated later, whatever two inserters and the       *)
(* deleter overwrite of each other's: no walk along the list is endless.     *)
THEOREM LinksAlwaysLeadOn == Spec => []LinksLeadOn
<1>1. Shape => LinksLeadOn
  BY DeleterRanges DEF LinksLeadOn
<1> QED
  BY ListInvariance, <1>1, PTL

-----------------------------------------------------------------------------
(* A way stays where it is as long as no link on it is written over. *)
LEMMA WayKept ==
    ASSUME NEW links, NEW after, NEW from, NEW to, NEW n \in Nat,
           Way(links, from, to, n), 1 .. Len(links) \subseteq 1 .. Len(after),
           \A k \in 1 .. Len(links) : links[k] # 0 => after[k] = links[k]
    PROVE  Way(after, from, to, n)
<1>1. PICK p \in [0 .. n -> 1 .. Len(links)] :
          /\ p[0] = from /\ p[n] = to
          /\ \A k \in 0 .. n - 1 : links[p[k]] = p[k + 1]
  BY DEF Way
<1>2. p \in [0 .. n -> 1 .. Len(after)]
  BY <1>1
<1>3. \A k \in 0 .. n - 1 : after[p[k]] = p[k + 1]
  <2> SUFFICES ASSUME NEW k \in 0 .. n - 1 PROVE after[p[k]] = p[k + 1]
    OBVIOUS
  <2>1. p[k] \in 1 .. Len(links) /\ p[k + 1] \in 1 .. Len(links)
    BY <1>1
  <2>2. links[p[k]] = p[k + 1] /\ p[k + 1] # 0
    BY <1>1, <2>1
  <2> QED
    BY <2>1, <2>2
<1> QED
  BY <1>1, <1>2, <1>3 DEF Way

(* What is at the ends of a way. *)
LEMMA WayEnds ==
    ASSUME NEW links, NEW from, NEW to, NEW n \in Nat, Way(links, from, to, n)
    PROVE  from \in 1 .. Len(links) /\ to \in 1 .. Len(links)
BY DEF Way

(* No steps, one step more at the end, one less at the start, and as many as *)
(* are wanted.                                                               *)
LEMMA WayOfNone ==
    ASSUME NEW links, NEW from \in 1 .. Len(links)
    PROVE  Way(links, from, from, 0)
<1> DEFINE p == [k \in 0 .. 0 |-> from]
<1>1. /\ p \in [0 .. 0 -> 1 .. Len(links)] /\ p[0] = from
      /\ \A k \in 0 .. 0 - 1 : links[p[k]] = p[k + 1]
  OBVIOUS
<1> QED
  BY <1>1 DEF Way

LEMMA WayLonger ==
    ASSUME NEW links, NEW from, NEW to, NEW n \in Nat, Way(links, from, to, n),
           links[to] \in 1 .. Len(links)
    PROVE  Way(links, from, links[to], n + 1)
<1>1. PICK p \in [0 .. n -> 1 .. Len(links)] :
          /\ p[0] = from /\ p[n] = to
          /\ \A k \in 0 .. n - 1 : links[p[k]] = p[k + 1]
  BY DEF Way
<1> DEFINE q == [k \in 0 .. n + 1 |-> IF k = n + 1 THEN links[to] ELSE p[k]]
<1>2. q \in [0 .. n + 1 -> 1 .. Len(links)] /\ q[0] = from /\ q[n + 1] = links[to]
  BY <1>1
<1>3. \A k \in 0 .. (n + 1) - 1 : links[q[k]] = q[k + 1]
  <2> SUFFICES ASSUME NEW k \in 0 .. (n + 1) - 1 PROVE links[q[k]] = q[k + 1]
    OBVIOUS
  <2>1. CASE k = n
    BY <1>1, <2>1
  <2>2. CASE k \in 0 .. n - 1
    BY <1>1, <2>2
  <2>3. k = n \/ k \in 0 .. n - 1
    OBVIOUS
  <2> QED
    BY <2>1, <2>2, <2>3
<1> HIDE DEF q
<1> QED
  BY <1>2, <1>3 DEF Way

LEMMA WayShorter ==
    ASSUME NEW links, NEW from, NEW to, NEW n \in Nat, Way(links, from, to, n), n > 0
    PROVE  links[from] \in 1 .. Len(links) /\ Way(links, links[from], to, n - 1)
<1>1. PICK p \in [0 .. n -> 1 .. Len(links)] :
          /\ p[0] = from /\ p[n] = to
          /\ \A k \in 0 .. n - 1 : links[p[k]] = p[k + 1]
  BY DEF Way
<1> DEFINE q == [k \in 0 .. n - 1 |-> p[k + 1]]
<1>2. q \in [0 .. n - 1 -> 1 .. Len(links)] /\ q[0] = links[from] /\ q[n - 1] = to
  BY <1>1
<1>3. \A k \in 0 .. (n - 1) - 1 : links[q[k]] = q[k + 1]
  BY <1>1
<1>4. links[from] \in 1 .. Len(links)
  BY <1>2
<1> HIDE DEF q
<1> QED
  BY <1>2, <1>3, <1>4 DEF Way

LEMMA WayPart ==
    ASSUME NEW links, NEW from, NEW to, NEW n \in Nat, Way(links, from, to, n),
           NEW r \in 0 .. n
    PROVE  \E m \in 1 .. Len(links) : Way(links, from, m, r)
<1>1. PICK p \in [0 .. n -> 1 .. Len(links)] :
          /\ p[0] = from /\ p[n] = to
          /\ \A k \in 0 .. n - 1 : links[p[k]] = p[k + 1]
  BY DEF Way
<1> DEFINE q == [k \in 0 .. r |-> p[k]]
<1>2. q \in [0 .. r -> 1 .. Len(links)] /\ q[0] = from /\ q[r] = p[r]
  BY <1>1
<1>3. \A k \in 0 .. r - 1 : links[q[k]] = q[k + 1]
  BY <1>1
<1> HIDE DEF q
<1>4. Way(links, from, p[r], r) /\ p[r] \in 1 .. Len(links)
  BY <1>1, <1>2, <1>3 DEF Way
<1> QED
  BY <1>4

-----------------------------------------------------------------------------
(* Whatever is not the deleter's own step leaves its way alone, if no link   *)
(* is written over.                                                          *)
LEMMA OnTheWayKept ==
    ASSUME Shape, OnTheWay, pc'[Deleter] = pc[Deleter], cursor'[Deleter] = cursor[Deleter],
           UNCHANGED <<list, prev, cnt, rdn>>, Nodes \subseteq Nodes',
           \A k \in Nodes : next[k] # 0 => next'[k] = next[k]
    PROVE  OnTheWay'
<1>1. cnt \in Nat /\ rdn \in Nat
  BY DeleterRanges
<1>2. ASSUME pc[Deleter] = "measure" PROVE Way(next', list', cursor'[Deleter], cnt')
  <2>1. Way(next, list, cursor[Deleter], cnt)
    BY <1>2 DEF OnTheWay
  <2>2. Way(next', list, cursor[Deleter], cnt)
    BY <2>1, <1>1, WayKept DEF Nodes
  <2> QED
    BY <2>2
<1>3. ASSUME pc[Deleter] = "walk"
      PROVE  \E n \in Nodes' : Way(next', cursor'[Deleter], n, rdn')
  <2>1. PICK n \in Nodes : Way(next, cursor[Deleter], n, rdn)
    BY <1>3 DEF OnTheWay
  <2>2. Way(next', cursor[Deleter], n, rdn)
    BY <2>1, <1>1, WayKept DEF Nodes
  <2>3. n \in Nodes'
    BY <2>1
  <2> QED
    BY <2>2, <2>3
<1>4. pc[Deleter] \in {"fetch", "unlink"} => prev \in Nodes
  BY DeleterRanges DEF Shape, Deleting, Nodes
<1>5. pc'[Deleter] = "fetch" => next'[prev'] = cursor'[Deleter] /\ cursor'[Deleter] # 0
  BY <1>4 DEF OnTheWay
<1>6. pc'[Deleter] = "unlink" => next'[prev'] # 0
  BY <1>4 DEF OnTheWay
<1> QED
  BY <1>2, <1>3, <1>5, <1>6 DEF OnTheWay

LEMMA QuietSafe ==
    ASSUME Shape, OnTheWay, NEW t \in Threads, Quiet(t)
    PROVE  OnTheWay'
<1> USE Kinds
<1>1. PICK l \in QuietLabels : Goto(t, l)
  BY DEF Quiet
<1>2. UNCHANGED <<next, cursor, list, prev, cnt, rdn>> /\ pc[t] \in QuietLabels
  BY DEF Quiet, nodes, deleters
<1>3. \A u \in Threads : pc'[u] = IF u = t THEN l ELSE pc[u]
  BY <1>1 DEF Goto, Shape, Labelled
<1>4. ASSUME t = Deleter PROVE OnTheWay'
  BY <1>2, <1>3, <1>4 DEF OnTheWay, QuietLabels
<1>5. ASSUME t # Deleter PROVE OnTheWay'
  <2>1. Nodes' = Nodes
    BY <1>2 DEF Nodes
  <2> QED
    BY <1>2, <1>3, <1>5, <2>1, OnTheWayKept
<1> QED
  BY <1>4, <1>5

(* An inserter that links where nothing was linked does not write over the   *)
(* deleter's way.                                                            *)
LEMMA InserterSafe ==
    ASSUME Shape, OnTheWay, ~ overwritten', NEW t \in Threads,
           EnterInsert(t) \/ FindEnd(t) \/ Link(t) \/ (SetValue(t) /\ ~ Crash)
    PROVE  OnTheWay'
<1> USE Kinds
<1>0. /\ t \in Inserters /\ t # Deleter
      /\ pc \in [Threads -> Labels] /\ cursor \in [Threads -> 0 .. Len(next)]
  BY DEF Shape, Labelled, Ranges, EnterInsert, FindEnd, Link, SetValue, SearcherLabels,
         DeleterLabels, Threads, Users
<1>1. /\ pc'[Deleter] = pc[Deleter] /\ cursor'[Deleter] = cursor[Deleter]
      /\ UNCHANGED <<list, prev, cnt, rdn>>
  BY <1>0 DEF EnterInsert, FindEnd, Link, SetValue, Goto, Point, mine, deleters
<1>2. CASE EnterInsert(t)
  <2>1. next' = next /\ Nodes' = Nodes
    BY <1>2 DEF EnterInsert, nodes, Nodes
  <2> QED
    BY <1>0, <1>1, <2>1, OnTheWayKept
<1>3. CASE FindEnd(t)
  <2>1. next' = next /\ Nodes' = Nodes
    BY <1>3 DEF FindEnd, nodes, Nodes
  <2> QED
    BY <1>0, <1>1, <2>1, OnTheWayKept
<1>4. CASE Link(t)
  <2>1. pc[t] = "link" /\ next[cursor[t]] = 0
    BY <1>4 DEF Link
  <2>2. cursor[t] \in Nodes /\ Len(next) \in Nat
    BY <1>0, <2>1, DeleterRanges DEF Shape, Inserting, Nodes
  <2>3. /\ Len(next') = Len(next) + 1
        /\ \A n \in Nodes : next'[n] = IF n = cursor[t] THEN Len(next) + 1 ELSE next[n]
    BY <1>4, <2>2, LinkedAfter DEF Link, NewNext, Shape
  <2>4. Nodes \subseteq Nodes'
    BY <2>2, <2>3 DEF Nodes
  <2> QED
    BY <1>0, <1>1, <2>1, <2>3, <2>4, OnTheWayKept
<1>5. CASE SetValue(t) /\ ~ Crash
  <2>1. next' = next /\ Nodes' = Nodes
    BY <1>5 DEF SetValue, nodes, Nodes
  <2> QED
    BY <1>0, <1>1, <2>1, OnTheWayKept
<1> QED
  BY <1>2, <1>3, <1>4, <1>5

(* The deleter finds the way it counted, and from each node of it the next.  *)
LEMMA DeleterSafe ==
    ASSUME Shape, OnTheWay,
           \/ EnterDelete \/ Measure \/ (Walk /\ ~ Crash) \/ (Fetch /\ ~ Crash)
           \/ Unlink \/ DeleteTop
    PROVE  OnTheWay'
<1> USE Kinds DEF sems, flags, nodes, deleters
<1>0. /\ Deleting /\ cursor \in [Threads -> 0 .. Len(next)] /\ pc \in [Threads -> Labels]
      /\ cnt \in Nat /\ rdn \in Nat
  BY DeleterRanges DEF Shape, Ranges, Labelled
<1>2. ~ Unlink => next' = next /\ Nodes' = Nodes
  BY DEF EnterDelete, Measure, Walk, Fetch, DeleteTop, Nodes
<1>3. CASE EnterDelete
  <2>1. /\ pc'[Deleter] = "measure" /\ cursor'[Deleter] = list /\ list' = list
        /\ cnt' = 0 /\ list \in Nodes
    BY <1>0, <1>3, DeleterRanges DEF EnterDelete, Goto, Point, Deleting, Nodes
  <2>2. ~ Unlink
    BY <1>3 DEF EnterDelete, Unlink
  <2>3. list \in Nodes'
    BY <1>2, <2>1, <2>2
  <2>4. Way(next', list', cursor'[Deleter], cnt')
    BY <1>2, <2>1, <2>2, <2>3, WayOfNone DEF Nodes
  <2> QED
    BY <1>2, <2>1, <2>2, <2>4 DEF OnTheWay
<1>4. CASE Measure
  <2> DEFINE c == cursor[Deleter]
  <2>1. Way(next, list, c, cnt) /\ pc[Deleter] = "measure" /\ list' = list /\ ~ Unlink
    BY <1>4 DEF Measure, OnTheWay, Unlink
  <2>2. CASE next[c] # 0
    <3>1. /\ pc'[Deleter] = "measure" /\ cnt' = cnt + 1 /\ cursor'[Deleter] = next[c]
      BY <1>0, <1>4, <2>1, <2>2 DEF Measure, Point
    <3>2. next[c] \in 1 .. Len(next)
      BY <1>0, <2>1, <2>2, WayEnds, DeleterRanges DEF Nodes
    <3>3. Way(next, list, next[c], cnt + 1)
      BY <1>0, <2>1, <3>2, WayLonger
    <3>4. Way(next', list', cursor'[Deleter], cnt')
      BY <1>2, <2>1, <3>1, <3>3
    <3> QED
      BY <1>2, <2>1, <3>1, <3>4 DEF OnTheWay
  <2>3. CASE next[c] = 0
    <3>1. PICK r \in 0 .. cnt :
             /\ rdn' = r /\ Point(Deleter, list)
             /\ Goto(Deleter, IF r = 0 THEN "top" ELSE "walk")
      BY <1>4, <2>3 DEF Measure, Drawn
    <3>2. /\ cursor'[Deleter] = list /\ pc'[Deleter] \in {"top", "walk"}
      BY <1>0, <3>1 DEF Point, Goto
    <3>3. \E m \in Nodes : Way(next, list, m, r)
      BY <1>0, <2>1, WayPart DEF Nodes
    <3>4. \E m \in Nodes' : Way(next', cursor'[Deleter], m, rdn')
      BY <1>2, <2>1, <3>1, <3>2, <3>3
    <3> QED
      BY <1>2, <2>1, <3>2, <3>4 DEF OnTheWay
  <2> QED
    BY <2>2, <2>3
<1>5. CASE Walk /\ ~ Crash
  <2> DEFINE c == cursor[Deleter]
  <2>1. PICK n \in Nodes : Way(next, c, n, rdn)
    BY <1>5 DEF Walk, OnTheWay
  <2>2. rdn > 0 /\ ~ Unlink
    BY <1>5 DEF Walk, Shape, Deleting, Unlink
  <2>3. next[c] \in 1 .. Len(next) /\ Way(next, next[c], n, rdn - 1)
    BY <1>0, <2>1, <2>2, WayShorter
  <2>4. /\ prev' = c /\ cursor'[Deleter] = next[c] /\ rdn' = rdn - 1
        /\ pc'[Deleter] \in {"fetch", "walk"}
    BY <1>0, <1>5 DEF Walk, Point, Goto
  <2>5. Way(next', cursor'[Deleter], n, rdn') /\ n \in Nodes'
    BY <1>2, <2>2, <2>3, <2>4
  <2>6. next'[prev'] = cursor'[Deleter] /\ cursor'[Deleter] # 0
    BY <1>2, <2>2, <2>3, <2>4
  <2> QED
    BY <1>2, <2>2, <2>4, <2>5, <2>6 DEF OnTheWay
<1>6. CASE Fetch /\ ~ Crash
  <2>1. /\ next[prev] # 0 /\ prev' = prev /\ pc'[Deleter] = "unlink" /\ ~ Unlink
    BY <1>0, <1>6 DEF Fetch, OnTheWay, Goto, Unlink
  <2> QED
    BY <1>2, <2>1 DEF OnTheWay
<1>7. CASE Unlink
  <2>1. pc'[Deleter] = "deleted"
    BY <1>0, <1>7 DEF Unlink, Goto
  <2> QED
    BY <2>1 DEF OnTheWay
<1>8. CASE DeleteTop
  <2>1. pc'[Deleter] = "deleted" /\ ~ Unlink
    BY <1>0, <1>8 DEF DeleteTop, Goto, Unlink
  <2> QED
    BY <1>2, <2>1 DEF OnTheWay
<1> QED
  BY <1>3, <1>4, <1>5, <1>6, <1>7, <1>8

-----------------------------------------------------------------------------
LEMMA SafeKept ==
    ASSUME Safe, [Next]_vars
    PROVE  Safe'
<1>0. Shape /\ Shape'
  BY ShapeKept DEF Safe
<1>1. CASE UNCHANGED vars \/ Ended
  <2>1. UNCHANGED vars
    BY <1>1 DEF Ended
  <2> QED
    BY <1>0, <2>1 DEF vars, nodes, mine, deleters, Safe, OnTheWay, Nodes
<1>2. ASSUME NEW s \in {"exited", "crashed"}, End(s) PROVE Safe'
  BY <1>2, EndSafe
<1>3. ASSUME NEW t \in Threads,
             Quiet(t) \/ EnterInsert(t) \/ FindEnd(t) \/ Link(t) \/ (SetValue(t) /\ ~ Crash)
      PROVE  Safe'
  <2>1. ~ overwritten' => ~ overwritten
    BY <1>0, <1>3 DEF Quiet, EnterInsert, FindEnd, Link, SetValue, nodes, Shape, Ranges
  <2> QED
    BY <1>0, <1>3, <2>1, QuietSafe, InserterSafe DEF Safe
<1>4. ASSUME \/ EnterDelete \/ Measure \/ (Walk /\ ~ Crash) \/ (Fetch /\ ~ Crash)
             \/ Unlink \/ DeleteTop
      PROVE  Safe'
  <2>1. overwritten' = overwritten
    BY <1>4 DEF EnterDelete, Measure, Walk, Fetch, Unlink, DeleteTop, nodes
  <2> QED
    BY <1>0, <1>4, <2>1, DeleterSafe DEF Safe
<1> QED
  BY <1>0, <1>1, <1>2, <1>3, <1>4, StepKinds

THEOREM WayInvariance == Spec => []Safe
<1>1. Init => Safe
  BY FreshSafe DEF Init, Fresh
<1>2. Safe /\ [Next]_vars => Safe'
  BY SafeKept
<1> QED
  BY <1>1, <1>2, PTL DEF Spec

(* Between counting the list and walking to a node of it the deleter may be  *)
(* overtaken as often as the others like: it walks off the end only after an *)
(* inserter has overwritten the link of another one.                         *)
THEOREM DeleterAlwaysInList == Spec => []DeleterStaysInList
<1>1. Safe => DeleterStaysInList
  <2> SUFFICES ASSUME Safe, ~ overwritten PROVE WalksInList
    BY DEF DeleterStaysInList
  <2>1. pc[Deleter] = "walk" => cursor[Deleter] # 0
    BY DeleterRanges, WayEnds DEF Safe, OnTheWay
  <2>2. pc[Deleter] = "fetch" => cursor[Deleter] # 0
    BY DEF Safe, OnTheWay
  <2> QED
    BY <2>1, <2>2 DEF WalksInList
<1> QED
  BY WayInvariance, <1>1, PTL
=============================================================================
