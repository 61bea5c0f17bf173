-------------------------------- MODULE Con3 --------------------------------
(* con3/con3.c: a singly linked list that searchers, inserters and a deleter *)
(* work on at once.  Three state flags and a count of searchers, read and    *)
(* written without a lock, say who may go in; whoever finds the way clear    *)
(* posts a semaphore, and posts are banked until somebody waits.  An action  *)
(* makes one access to a shared variable or a node (with the semaphore       *)
(* operation before or after it); a walk that only reads the list is one     *)
(* step.  The values in the nodes are left out: a search finds nothing that  *)
(* anything else depends on.                                                 *)
EXTENDS Integers, Sequences, FiniteSets, Functions

CONSTANTS Searchers, Inserters, Deleter,
          Inserts,  \* bound: what one inserter inserts (10 in the code)
          Searches  \* bound: the searches of one searcher (endless in the code)

Users == Searchers \cup Inserters
Threads == Users \cup {Deleter}

ASSUME ThreadsAssumption ==
    /\ IsFiniteSet(Threads)
    /\ Deleter \notin Users
    /\ Searchers \cap Inserters = {}
ASSUME RoundsAssumption == {Inserts, Searches} \subseteq Nat \ {0}

VARIABLES next,      \* the nodes that were allocated, in that order; 0 is NULL
          freed,     \* the node that was freed, if any
          overwritten, \* an inserter's link has replaced another's (ghost)
          sem_search, sem_insert, sem_delete,
          state_insert, state_delete, search_count,
          pc, cursor,
          num,       \* a count in sll_print, a searcher's loaded count
          list, prev, cnt, rdn, \* the deleter's
          left,      \* rounds each searcher and inserter has left
          status     \* of the process: "running", "exited", "crashed"

nodes == <<next, freed, overwritten>>
sems == <<sem_search, sem_insert, sem_delete>>
flags == <<state_insert, state_delete, search_count>>
mine == <<cursor, num>>
deleters == <<list, prev, cnt, rdn>>
vars == <<nodes, sems, flags, pc, mine, deleters, left, status>>

First == 1
MaxNodes == 1 + Inserts * Cardinality(Inserters)

Start == [t \in Threads |-> IF t \in Searchers THEN "checkSearch"
                            ELSE IF t \in Inserters THEN "begin" ELSE "rest"]
Zero == [t \in Threads |-> 0]
AllLeft == [t \in Users |-> IF t \in Inserters THEN Inserts ELSE Searches]

Init ==
    /\ next = <<0>> /\ freed = 0 /\ overwritten = FALSE
    /\ sem_search = 0 /\ sem_insert = 0 /\ sem_delete = 0
    /\ state_insert = FALSE /\ state_delete = FALSE /\ search_count = 0
    /\ pc = Start /\ cursor = Zero /\ num = Zero
    /\ list = First /\ prev = 0 /\ cnt = 0 /\ rdn = 0
    /\ left = AllLeft
    /\ status = "running"

(* The nodes of the list that starts with n, and how many they are. *)
Nodes == 1 .. Len(next)
Closed(S) == \A k \in S : next[k] # 0 => next[k] \in S
Reached(n) ==
    IF n = 0 THEN {}
    ELSE {m \in Nodes : \A S \in SUBSET Nodes : n \in S /\ Closed(S) => m \in S}
Length(n) == Cardinality(Reached(n))

Goto(t, l) == pc' = [pc EXCEPT ![t] = l]
Point(t, n) == cursor' = [cursor EXCEPT ![t] = n]

(* The process ends and its memory is gone. *)
End(s) ==
    /\ next' = <<0>> /\ freed' = 0 /\ overwritten' = FALSE
    /\ sem_search' = 0 /\ sem_insert' = 0 /\ sem_delete' = 0
    /\ state_insert' = FALSE /\ state_delete' = FALSE /\ search_count' = 0
    /\ pc' = Start /\ cursor' = Zero /\ num' = Zero
    /\ list' = First /\ prev' = 0 /\ cnt' = 0 /\ rdn' = 0
    /\ left' = AllLeft
    /\ status' = s

Crash == End("crashed")

-----------------------------------------------------------------------------
(* check.  Its conditions are two reads, and the post comes after them; a    *)
(* post is its last access, so it goes with the read before it.              *)

(* Posts that can never be used are not counted: a searcher or an inserter   *)
(* uses one a round, and the deleter, which takes a node from its list       *)
(* whenever it goes in, no more than there are nodes.                        *)
Posted(sem, most) == IF sem < most THEN sem + 1 ELSE sem
PostSearch == sem_search' = Posted(sem_search, SumFunctionOnSet(left, Searchers))
PostInsert == sem_insert' = Posted(sem_insert, SumFunctionOnSet(left, Inserters))
PostDelete == sem_delete' = Posted(sem_delete, MaxNodes)

(* Where check returns to; a round ends after it. *)
Again(t, l) == IF left[t] > 0 THEN l ELSE "done"
AfterDelete(t) == IF t \in Searchers THEN Again(t, "checkSearch") ELSE "checkInsert"
AfterInsert(t) == IF t = Deleter THEN "checkSearch" ELSE Again(t, "begin")
AfterSearch(t) == IF t = Deleter THEN "rest" ELSE "wait"

CheckInsert(t) ==
    /\ pc[t] = "checkInsert"
    /\ Goto(t, IF state_delete THEN AfterInsert(t) ELSE "checkInsert2")
    /\ UNCHANGED <<nodes, sems, flags, mine, deleters, left, status>>

CheckInsert2(t) ==
    /\ pc[t] = "checkInsert2"
    /\ IF state_insert THEN UNCHANGED sem_insert ELSE PostInsert
    /\ Goto(t, AfterInsert(t))
    /\ UNCHANGED <<nodes, sem_search, sem_delete, flags, mine, deleters, left, status>>

(* Also a searcher's own test before it waits. *)
CheckSearch(t) ==
    /\ pc[t] = "checkSearch"
    /\ IF state_delete THEN UNCHANGED sem_search ELSE PostSearch
    /\ Goto(t, AfterSearch(t))
    /\ UNCHANGED <<nodes, sem_insert, sem_delete, flags, mine, deleters, left, status>>

CheckDelete(t) ==
    /\ pc[t] = "checkDelete"
    /\ Goto(t, IF state_insert THEN AfterDelete(t) ELSE "checkDelete2")
    /\ UNCHANGED <<nodes, sems, flags, mine, deleters, left, status>>

CheckDelete2(t) ==
    /\ pc[t] = "checkDelete2"
    /\ IF search_count = 0 THEN PostDelete ELSE UNCHANGED sem_delete
    /\ Goto(t, AfterDelete(t))
    /\ UNCHANGED <<nodes, sem_search, sem_insert, flags, mine, deleters, left, status>>

Check(t) == \/ CheckInsert(t) \/ CheckInsert2(t) \/ CheckSearch(t)
            \/ CheckDelete(t) \/ CheckDelete2(t)

-----------------------------------------------------------------------------
(* sll_search *)

EnterSearch(t) ==
    /\ t \in Searchers /\ pc[t] = "wait" /\ sem_search > 0
    /\ sem_search' = sem_search - 1
    /\ left' = [left EXCEPT ![t] = @ - 1]
    /\ num' = [num EXCEPT ![t] = search_count]
    /\ Goto(t, "counted")
    /\ UNCHANGED <<nodes, sem_insert, sem_delete, flags, cursor, deleters, status>>

CountIn(t) ==
    /\ pc[t] = "counted"
    /\ search_count' = num[t] + 1
    /\ num' = [num EXCEPT ![t] = 0]
    /\ Goto(t, "search")
    /\ UNCHANGED <<nodes, sems, state_insert, state_delete, cursor, deleters, left, status>>

(* The search itself only reads. *)
LeaveSearch(t) ==
    /\ pc[t] = "search"
    /\ num' = [num EXCEPT ![t] = search_count]
    /\ Goto(t, "leaving")
    /\ UNCHANGED <<nodes, sems, flags, cursor, deleters, left, status>>

CountOut(t) ==
    /\ pc[t] = "leaving"
    /\ search_count' = num[t] - 1
    /\ num' = [num EXCEPT ![t] = 0]
    /\ Goto(t, "checkDelete")
    /\ UNCHANGED <<nodes, sems, state_insert, state_delete, cursor, deleters, left, status>>

SearchStep(t) == \/ EnterSearch(t) \/ CountIn(t) \/ LeaveSearch(t)
                 \/ CountOut(t)

-----------------------------------------------------------------------------
(* sll_insert *)

LookForInserter(t) ==
    /\ t \in Inserters /\ pc[t] = "begin"
    /\ Goto(t, IF state_insert THEN "wait" ELSE "begin2")
    /\ UNCHANGED <<nodes, sems, flags, mine, deleters, left, status>>

LookForDeleter(t) ==
    /\ pc[t] = "begin2"
    /\ IF state_delete THEN UNCHANGED sem_insert ELSE PostInsert
    /\ Goto(t, "wait")
    /\ UNCHANGED <<nodes, sem_search, sem_delete, flags, mine, deleters, left, status>>

EnterInsert(t) ==
    /\ t \in Inserters /\ pc[t] = "wait" /\ sem_insert > 0
    /\ sem_insert' = sem_insert - 1
    /\ state_insert' = TRUE
    /\ left' = [left EXCEPT ![t] = @ - 1]
    /\ Point(t, First)
    /\ Goto(t, "end")
    /\ UNCHANGED <<nodes, sem_search, sem_delete, state_delete, search_count, num,
                   deleters, status>>

FindEnd(t) ==
    /\ pc[t] = "end"
    /\ IF next[cursor[t]] # 0 THEN Point(t, next[cursor[t]]) /\ UNCHANGED pc
       ELSE UNCHANGED cursor /\ Goto(t, "link")
    /\ UNCHANGED <<nodes, sems, flags, num, deleters, left, status>>

(* The node is linked before it is filled in, over what has been linked      *)
(* there since; its next is whatever malloc left there, NULL as nothing that *)
(* was allocated is used again.                                              *)
(* Fault: it is the head of the list, as if the node went in front.          *)
NewNext_Head == First
NewNext == 0

Link(t) ==
    /\ pc[t] = "link"
    /\ next' = Append([next EXCEPT ![cursor[t]] = Len(next) + 1], NewNext)
    /\ overwritten' = (overwritten \/ next[cursor[t]] # 0)
    /\ Goto(t, "value")
    /\ UNCHANGED <<freed, sems, flags, mine, deleters, left, status>>

(* The link is read again to fill the node in. *)
SetValue(t) ==
    /\ pc[t] = "value"
    /\ IF next[cursor[t]] = 0 THEN Crash
       ELSE /\ Point(t, 0)
            /\ Goto(t, "count")
            /\ UNCHANGED <<nodes, sems, flags, num, deleters, left, status>>

LeaveInsert(t) ==
    /\ t \in Inserters /\ pc[t] = "printed"
    /\ state_insert' = FALSE
    /\ Goto(t, "checkDelete")
    /\ UNCHANGED <<nodes, sems, state_delete, search_count, mine, deleters, left, status>>

InsertStep(t) == \/ LookForInserter(t) \/ LookForDeleter(t) \/ EnterInsert(t)
                 \/ FindEnd(t) \/ Link(t) \/ SetValue(t) \/ LeaveInsert(t)

-----------------------------------------------------------------------------
(* sll_print: the nodes are counted, then as many are printed. *)

Top(t) == IF t = Deleter THEN list ELSE First

CountNodes(t) ==
    /\ pc[t] = "count"
    /\ num' = [num EXCEPT ![t] = Length(Top(t))]
    /\ Goto(t, "print")
    /\ UNCHANGED <<nodes, sems, flags, cursor, deleters, left, status>>

PrintNodes(t) ==
    /\ pc[t] = "print"
    /\ IF Length(Top(t)) < num[t] THEN Crash
       ELSE /\ num' = [num EXCEPT ![t] = 0]
            /\ Goto(t, IF t = Deleter THEN "checkInsert" ELSE "printed")
            /\ UNCHANGED <<nodes, sems, flags, cursor, deleters, left, status>>

-----------------------------------------------------------------------------
(* sll_del.  Its list is its own: the others start from the first node ever. *)

LookForSearchers ==
    /\ pc[Deleter] = "rest"
    /\ Goto(Deleter, IF search_count = 0 THEN "rest2" ELSE "wait")
    /\ UNCHANGED <<nodes, sems, flags, mine, deleters, left, status>>

LookForInserters ==
    /\ pc[Deleter] = "rest2"
    /\ IF state_insert THEN UNCHANGED sem_delete ELSE PostDelete
    /\ Goto(Deleter, "wait")
    /\ UNCHANGED <<nodes, sem_search, sem_insert, flags, mine, deleters, left, status>>

EnterDelete ==
    /\ pc[Deleter] = "wait" /\ sem_delete > 0
    /\ sem_delete' = sem_delete - 1
    /\ state_delete' = TRUE
    /\ Point(Deleter, list)
    /\ Goto(Deleter, "measure")
    /\ UNCHANGED <<nodes, sem_search, sem_insert, state_insert, search_count, num,
                   deleters, left, status>>

(* Fault: the length of the list is added to the one found before. *)
Reset_Not == cnt + 1
Reset == 0

(* The last node is counted as the walk ends: cnt + 1 nodes to draw from.    *)
(* Fault: one more.                                                          *)
Drawn_Past == 0 .. cnt + 1
Drawn == 0 .. cnt

Measure ==
    /\ pc[Deleter] = "measure"
    /\ LET n == next[cursor[Deleter]] IN
       IF n # 0 THEN cnt' = cnt + 1 /\ Point(Deleter, n) /\ UNCHANGED <<pc, rdn>>
       ELSE \E r \in Drawn :
              /\ rdn' = r /\ cnt' = Reset
              /\ Point(Deleter, list)
              /\ Goto(Deleter, IF r = 0 THEN "top" ELSE "walk")
    /\ UNCHANGED <<nodes, sems, flags, num, list, prev, left, status>>

Walk ==
    /\ pc[Deleter] = "walk"
    /\ IF cursor[Deleter] = 0 THEN Crash
       ELSE /\ prev' = cursor[Deleter]
            /\ Point(Deleter, next[cursor[Deleter]])
            /\ rdn' = rdn - 1
            /\ Goto(Deleter, IF rdn = 1 THEN "fetch" ELSE "walk")
            /\ UNCHANGED <<nodes, sems, flags, num, list, cnt, left, status>>

(* prev->next = cursor->next is a read and a write. *)
Fetch ==
    /\ pc[Deleter] = "fetch"
    /\ IF cursor[Deleter] = 0 THEN Crash
       ELSE /\ Point(Deleter, next[cursor[Deleter]])
            /\ Goto(Deleter, "unlink")
            /\ UNCHANGED <<nodes, sems, flags, num, deleters, left, status>>

Unlink ==
    /\ pc[Deleter] = "unlink"
    /\ next' = [next EXCEPT ![prev] = cursor[Deleter]]
    /\ prev' = 0 /\ Point(Deleter, 0)
    /\ Goto(Deleter, "deleted")
    /\ UNCHANGED <<freed, overwritten, sems, flags, num, list, cnt, rdn, left, status>>

DeleteTop ==
    /\ pc[Deleter] = "top"
    /\ list' = next[list]
    /\ freed' = IF next[list] = 0 THEN list ELSE freed
    /\ Point(Deleter, 0)
    /\ Goto(Deleter, "deleted")
    /\ UNCHANGED <<next, overwritten, sems, flags, num, prev, cnt, rdn, left, status>>

LeaveDelete ==
    /\ pc[Deleter] = "deleted"
    /\ state_delete' = FALSE
    /\ Goto(Deleter, IF list = 0 THEN "exit" ELSE "count")
    /\ UNCHANGED <<nodes, sems, state_insert, search_count, mine, deleters, left, status>>

(* sll_print(NULL) ends the program. *)
Exit ==
    /\ pc[Deleter] = "exit"
    /\ End("exited")

Delete == \/ LookForSearchers \/ LookForInserters \/ EnterDelete \/ Measure \/ Walk
          \/ Fetch \/ Unlink \/ DeleteTop \/ LeaveDelete \/ Exit

(* A freed node reads as it was left, or not at all. *)
ReadFreed(t) ==
    /\ status = "running"
    /\ freed # 0
    /\ \/ pc[t] \in {"end", "link", "value"} /\ cursor[t] = freed
       \/ pc[t] \in {"search", "count", "print"} /\ freed \in Reached(Top(t))
    /\ Crash

-----------------------------------------------------------------------------
Step(t) == /\ status = "running"
           /\ \/ Check(t) \/ SearchStep(t) \/ InsertStep(t)
              \/ CountNodes(t) \/ PrintNodes(t)
              \/ t = Deleter /\ Delete

(* Nobody may be left who goes on when the searches are bounded. *)
Ended == /\ status # "running" \/ \A s \in Searchers : pc[s] = "done"
         /\ UNCHANGED vars

Next == \/ \E t \in Threads : Step(t) \/ ReadFreed(t)
        \/ Ended

Fairness == \A t \in Threads : WF_vars(Step(t))

Spec == Init /\ [][Next]_vars /\ Fairness

-----------------------------------------------------------------------------
Labels == {"begin", "begin2", "wait", "counted", "search", "leaving",
           "checkDelete", "checkDelete2", "checkInsert", "checkInsert2", "checkSearch",
           "end", "link", "value", "count", "print", "printed", "done", "rest", "rest2",
           "measure", "top", "walk", "fetch", "unlink", "deleted", "exit"}

TypeOK ==
    /\ Len(next) \in 1 .. MaxNodes /\ \A n \in 1 .. Len(next) : next[n] \in 0 .. Len(next)
    /\ freed \in 0 .. Len(next)
    /\ sem_search \in Nat /\ sem_insert \in Nat /\ sem_delete \in 0 .. MaxNodes
    /\ state_insert \in BOOLEAN /\ state_delete \in BOOLEAN
    /\ search_count \in Int
    /\ pc \in [Threads -> Labels]
    /\ cursor \in [Threads -> 0 .. Len(next)]
    /\ num \in [Threads -> Int]
    /\ list \in 0 .. Len(next) /\ prev \in 0 .. Len(next)
    /\ cnt \in 0 .. Len(next) /\ rdn \in 0 .. Len(next)
    /\ left \in [Users -> Nat]
    /\ overwritten \in BOOLEAN /\ status \in {"running", "exited", "crashed"}

(* Whatever two inserters and the deleter overwrite of each other's links, a *)
(* node leads only to one that was allocated later: no walk along the list   *)
(* goes round for ever, and no removed node comes to lead back to the front. *)
LinksLeadOn == \A n \in Nodes : next[n] # 0 => next[n] > n

(* The deleter counts the list and then walks to a node of it while others   *)
(* may be appending.  It can walk off the end, into a NULL pointer, in one   *)
(* way only: an inserter has overwritten the link another one made, which    *)
(* makes the list shorter.  Searches, appends and links of its own never do. *)
WalksInList == pc[Deleter] \in {"walk", "fetch"} => cursor[Deleter] # 0
DeleterStaysInList == ~ overwritten => WalksInList

-----------------------------------------------------------------------------
(* What the program's comments say and two searchers or two inserters break. *)

(* "insertions must be mutually exclusive to preclude two inserters from     *)
(* inserting new items at about the same time"                               *)
InsertersExclude ==
    \A i, j \in Inserters : pc[i] \in {"end", "link"} /\ pc[j] \in {"end", "link"} => i = j

(* check wakes whoever found the way barred: nobody waits for good, unless   *)
(* the program ends.                                                         *)
NobodyWaitsForGood == \A t \in Threads : pc[t] = "wait" ~> (pc[t] # "wait" \/ status # "running")

(* "Deleter can work with nobody." *)
DeleterAlone ==
    pc[Deleter] \in {"measure", "top", "walk", "fetch", "unlink", "deleted"} =>
        \A t \in Searchers \cup Inserters :
            pc[t] \notin {"search", "end", "link", "value", "count", "print"}
=============================================================================
