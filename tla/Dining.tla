------------------------------- MODULE Dining -------------------------------
(* con2/dining_problem.c: philosophers around a table.  The forks are looked *)
(* at without the mutex and taken, and put down, under it.  One action per   *)
(* access to a fork that another thread can see.  The mealtime counts, which *)
(* are only printed, are left out.                                           *)
EXTENDS Integers, Mutex

CONSTANT N  \* philosophers and forks, 5

ASSUME NAssumption == N \in Nat \ {0}
ASSUME NobodyAssumption == Nobody \notin 0 .. N - 1

VARIABLES forks,         \* 0 is not in use, 1 is in use
          philosophers   \* 0 is thinking, 1 is eating

table == <<forks, philosophers, mutex_sum, pc>>

Seats == 0 .. N - 1

(* The forks of get_forks and put_forks, b and c. *)
First(i) == i % N
Second(i) == (i + 1) % N

TableInit ==
    /\ forks = [f \in Seats |-> 0] /\ philosophers = [i \in Seats |-> 0]
    /\ mutex_sum = Nobody
    /\ pc = [i \in Seats |-> "think"]

(* print_table takes the mutex, reads and gives it back. *)
PrintTable(i, from, to) ==
    /\ pc[i] = from /\ MutexFree
    /\ Goto(i, to)
    /\ UNCHANGED <<forks, philosophers, mutex_sum>>

-----------------------------------------------------------------------------
Think(i) ==
    /\ pc[i] = "think"
    /\ philosophers' = [philosophers EXCEPT ![i] = 0]
    /\ Goto(i, "first")
    /\ UNCHANGED <<forks, mutex_sum>>

(* After get_forks the flag says whether it got them. *)
AfterGetForks(flag) == IF flag = 1 THEN "got" ELSE "think"

(* get_forks gives up when a fork is in use. *)
TestFirst(i) ==
    /\ pc[i] = "first"
    /\ Goto(i, IF forks[First(i)] = 0 THEN "second" ELSE AfterGetForks(philosophers[i]))
    /\ UNCHANGED <<forks, philosophers, mutex_sum>>

TestSecond(i) ==
    /\ pc[i] = "second"
    /\ Goto(i, IF forks[Second(i)] = 0 THEN "hungry" ELSE AfterGetForks(philosophers[i]))
    /\ UNCHANGED <<forks, philosophers, mutex_sum>>

LockToTake(i) == Lock(i, "hungry", "take") /\ UNCHANGED <<forks, philosophers>>

TakeFirst(i) ==
    /\ pc[i] = "take"
    /\ philosophers' = [philosophers EXCEPT ![i] = 1]
    /\ forks' = [forks EXCEPT ![First(i)] = 1]
    /\ Goto(i, "took")
    /\ UNCHANGED mutex_sum

TakeSecond(i) ==
    /\ pc[i] = "took"
    /\ forks' = [forks EXCEPT ![Second(i)] = 1]
    /\ mutex_sum' = Nobody
    /\ Goto(i, AfterGetForks(philosophers[i]))
    /\ UNCHANGED philosophers

Eat(i) == PrintTable(i, "got", "eating")

LockToPut(i) == Lock(i, "eating", "put") /\ UNCHANGED <<forks, philosophers>>

PutFirst(i) ==
    /\ pc[i] = "put"
    /\ forks' = [forks EXCEPT ![First(i)] = 0]
    /\ Goto(i, "putting")
    /\ UNCHANGED <<philosophers, mutex_sum>>

(* Faults: the second fork is kept; a fork counts who put it down. *)
PutDown_Kept(i) == forks
PutDown_Counted(i) == [forks EXCEPT ![Second(i)] = @ - 1]
PutDown(i) == [forks EXCEPT ![Second(i)] = 0]

PutSecond(i) ==
    /\ pc[i] = "putting"
    /\ forks' = PutDown(i)
    /\ philosophers' = [philosophers EXCEPT ![i] = 0]
    /\ mutex_sum' = Nobody
    /\ Goto(i, "done")

Rest(i) == PrintTable(i, "done", "think")

dinersProblem(i) ==
    \/ Think(i) \/ TestFirst(i) \/ TestSecond(i)
    \/ LockToTake(i) \/ TakeFirst(i) \/ TakeSecond(i)
    \/ Eat(i) \/ LockToPut(i) \/ PutFirst(i) \/ PutSecond(i) \/ Rest(i)

TableNext == \E i \in Seats : dinersProblem(i)

(* Threads run on; nothing is assumed of who wins the mutex. *)
TableFairness == \A i \in Seats : WF_table(dinersProblem(i))

TableSpec == TableInit /\ [][TableNext]_table /\ TableFairness

-----------------------------------------------------------------------------
Labels == {"think", "first", "second", "hungry", "take", "took", "got", "eating",
           "put", "putting", "done"}

(* The labels between the taking and the putting down of each fork. *)
HasFirst == {"took", "got", "eating", "put"}
HasSecond == {"got", "eating", "put", "putting"}

TableTypeOK ==
    /\ forks \in [Seats -> {0, 1}] /\ philosophers \in [Seats -> {0, 1}]
    /\ mutex_sum \in Seats \cup {Nobody}
    /\ pc \in [Seats -> Labels]

(* A fork in use is in some philosopher's hands: although neighbours may     *)
(* take and put down a fork over each other's heads, none stays marked when  *)
(* the last of them has put it down.                                         *)
ForksReturned ==
    \A f \in Seats : forks[f] = 1 =>
        \E i \in Seats : \/ f = First(i) /\ pc[i] \in HasFirst
                         \/ f = Second(i) /\ pc[i] \in HasSecond

(* Whoever starves, somebody eats again and again: giving up when a fork is  *)
(* in use keeps the table from locking up.                                   *)
SomebodyEats == []<>(\E i \in Seats : pc[i] = "eating")

(* "They have to share their forks": neighbours do not eat together. *)
NeighboursApart ==
    \A i \in Seats : pc[i] = "eating" => pc[Second(i)] # "eating" \/ N = 1
=============================================================================
