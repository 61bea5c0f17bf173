-------------------------- MODULE ProducerConsumer --------------------------
(* con1/pc.c: producers and consumers around a buffer of slots, a mutex and  *)
(* two named semaphores.  Empty and full are tested, and a consumer's slot   *)
(* is chosen, before the mutex is taken.  One action per access that another *)
(* thread can see; printing and sleeping change nothing.                     *)
EXTENDS Integers, FiniteSets, Mutex

CONSTANTS Producers, Consumers,
          Slots,     \* the length of buffer, 32
          Leftover,  \* counts earlier runs may have left in the semaphores
          Turns      \* bound: turns of the producers altogether

ASSUME ThreadsAssumption ==
    /\ IsFiniteSet(Producers) /\ IsFiniteSet(Consumers)
    /\ Producers \cap Consumers = {} /\ Nobody \notin Producers \cup Consumers
ASSUME SlotsAssumption == Slots \in Nat \ {0}
ASSUME LeftoverAssumption == Leftover \subseteq Nat
ASSUME TurnsAssumption == Turns \in Nat

VARIABLES num, sec,   \* the halves of buffer's elements: FALSE is zero
          s1, s2,
          slot,       \* a consumer's z, a producer's j
          turns       \* turns begun by producers

buffer == <<num, sec>>
vars == <<buffer, s1, s2, mutex_sum, pc, slot, turns>>

Threads == Producers \cup Consumers
Index == 0 .. Slots - 1

(* Fault: the index of the last slot is one too many. *)
Last_TooFar == Slots
Last == Slots - 1

(* sem_open does not reset a semaphore that exists. *)
Init ==
    /\ num = [i \in Index |-> FALSE] /\ sec = [i \in Index |-> FALSE]
    /\ s1 \in Leftover /\ s2 \in Leftover
    /\ mutex_sum = Nobody
    /\ pc = [t \in Threads |-> IF t \in Producers THEN "sleep" ELSE "look"]
    /\ slot = [t \in Threads |-> Last]
    /\ turns = 0

others == <<buffer, s1, s2, slot, turns>>

-----------------------------------------------------------------------------
(* consumer_thread *)

LookForItem(c) ==
    /\ pc[c] = "look"
    /\ Goto(c, IF num[0] THEN "scan" ELSE "wait")
    /\ slot' = [slot EXCEPT ![c] = Last]
    /\ UNCHANGED <<buffer, s1, s2, mutex_sum, turns>>

WaitForItem(c) ==
    /\ pc[c] = "wait" /\ s2 > 0
    /\ s2' = s2 - 1
    /\ Goto(c, "scan")
    /\ UNCHANGED <<buffer, s1, mutex_sum, slot, turns>>

(* One slot of the search for the last item, made without the mutex. *)
Scan(c) ==
    /\ pc[c] = "scan"
    /\ IF num[slot[c]] THEN Goto(c, "lock") /\ UNCHANGED slot
       ELSE IF slot[c] = 0 THEN Goto(c, "look") /\ UNCHANGED slot
       ELSE slot' = [slot EXCEPT ![c] = @ - 1] /\ UNCHANGED pc
    /\ UNCHANGED <<buffer, s1, s2, mutex_sum, turns>>

LockToConsume(c) == Lock(c, "lock", "take") /\ UNCHANGED others

Take(c) ==
    /\ pc[c] = "take"
    /\ num' = [num EXCEPT ![slot[c]] = FALSE]
    /\ Goto(c, "clear")
    /\ UNCHANGED <<sec, s1, s2, mutex_sum, slot, turns>>

Clear(c) ==
    /\ pc[c] = "clear"
    /\ sec' = [sec EXCEPT ![slot[c]] = FALSE]
    /\ Goto(c, "taken")
    /\ UNCHANGED <<num, s1, s2, mutex_sum, slot, turns>>

(* Fault: the producers are not told of the free slot. *)
Freed_Untold == s1
Freed == s1 + 1

Consumed(c) ==
    /\ pc[c] = "taken"
    /\ s1' = Freed
    /\ mutex_sum' = Nobody
    /\ Goto(c, "look")
    /\ UNCHANGED <<buffer, s2, slot, turns>>

-----------------------------------------------------------------------------
(* producer_thread *)

LookForRoom(p) ==
    /\ pc[p] = "sleep" /\ turns < Turns
    /\ turns' = turns + 1
    /\ Goto(p, IF sec[Last] THEN "wait" ELSE "lock")
    /\ UNCHANGED <<buffer, s1, s2, mutex_sum, slot>>

WaitForRoom(p) ==
    /\ pc[p] = "wait" /\ s1 > 0
    /\ s1' = s1 - 1
    /\ Goto(p, "lock")
    /\ UNCHANGED <<buffer, s2, mutex_sum, slot, turns>>

LockToProduce(p) == Lock(p, "lock", "find") /\ UNCHANGED others

(* The first free slot gets its character; num changes under the mutex only. *)
FirstFree(j) == ~ num[j] /\ \A i \in 0 .. j - 1 : num[i]

Put(p) ==
    /\ pc[p] = "find"
    /\ \E j \in Index : /\ FirstFree(j)
                        /\ num' = [num EXCEPT ![j] = TRUE]
                        /\ slot' = [slot EXCEPT ![p] = j]
    /\ Goto(p, "fill")
    /\ UNCHANGED <<sec, s1, s2, mutex_sum, turns>>

Fill(p) ==
    /\ pc[p] = "fill"
    /\ sec' = [sec EXCEPT ![slot[p]] = TRUE]
    /\ Goto(p, "filled")
    /\ UNCHANGED <<num, s1, s2, mutex_sum, slot, turns>>

(* Fault: the consumers are not told of the item. *)
Announced_Not == s2
Announced == s2 + 1

Produced(p) ==
    /\ pc[p] = "filled"
    /\ s2' = Announced
    /\ mutex_sum' = Nobody
    /\ Goto(p, "sleep")
    /\ UNCHANGED <<buffer, s1, slot, turns>>

(* Without a free slot the turn is lost. *)
NoRoom(p) ==
    /\ pc[p] = "find" /\ \A j \in Index : num[j]
    /\ mutex_sum' = Nobody
    /\ Goto(p, "sleep")
    /\ UNCHANGED <<buffer, s1, s2, slot, turns>>

-----------------------------------------------------------------------------
Consumer(c) == \/ LookForItem(c) \/ WaitForItem(c) \/ Scan(c) \/ LockToConsume(c)
               \/ Take(c) \/ Clear(c) \/ Consumed(c)

Producer(p) == \/ LookForRoom(p) \/ WaitForRoom(p) \/ LockToProduce(p) \/ Put(p)
               \/ Fill(p) \/ Produced(p) \/ NoRoom(p)

(* The producers have had their turns. *)
Over == turns = Turns /\ UNCHANGED vars

Next == \/ \E c \in Consumers : Consumer(c)
        \/ \E p \in Producers : Producer(p)
        \/ Over

(* Threads run on; a semaphore or mutex won by others again and again is in  *)
(* the end won by whoever waits, for the others sleep between two turns.     *)
Fairness == /\ \A c \in Consumers : SF_vars(Consumer(c))
            /\ \A p \in Producers : SF_vars(Producer(p))

Spec == Init /\ [][Next]_vars /\ Fairness

-----------------------------------------------------------------------------
ConsumerLabels == {"look", "wait", "scan", "lock", "take", "clear", "taken"}
ProducerLabels == {"sleep", "wait", "lock", "find", "fill", "filled"}

TypeOK ==
    /\ num \in [Index -> BOOLEAN] /\ sec \in [Index -> BOOLEAN]
    /\ s1 \in Nat /\ s2 \in Nat
    /\ mutex_sum \in Threads \cup {Nobody}
    /\ pc \in [Threads -> ConsumerLabels \cup ProducerLabels]
    /\ \A c \in Consumers : pc[c] \in ConsumerLabels
    /\ \A p \in Producers : pc[p] \in ProducerLabels
    /\ slot \in [Threads -> Index]
    /\ turns \in 0 .. Turns

(* A consumer picks its slot without the mutex, perhaps while a producer is  *)
(* halfway through filling it.  What it then takes is whole all the same: an *)
(* item with its seconds or, where another consumer was first, neither.      *)
TakesWhole == [][\A c \in Consumers : Take(c) => num[slot[c]] = sec[slot[c]]]_vars

(* A consumer that goes to wait has a count of s2 for every item there is,   *)
(* those about to be announced aside: counts that earlier runs left over,    *)
(* and waits skipped because an item was in sight, never lead to an item     *)
(* that nobody is woken for.  So it is with one consumer: of three, two can  *)
(* pick the same item and so use up the count of another one.                *)
Items == {i \in Index : num[i]}
AboutToAnnounce == {p \in Producers : pc[p] \in {"fill", "filled"}}
ItemsAnnounced ==
    \A c \in Consumers : pc[c] \in {"look", "wait"} =>
        Cardinality(Items) <= s2 + Cardinality(AboutToAnnounce)

(* An item in the buffer gets the consumer to take one, and a producer that  *)
(* waits for room gets it: the two semaphores, although posted and waited on *)
(* unequally often, keep nobody asleep.                                      *)
NobodySleepsOn ==
    /\ (Items # {}) ~> (\E c \in Consumers : pc[c] = "take")
    /\ \A p \in Producers : (pc[p] = "wait") ~> (pc[p] # "wait")

(* "lock the pthread in order to protect muti consumers to consume the same  *)
(* index", says the program where it takes the mutex: what a consumer takes  *)
(* is an item.  Two consumers break it: both have picked the slot by then.   *)
TakesAnItem == [][\A c \in Consumers : Take(c) => num[slot[c]]]_vars
=============================================================================
