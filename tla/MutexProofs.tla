---------------------------- MODULE MutexProofs ----------------------------
(* Proofs about the two programs that share data under mutex_sum.  Of        *)
(* ProducerConsumer, for any number of producers, slots and turns and any    *)
(* counts left in the semaphores: what is taken is never half an item, for   *)
(* any number of consumers, and with one consumer every item is announced.   *)
(* Of Dining, for any number of philosophers: no fork stays in use with      *)
(* nobody holding it.                                                        *)
EXTENDS ProducerConsumer, Dining, FiniteSetTheorems, TLAPS

(* The stretches of code under the mutex. *)
Critical == {"take", "clear", "taken", "find", "fill", "filled"}
MutexHeld == \A t \in Threads : pc[t] \in Critical <=> mutex_sum = t

(* The halves of a slot differ only while its holder is between the two.     *)
Halfway(i) == \E t \in Threads : pc[t] \in {"clear", "fill"} /\ slot[t] = i
HalvesAgree ==
    /\ \A i \in Index : Halfway(i) \/ num[i] = sec[i]
    /\ \A t \in Threads : /\ pc[t] = "clear" => ~ num[slot[t]]
                          /\ pc[t] = "fill" => num[slot[t]]

Shared == TypeOK /\ MutexHeld /\ HalvesAgree

(* One consumer: what it picked stays where it is until it has the mutex,    *)
(* and a search that finds the first slot empty has missed nothing, for      *)
(* producers fill that one first.                                            *)
Picked == \A c \in Consumers : pc[c] \in {"lock", "take"} => num[slot[c]]
Passed ==
    \A c \in Consumers :
        /\ pc[c] = "wait" => slot[c] = Last
        /\ pc[c] = "scan" /\ ~ num[0] => \A i \in Index : i > slot[c] => ~ num[i]

(* Between its wait and its taking an item the consumer is one count ahead.  *)
Ahead(c) == IF pc[c] \in {"scan", "lock", "take"} THEN 1 ELSE 0
Counted ==
    \A c \in Consumers :
        Cardinality(Items) <= s2 + Cardinality(AboutToAnnounce) + Ahead(c)

OneConsumer == \A c, d \in Consumers : c = d

IInv == Shared /\ Picked /\ Passed /\ Counted

-----------------------------------------------------------------------------
LEMMA SetsFinite ==
    /\ IsFiniteSet(Items) /\ Cardinality(Items) \in Nat
    /\ IsFiniteSet(AboutToAnnounce) /\ Cardinality(AboutToAnnounce) \in Nat
<1>1. IsFiniteSet(Index)
  BY SlotsAssumption, FS_Interval DEF Index
<1> QED
  BY <1>1, ThreadsAssumption, FS_Subset, FS_CardinalityType
     DEF Items, AboutToAnnounce

(* What main sets up satisfies the invariant. *)
LEMMA InitEstablishes == Init => IInv
<1> SUFFICES ASSUME Init PROVE IInv
  OBVIOUS
<1> USE SlotsAssumption, ThreadsAssumption DEF Init, Index
<1>1. TypeOK
  BY LeftoverAssumption, TurnsAssumption
     DEF TypeOK, Threads, ConsumerLabels, ProducerLabels, Last
<1>2. MutexHeld /\ HalvesAgree
  BY DEF MutexHeld, HalvesAgree, Critical, Threads
<1>3. Picked /\ Passed
  BY DEF Picked, Passed, Threads
<1>4. Counted
  <2>1. Items = {}
    BY DEF Items
  <2>2. Cardinality(Items) = 0
    BY <2>1, FS_EmptySet
  <2> QED
    BY <1>1, <2>2, SetsFinite DEF Counted, Ahead, TypeOK
<1> QED
  BY <1>1, <1>2, <1>3, <1>4 DEF IInv, Shared

(* A consumer's step keeps the variables' types. *)
LEMMA ConsumerType ==
    ASSUME TypeOK, NEW c \in Consumers, Consumer(c)
    PROVE  TypeOK'
<1> USE ThreadsAssumption, SlotsAssumption
    DEF TypeOK, Threads, ConsumerLabels, Goto, buffer, Index
<1>1. CASE LookForItem(c)
  BY <1>1 DEF LookForItem, Last
<1>2. CASE WaitForItem(c)
  BY <1>2 DEF WaitForItem
<1>3. CASE Scan(c)
  <2>1. pc' \in [Threads -> ConsumerLabels \cup ProducerLabels]
        /\ (\A d \in Consumers : pc'[d] \in ConsumerLabels)
        /\ (\A p \in Producers : pc'[p] \in ProducerLabels)
    BY <1>3 DEF Scan
  <2>2. slot' \in [Threads -> Index]
    BY <1>3 DEF Scan
  <2> QED
    BY <1>3, <2>1, <2>2 DEF Scan
<1>4. CASE LockToConsume(c)
  BY <1>4 DEF LockToConsume, Lock, others
<1>5. CASE Take(c)
  BY <1>5 DEF Take
<1>6. CASE Clear(c)
  BY <1>6 DEF Clear
<1>7. CASE Consumed(c)
  BY <1>7 DEF Consumed, Freed
<1> QED
  BY <1>1, <1>2, <1>3, <1>4, <1>5, <1>6, <1>7 DEF Consumer

(* A producer's step keeps the variables' types. *)
LEMMA ProducerType ==
    ASSUME TypeOK, NEW p \in Producers, Producer(p)
    PROVE  TypeOK'
<1> USE ThreadsAssumption, TurnsAssumption
    DEF TypeOK, Threads, ProducerLabels, Goto, buffer
<1>1. CASE LookForRoom(p)
  BY <1>1 DEF LookForRoom
<1>2. CASE WaitForRoom(p)
  BY <1>2 DEF WaitForRoom
<1>3. CASE LockToProduce(p)
  BY <1>3 DEF LockToProduce, Lock, others
<1>4. CASE Put(p)
  BY <1>4 DEF Put
<1>5. CASE Fill(p)
  BY <1>5 DEF Fill
<1>6. CASE Produced(p)
  BY <1>6 DEF Produced, Announced
<1>7. CASE NoRoom(p)
  BY <1>7 DEF NoRoom
<1> QED
  BY <1>1, <1>2, <1>3, <1>4, <1>5, <1>6, <1>7 DEF Producer

(* The mutex excludes, and under it the halves of a slot are changed one     *)
(* after the other.                                                          *)
LEMMA ConsumerShared ==
    ASSUME Shared, NEW c \in Consumers, Consumer(c)
    PROVE  Shared'
<1> USE ThreadsAssumption DEF Shared
<1>0. TypeOK' /\ c \in Threads /\ c # Nobody
  BY ConsumerType DEF Threads
<1>1. CASE LookForItem(c) \/ WaitForItem(c) \/ Scan(c)
  <2>1. MutexHeld'
    BY <1>0, <1>1 DEF LookForItem, WaitForItem, Scan, MutexHeld, TypeOK, Goto,
                      Critical
  <2>2. HalvesAgree'
    <3>1. UNCHANGED buffer /\ {pc[c], pc'[c]} \cap {"clear", "fill"} = {}
      BY <1>0, <1>1 DEF LookForItem, WaitForItem, Scan, TypeOK, Goto
    <3>2. \A t \in Threads \ {c} : pc'[t] = pc[t] /\ slot'[t] = slot[t]
      BY <1>0, <1>1 DEF LookForItem, WaitForItem, Scan, TypeOK, Goto
    <3> QED
      BY <3>1, <3>2 DEF HalvesAgree, Halfway, buffer
  <2> QED
    BY <1>0, <2>1, <2>2
<1>2. CASE LockToConsume(c)
  <2>1. MutexHeld'
    BY <1>0, <1>2 DEF LockToConsume, Lock, others, MutexFree, MutexHeld, TypeOK,
                      Goto, Critical, Threads
  <2>2. HalvesAgree'
    BY <1>0, <1>2 DEF LockToConsume, Lock, others, HalvesAgree, Halfway, TypeOK,
                      Goto, buffer
  <2> QED
    BY <1>0, <2>1, <2>2
<1>3. CASE Take(c)
  <2>1. MutexHeld'
    BY <1>0, <1>3 DEF Take, MutexHeld, TypeOK, Goto, Critical
  <2>2. \A t \in Threads : pc[t] \notin {"clear", "fill"}
    BY <1>0, <1>3 DEF Take, MutexHeld, Critical
  <2>3. /\ pc'[c] = "clear" /\ slot' = slot /\ sec' = sec /\ ~ num'[slot[c]]
        /\ \A i \in Index \ {slot[c]} : num'[i] = num[i]
        /\ \A t \in Threads \ {c} : pc'[t] = pc[t]
    BY <1>0, <1>3 DEF Take, TypeOK, Goto
  <2> QED
    BY <1>0, <2>1, <2>2, <2>3 DEF HalvesAgree, Halfway
<1>4. CASE Clear(c)
  <2>1. MutexHeld'
    BY <1>0, <1>4 DEF Clear, MutexHeld, TypeOK, Goto, Critical
  <2>2. \A t \in Threads \ {c} : pc[t] \notin {"clear", "fill"}
    BY <1>0, <1>4 DEF Clear, MutexHeld, Critical
  <2>3. /\ pc[c] = "clear" /\ pc'[c] = "taken" /\ slot' = slot /\ num' = num
        /\ ~ sec'[slot[c]] /\ sec'[slot[c]] \in BOOLEAN
        /\ \A i \in Index \ {slot[c]} : sec'[i] = sec[i]
        /\ \A t \in Threads \ {c} : pc'[t] = pc[t]
    BY <1>0, <1>4 DEF Clear, TypeOK, Goto
  <2>4. num[slot[c]] = sec'[slot[c]]
    BY <1>0, <2>3 DEF HalvesAgree, TypeOK
  <2> QED
    BY <1>0, <2>1, <2>2, <2>3, <2>4 DEF HalvesAgree, Halfway, TypeOK
<1>5. CASE Consumed(c)
  <2>1. MutexHeld'
    BY <1>0, <1>5 DEF Consumed, MutexHeld, TypeOK, Goto, Critical, Threads
  <2>2. HalvesAgree'
    BY <1>0, <1>5 DEF Consumed, HalvesAgree, Halfway, TypeOK, Goto, buffer
  <2> QED
    BY <1>0, <2>1, <2>2
<1> QED
  BY <1>1, <1>2, <1>3, <1>4, <1>5 DEF Consumer

LEMMA ProducerShared ==
    ASSUME Shared, NEW p \in Producers, Producer(p)
    PROVE  Shared'
<1> USE ThreadsAssumption DEF Shared
<1>0. TypeOK' /\ p \in Threads /\ p # Nobody
  BY ProducerType DEF Threads
<1>1. CASE LookForRoom(p) \/ WaitForRoom(p)
  <2>1. MutexHeld'
    BY <1>0, <1>1 DEF LookForRoom, WaitForRoom, MutexHeld, TypeOK, Goto, Critical
  <2>2. HalvesAgree'
    BY <1>0, <1>1 DEF LookForRoom, WaitForRoom, HalvesAgree, Halfway, TypeOK,
                      Goto, buffer
  <2> QED
    BY <1>0, <2>1, <2>2
<1>2. CASE LockToProduce(p)
  <2>1. MutexHeld'
    BY <1>0, <1>2 DEF LockToProduce, Lock, others, MutexFree, MutexHeld, TypeOK,
                      Goto, Critical, Threads
  <2>2. HalvesAgree'
    BY <1>0, <1>2 DEF LockToProduce, Lock, others, HalvesAgree, Halfway, TypeOK,
                      Goto, buffer
  <2> QED
    BY <1>0, <2>1, <2>2
<1>3. CASE Put(p)
  <2>1. MutexHeld'
    BY <1>0, <1>3 DEF Put, MutexHeld, TypeOK, Goto, Critical
  <2>2. \A t \in Threads : pc[t] \notin {"clear", "fill"}
    BY <1>0, <1>3 DEF Put, MutexHeld, Critical
  <2>3. /\ pc'[p] = "fill" /\ sec' = sec /\ num'[slot'[p]]
        /\ \A i \in Index \ {slot'[p]} : num'[i] = num[i]
        /\ \A t \in Threads \ {p} : pc'[t] = pc[t]
    BY <1>0, <1>3 DEF Put, TypeOK, Goto
  <2> QED
    BY <1>0, <2>1, <2>2, <2>3 DEF HalvesAgree, Halfway
<1>4. CASE Fill(p)
  <2>1. MutexHeld'
    BY <1>0, <1>4 DEF Fill, MutexHeld, TypeOK, Goto, Critical
  <2>2. \A t \in Threads \ {p} : pc[t] \notin {"clear", "fill"}
    BY <1>0, <1>4 DEF Fill, MutexHeld, Critical
  <2>3. /\ pc[p] = "fill" /\ pc'[p] = "filled" /\ slot' = slot /\ num' = num
        /\ sec'[slot[p]] /\ sec'[slot[p]] \in BOOLEAN
        /\ \A i \in Index \ {slot[p]} : sec'[i] = sec[i]
        /\ \A t \in Threads \ {p} : pc'[t] = pc[t]
    BY <1>0, <1>4 DEF Fill, TypeOK, Goto
  <2>4. num[slot[p]] = sec'[slot[p]]
    BY <1>0, <2>3 DEF HalvesAgree, TypeOK
  <2> QED
    BY <1>0, <2>1, <2>2, <2>3, <2>4 DEF HalvesAgree, Halfway, TypeOK
<1>5. CASE Produced(p) \/ NoRoom(p)
  <2>1. MutexHeld'
    BY <1>0, <1>5 DEF Produced, NoRoom, MutexHeld, TypeOK, Goto, Critical, Threads
  <2>2. HalvesAgree'
    BY <1>0, <1>5 DEF Produced, NoRoom, HalvesAgree, Halfway, TypeOK, Goto, buffer
  <2> QED
    BY <1>0, <2>1, <2>2
<1> QED
  BY <1>1, <1>2, <1>3, <1>4, <1>5 DEF Producer

-----------------------------------------------------------------------------
(* What producers do to items and counts, as long as consumers stay: an item *)
(* comes with its producer's promise to announce it, kept when it posts.     *)
LEMMA ProducerCounted ==
    ASSUME Shared, Counted, NEW p \in Producers, Producer(p)
    PROVE  Counted'
<1> USE ThreadsAssumption DEF Shared
<1>0. p \in Threads /\ \A c \in Consumers : c \in Threads /\ c # p
  BY DEF Threads
<1>1. \A c \in Consumers : pc'[c] = pc[c]
  BY <1>0 DEF TypeOK, Producer, LookForRoom, WaitForRoom, LockToProduce, Lock,
              others, Put, Fill, Produced, NoRoom, Goto
<1>2. \A c \in Consumers : Ahead(c)' = Ahead(c) /\ Ahead(c) \in Nat
  BY <1>1 DEF Ahead
<1>3. CASE Put(p)
  <2>1. PICK j \in Index : ~ num[j] /\ num' = [num EXCEPT ![j] = TRUE]
    BY <1>3 DEF Put, FirstFree
  <2>2. Items' = Items \cup {j} /\ j \notin Items
    BY <2>1 DEF Items, TypeOK
  <2>3. AboutToAnnounce' = AboutToAnnounce \cup {p} /\ p \notin AboutToAnnounce
    BY <1>0, <1>3 DEF Put, AboutToAnnounce, Goto, TypeOK
  <2>4. /\ Cardinality(Items') = Cardinality(Items) + 1
        /\ Cardinality(AboutToAnnounce') = Cardinality(AboutToAnnounce) + 1
    BY <2>2, <2>3, SetsFinite, FS_AddElement
  <2>5. s2' = s2 /\ s2 \in Nat
    BY <1>3 DEF Put, TypeOK
  <2> QED
    BY <1>2, <2>4, <2>5, SetsFinite DEF Counted
<1>4. CASE Produced(p)
  <2>1. AboutToAnnounce' = AboutToAnnounce \ {p} /\ p \in AboutToAnnounce
    BY <1>0, <1>4 DEF Produced, AboutToAnnounce, Goto, TypeOK
  <2>2. Cardinality(AboutToAnnounce') = Cardinality(AboutToAnnounce) - 1
    BY <2>1, SetsFinite, FS_RemoveElement
  <2>3. s2' = s2 + 1 /\ s2 \in Nat /\ Items' = Items
    BY <1>4 DEF Produced, Announced, TypeOK, Items, buffer
  <2> QED
    BY <1>2, <2>2, <2>3, SetsFinite DEF Counted
<1>5. CASE LookForRoom(p) \/ WaitForRoom(p) \/ LockToProduce(p) \/ Fill(p) \/ NoRoom(p)
  <2>1. /\ \A q \in Producers \ {p} : pc'[q] = pc[q]
        /\ pc'[p] \in {"fill", "filled"} <=> pc[p] \in {"fill", "filled"}
    BY <1>0, <1>5 DEF LookForRoom, WaitForRoom, LockToProduce, Lock, others, Fill,
                      NoRoom, Goto, TypeOK, Threads
  <2>2. Items' = Items /\ s2' = s2
    BY <1>5 DEF LookForRoom, WaitForRoom, LockToProduce, Lock, others, Fill,
                NoRoom, Items, buffer
  <2>3. AboutToAnnounce' = AboutToAnnounce
    BY <2>1 DEF AboutToAnnounce
  <2> QED
    BY <1>2, <2>2, <2>3 DEF Counted
<1> QED
  BY <1>3, <1>4, <1>5 DEF Producer

(* Producers only add items, and the first slot first. *)
LEMMA ProducerSearch ==
    ASSUME Shared, Picked, Passed, NEW p \in Producers, Producer(p)
    PROVE  Picked' /\ Passed'
<1> USE ThreadsAssumption, SlotsAssumption DEF Shared, Index, Last
<1>0. p \in Threads /\ \A c \in Consumers : c \in Threads /\ c # p
  BY DEF Threads
<1>1. \A c \in Consumers : pc'[c] = pc[c] /\ slot'[c] = slot[c]
  BY <1>0 DEF TypeOK, Producer, LookForRoom, WaitForRoom, LockToProduce, Lock,
              others, Put, Fill, Produced, NoRoom, Goto
<1>2. CASE Put(p)
  <2>1. PICK j \in Index : FirstFree(j) /\ num' = [num EXCEPT ![j] = TRUE]
    BY <1>2 DEF Put
  <2>2. \A i \in Index : num[i] => num'[i]
    BY <2>1 DEF TypeOK
  <2>3. Picked'
    BY <1>0, <1>1, <2>2 DEF Picked, TypeOK
  <2>4. num'[0]
    BY <2>1 DEF FirstFree, TypeOK
  <2> QED
    BY <1>1, <2>3, <2>4 DEF Passed
<1>3. CASE ~ Put(p)
  <2>1. num' = num
    BY <1>3 DEF Producer, LookForRoom, WaitForRoom, LockToProduce, Lock, others,
                Fill, Produced, NoRoom, buffer
  <2> QED
    BY <1>1, <2>1 DEF Picked, Passed
<1> QED
  BY <1>2, <1>3

(* The one consumer's step: it takes an item that nobody else takes. *)
LEMMA ConsumerSearch ==
    ASSUME OneConsumer, Shared, Picked, Passed, NEW c \in Consumers, Consumer(c)
    PROVE  Picked' /\ Passed'
<1> USE ThreadsAssumption, SlotsAssumption DEF Shared, Index, Last
<1>0. c \in Threads /\ \A d \in Consumers : d = c
  BY DEF Threads, OneConsumer
<1>1. CASE LookForItem(c)
  <2>1. slot'[c] = Slots - 1 /\ num' = num /\ pc'[c] \in {"scan", "wait"}
        /\ (pc'[c] = "scan" => num[0])
    BY <1>0, <1>1 DEF LookForItem, Goto, TypeOK, buffer
  <2> QED
    BY <1>0, <2>1 DEF Picked, Passed
<1>2. CASE WaitForItem(c)
  BY <1>0, <1>2 DEF WaitForItem, Goto, TypeOK, buffer, Picked, Passed
<1>3. CASE Scan(c)
  <2>1. pc[c] = "scan" /\ num' = num /\ slot[c] \in Index
    BY <1>0, <1>3 DEF Scan, TypeOK, buffer
  <2>2. CASE num[slot[c]]
    BY <1>0, <1>3, <2>1, <2>2 DEF Scan, Goto, TypeOK, Picked, Passed
  <2>3. CASE ~ num[slot[c]] /\ slot[c] = 0
    BY <1>0, <1>3, <2>1, <2>3 DEF Scan, Goto, TypeOK, Picked, Passed
  <2>4. CASE ~ num[slot[c]] /\ slot[c] # 0
    <3>1. pc' = pc /\ slot'[c] = slot[c] - 1
      BY <1>0, <1>3, <2>4 DEF Scan, TypeOK
    <3> QED
      BY <1>0, <2>1, <2>4, <3>1 DEF Picked, Passed
  <2> QED
    BY <2>2, <2>3, <2>4
<1>4. CASE LockToConsume(c)
  BY <1>0, <1>4 DEF LockToConsume, Lock, others, Goto, TypeOK, buffer, Picked,
                    Passed
<1>5. CASE Take(c) \/ Clear(c) \/ Consumed(c)
  <2>1. pc'[c] \in {"clear", "taken", "look"}
    BY <1>0, <1>5 DEF Take, Clear, Consumed, Goto, TypeOK
  <2> QED
    BY <1>0, <2>1 DEF Picked, Passed
<1> QED
  BY <1>1, <1>2, <1>3, <1>4, <1>5 DEF Consumer

LEMMA ConsumerCounted ==
    ASSUME OneConsumer, Shared, Picked, Passed, Counted, NEW c \in Consumers, Consumer(c)
    PROVE  Counted'
<1> USE ThreadsAssumption, SlotsAssumption DEF Shared, Index, Last
<1>0. c \in Threads /\ \A d \in Consumers : d = c
  BY DEF Threads, OneConsumer
<1>1. AboutToAnnounce' = AboutToAnnounce
  <2>1. \A p \in Producers : p \in Threads /\ p # c /\ pc'[p] = pc[p]
    BY <1>0 DEF TypeOK, Threads, Consumer, LookForItem, WaitForItem, Scan,
                LockToConsume, Lock, Take, Clear, Consumed, Goto
  <2> QED
    BY <2>1 DEF AboutToAnnounce
<1> DEFINE n == Cardinality(Items)
           a == Cardinality(AboutToAnnounce)
<1>2. n \in Nat /\ a \in Nat /\ s2 \in Nat /\ n <= s2 + a + Ahead(c)
  BY SetsFinite DEF Counted, TypeOK
<1>3. SUFFICES Cardinality(Items') <= s2' + a + Ahead(c)'
  BY <1>0, <1>1 DEF Counted
<1>4. CASE LookForItem(c) \/ LockToConsume(c) \/ Clear(c) \/ Consumed(c)
  <2>1. Items' = Items /\ s2' = s2
    BY <1>4 DEF LookForItem, LockToConsume, Lock, others, Clear, Consumed, Items,
                buffer
  <2>2. Ahead(c)' >= Ahead(c)
    BY <1>0, <1>4 DEF LookForItem, LockToConsume, Lock, others, Clear, Consumed,
                      Ahead, Goto, TypeOK
  <2> QED
    BY <1>2, <2>1, <2>2 DEF Ahead
<1>5. CASE WaitForItem(c)
  <2>1. Items' = Items /\ s2' = s2 - 1 /\ Ahead(c) = 0 /\ Ahead(c)' = 1
    BY <1>0, <1>5 DEF WaitForItem, Items, buffer, Ahead, Goto, TypeOK
  <2> QED
    BY <1>2, <2>1
<1>6. CASE Scan(c)
  <2>1. Items' = Items /\ s2' = s2 /\ pc[c] = "scan" /\ slot[c] \in Index
    BY <1>0, <1>6 DEF Scan, Items, buffer, TypeOK
  <2>2. CASE num[slot[c]] \/ slot[c] # 0
    <3>1. Ahead(c)' = 1 /\ Ahead(c) = 1
      BY <1>0, <1>6, <2>1, <2>2 DEF Scan, Ahead, Goto, TypeOK
    <3> QED
      BY <1>2, <2>1, <3>1
  <2>3. CASE ~ num[slot[c]] /\ slot[c] = 0
    <3>1. Items = {}
      BY <1>0, <2>1, <2>3 DEF Passed, Items
    <3>2. n = 0
      BY <3>1, FS_EmptySet
    <3> QED
      BY <1>2, <2>1, <3>2 DEF Ahead
  <2> QED
    BY <2>2, <2>3
<1>7. CASE Take(c)
  <2>1. Items' = Items \ {slot[c]} /\ slot[c] \in Items
    BY <1>0, <1>7 DEF Take, Picked, Items, TypeOK
  <2>2. Cardinality(Items') = n - 1
    BY <2>1, SetsFinite, FS_RemoveElement
  <2>3. s2' = s2 /\ Ahead(c) = 1 /\ Ahead(c)' = 0
    BY <1>0, <1>7 DEF Take, Ahead, Goto, TypeOK
  <2> QED
    BY <1>2, <2>2, <2>3
<1> QED
  BY <1>4, <1>5, <1>6, <1>7 DEF Consumer

-----------------------------------------------------------------------------
(* Nothing changes. *)
LEMMA SharedFrame == ASSUME Shared, UNCHANGED vars PROVE Shared'
BY DEF Shared, TypeOK, MutexHeld, HalvesAgree, Halfway, vars, buffer

(* For any number of consumers: types, the mutex, and the halves of a slot.  *)
THEOREM SharedInvariance == Spec => []Shared
<1>1. Init => Shared
  BY InitEstablishes DEF IInv
<1>2. Shared /\ [Next]_vars => Shared'
  BY ConsumerShared, ProducerShared, SharedFrame DEF Next, Over
<1> QED
  BY <1>1, <1>2, PTL DEF Spec

(* Every variable keeps its type, for any number of consumers: a semaphore   *)
(* is never lowered below zero and no index leaves the buffer.               *)
THEOREM BufferTypeCorrect == Spec => []TypeOK
<1>1. Shared => TypeOK
  BY DEF Shared
<1> QED
  BY SharedInvariance, <1>1, PTL

(* With one consumer the whole invariant is kept. *)
LEMMA NextIInv == ASSUME OneConsumer, IInv, [Next]_vars PROVE IInv'
<1>1. ASSUME NEW c \in Consumers, Consumer(c) PROVE IInv'
  BY <1>1, ConsumerShared, ConsumerSearch, ConsumerCounted DEF IInv
<1>2. ASSUME NEW p \in Producers, Producer(p) PROVE IInv'
  BY <1>2, ProducerShared, ProducerSearch, ProducerCounted DEF IInv
<1>3. CASE UNCHANGED vars
  <2>1. Shared'
    BY <1>3, SharedFrame DEF IInv
  <2>2. (Picked /\ Passed)'
    BY <1>3 DEF IInv, Picked, Passed, vars, buffer
  <2>3. Items' = Items /\ AboutToAnnounce' = AboutToAnnounce /\ s2' = s2 /\ pc' = pc
    BY <1>3 DEF Items, AboutToAnnounce, vars, buffer
  <2> QED
    BY <2>1, <2>2, <2>3 DEF IInv, Counted, Ahead
<1> QED
  BY <1>1, <1>2, <1>3 DEF Next, Over

THEOREM OneConsumerInvariance ==
    ASSUME OneConsumer PROVE Spec => []IInv
<1>1. IInv /\ [Next]_vars => IInv'
  BY NextIInv
<1> QED
  BY InitEstablishes, <1>1, PTL DEF Spec

(* One consumer and any number of producers: whenever the consumer goes to   *)
(* wait, s2 counts every item that is not about to be announced.             *)
THEOREM AlwaysAnnounced ==
    ASSUME OneConsumer PROVE Spec => []ItemsAnnounced
<1>1. IInv => ItemsAnnounced
  BY SetsFinite DEF IInv, Shared, TypeOK, Counted, Ahead, ItemsAnnounced
<1> QED
  BY OneConsumerInvariance, <1>1, PTL

(* Any number of consumers and producers: what a consumer takes is a whole   *)
(* item or nothing, though it picked the slot without the mutex.             *)
THEOREM AlwaysTakesWhole == Spec => TakesWhole
<1>1. Shared /\ [Next]_vars =>
        [\A c \in Consumers : Take(c) => num[slot[c]] = sec[slot[c]]]_vars
  <2> SUFFICES ASSUME Shared, NEW c \in Consumers, Take(c)
               PROVE  num[slot[c]] = sec[slot[c]]
    OBVIOUS
  <2>1. c \in Threads /\ slot[c] \in Index /\ mutex_sum = c
    BY DEF Take, Shared, TypeOK, MutexHeld, Threads, Critical
  <2>2. ~ Halfway(slot[c])
    BY <2>1 DEF Take, Shared, MutexHeld, Halfway, Critical
  <2> QED
    BY <2>1, <2>2 DEF Shared, HalvesAgree
<1> QED
  BY SharedInvariance, <1>1, PTL DEF Spec, TakesWhole

-----------------------------------------------------------------------------
(* Whoever has begun to take forks says that it eats; get_forks' caller      *)
(* would otherwise walk away with both.                                      *)
TakerEats == \A i \in Seats : pc[i] = "took" => philosophers[i] = 1

TableInv == TableTypeOK /\ ForksReturned /\ TakerEats

(* The initial state of main satisfies the invariant. *)
LEMMA TableInitEstablishes == TableInit => TableInv
  BY DEF TableInit, TableInv, TableTypeOK, ForksReturned, TakerEats, Labels

(* Every step of a philosopher keeps the variables' types. *)
LEMMA TableTypePreserved ==
  ASSUME TableTypeOK, NEW i \in Seats, dinersProblem(i)
  PROVE  TableTypeOK'
<1> USE DEF TableTypeOK, Labels, Goto, Lock, PrintTable, MutexFree
<1>1. CASE Think(i)
  BY <1>1 DEF Think
<1>2. CASE TestFirst(i) \/ TestSecond(i)
  BY <1>2 DEF TestFirst, TestSecond, AfterGetForks
<1>3. CASE LockToTake(i) \/ LockToPut(i)
  BY <1>3 DEF LockToTake, LockToPut
<1>4. CASE TakeFirst(i)
  BY <1>4 DEF TakeFirst
<1>5. CASE TakeSecond(i)
  BY <1>5 DEF TakeSecond, AfterGetForks
<1>6. CASE Eat(i) \/ Rest(i)
  BY <1>6 DEF Eat, Rest
<1>7. CASE PutFirst(i)
  BY <1>7 DEF PutFirst
<1>8. CASE PutSecond(i)
  BY <1>8 DEF PutSecond, PutDown
<1> QED
  BY <1>1, <1>2, <1>3, <1>4, <1>5, <1>6, <1>7, <1>8 DEF dinersProblem

(* Every step of a philosopher keeps the flag of those taking forks. *)
LEMMA TakerPreserved ==
  ASSUME TableTypeOK, TakerEats, NEW i \in Seats, dinersProblem(i)
  PROVE  TakerEats'
<1> USE DEF TableTypeOK, TakerEats, Goto, Lock, PrintTable
<1>1. CASE Think(i)
  BY <1>1 DEF Think
<1>2. CASE TestFirst(i) \/ TestSecond(i)
  BY <1>2 DEF TestFirst, TestSecond, AfterGetForks
<1>3. CASE LockToTake(i) \/ LockToPut(i)
  BY <1>3 DEF LockToTake, LockToPut
<1>4. CASE TakeFirst(i)
  BY <1>4 DEF TakeFirst
<1>5. CASE TakeSecond(i)
  BY <1>5 DEF TakeSecond, AfterGetForks
<1>6. CASE Eat(i) \/ Rest(i)
  BY <1>6 DEF Eat, Rest
<1>7. CASE PutFirst(i)
  BY <1>7 DEF PutFirst
<1>8. CASE PutSecond(i)
  BY <1>8 DEF PutSecond
<1> QED
  BY <1>1, <1>2, <1>3, <1>4, <1>5, <1>6, <1>7, <1>8 DEF dinersProblem

(* Every step of a philosopher leaves each fork in use in somebody's hands:  *)
(* whoever leaves the labels of a fork has just put it down, for all others  *)
(* that think they have it too.                                              *)
LEMMA ForksPreserved ==
  ASSUME TableInv, NEW i \in Seats, dinersProblem(i)
  PROVE  ForksReturned'
<1> USE DEF TableInv, TableTypeOK, HasFirst, HasSecond, Goto
<1> DEFINE Holds(j, f) == \/ f = First(j) /\ pc[j] \in HasFirst
                          \/ f = Second(j) /\ pc[j] \in HasSecond
<1> SUFFICES ASSUME NEW f \in Seats, forks'[f] = 1
             PROVE  \E j \in Seats : Holds(j, f)'
  BY DEF ForksReturned, First, Second
<1>0. forks[f] = 1 => \E j \in Seats : Holds(j, f)
  BY DEF ForksReturned
<1>1. \A j \in Seats \ {i} : Holds(j, f) => Holds(j, f)'
  <2>1. \A j \in Seats \ {i} : pc'[j] = pc[j]
    BY DEF dinersProblem, Think, TestFirst, TestSecond, LockToTake, LockToPut,
           Lock, TakeFirst, TakeSecond, Eat, Rest, PrintTable, PutFirst, PutSecond
  <2> QED
    BY <2>1 DEF First, Second
<1>2. CASE \/ Think(i) \/ TestFirst(i) \/ TestSecond(i) \/ LockToTake(i)
           \/ Eat(i) \/ LockToPut(i) \/ Rest(i)
  <2>1. forks' = forks /\ (Holds(i, f) => Holds(i, f)')
    BY <1>2 DEF Think, TestFirst, TestSecond, LockToTake, LockToPut, Lock, Eat,
                Rest, PrintTable, First, Second
  <2> QED
    BY <2>1, <1>0, <1>1
<1>3. CASE TakeFirst(i)
  <2>1. pc'[i] = "took" /\ pc[i] = "take"
    BY <1>3 DEF TakeFirst
  <2>2. CASE f = First(i)
    BY <2>1, <2>2 DEF First
  <2>3. CASE f # First(i)
    BY <1>3, <2>1, <2>3, <1>0, <1>1 DEF TakeFirst
  <2> QED
    BY <2>2, <2>3
<1>4. CASE TakeSecond(i)
  <2>1. pc'[i] = "got" /\ pc[i] = "took"
    BY <1>4 DEF TakeSecond, TakerEats, AfterGetForks
  <2>2. CASE f = Second(i)
    BY <2>1, <2>2 DEF Second
  <2>3. CASE f # Second(i)
    <3>1. Holds(i, f) => Holds(i, f)'
      BY <2>1 DEF First, Second
    <3> QED
      BY <1>4, <2>3, <3>1, <1>0, <1>1 DEF TakeSecond
  <2> QED
    BY <2>2, <2>3
<1>5. CASE PutFirst(i)
  <2>1. pc'[i] = "putting" /\ pc[i] = "put" /\ f # First(i)
    BY <1>5 DEF PutFirst
  <2>2. Holds(i, f) => Holds(i, f)'
    BY <2>1 DEF Second
  <2> QED
    BY <1>5, <2>1, <2>2, <1>0, <1>1 DEF PutFirst
<1>6. CASE PutSecond(i)
  <2>1. pc[i] = "putting" /\ f # Second(i)
    BY <1>6 DEF PutSecond, PutDown
  <2> QED
    BY <1>6, <2>1, <1>0, <1>1 DEF PutSecond, PutDown
<1> QED
  BY <1>2, <1>3, <1>4, <1>5, <1>6 DEF dinersProblem

(* The invariant holds of every behaviour, for any number of philosophers. *)
THEOREM DiningInvariance == TableSpec => []TableInv
<1>1. TableInv /\ [TableNext]_table => TableInv'
  <2> SUFFICES ASSUME TableInv, [TableNext]_table PROVE TableInv'
    OBVIOUS
  <2>1. CASE TableNext
    BY <2>1, TableTypePreserved, TakerPreserved, ForksPreserved
       DEF TableNext, TableInv
  <2>2. CASE UNCHANGED table
    BY <2>2 DEF table, TableInv, TableTypeOK, ForksReturned, TakerEats, First,
                Second
  <2> QED
    BY <2>1, <2>2
<1> QED
  BY TableInitEstablishes, <1>1, PTL DEF TableSpec

(* Every variable keeps its type: a fork is in use or it is not, however     *)
(* many philosophers took it.                                                *)
THEOREM DiningTypeCorrect == TableSpec => []TableTypeOK
<1>1. TableInv => TableTypeOK
  BY DEF TableInv
<1> QED
  BY DiningInvariance, <1>1, PTL

(* A fork in use is in some philosopher's hands, for any number of them.     *)
THEOREM ForksAlwaysReturned == TableSpec => []ForksReturned
<1>1. TableInv => ForksReturned
  BY DEF TableInv
<1> QED
  BY DiningInvariance, <1>1, PTL
=============================================================================
