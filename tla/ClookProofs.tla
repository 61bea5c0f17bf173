---------------------------- MODULE ClookProofs ----------------------------
(* Proofs about Clook, for any number of devices, requests and sectors: the  *)
(* queues lose and repeat nothing, and the queue of a lone device stays one  *)
(* sweep of the head.                                                        *)
EXTENDS Clook, SequenceTheorems, FiniteSetTheorems, TLAPS

-----------------------------------------------------------------------------
(* Queues as sequences. *)

LEMMA SeqFacts ==
    ASSUME NEW S, NEW q \in Seq(S)
    PROVE  /\ Len(q) \in Nat /\ DOMAIN q = 1 .. Len(q)
           /\ \A i \in 1 .. Len(q) : q[i] \in S
           /\ \A r : r \in ToSet(q) <=> \E i \in 1 .. Len(q) : q[i] = r
<1>1. Len(q) \in Nat /\ DOMAIN q = 1 .. Len(q) /\ q \in [1 .. Len(q) -> S]
  BY LenProperties
<1> QED
  BY <1>1 DEF ToSet

(* What InsertAt puts where. *)
With(q, i, r, p) ==
    /\ Len(p) = Len(q) + 1
    /\ \A j \in 1 .. Len(q) + 1 : p[j] =
         IF j < i THEN q[j] ELSE IF j = i THEN r ELSE q[j - 1]

LEMMA InsertAtReads ==
    ASSUME NEW S, NEW q \in Seq(S), NEW i \in 1 .. Len(q) + 1, NEW r \in S
    PROVE  InsertAt(q, i, r) \in Seq(S) /\ With(q, i, r, InsertAt(q, i, r))
<1> USE DEF With
<1> DEFINE a == SubSeq(q, 1, i - 1)
           b == SubSeq(q, i, Len(q))
           c == a \o <<r>>
<1>1. Len(q) \in Nat /\ i \in Int /\ \A j \in 1 .. Len(q) : q[j] \in S
  BY SeqFacts
<1>2. /\ a \in Seq(S) /\ Len(a) = i - 1
      /\ \A j \in 1 .. i - 1 : a[j] = q[j]
  <2>1. \A j \in 1 .. i - 1 : q[j] \in S
    BY <1>1
  <2>2. i - 1 \in Int /\ i - 1 = (IF 1 <= i - 1 THEN i - 1 - 1 + 1 ELSE 0)
    BY <1>1
  <2> QED
    BY <1>1, <2>1, <2>2, SubSeqProperties
<1>3. /\ b \in Seq(S) /\ Len(b) = Len(q) - i + 1
      /\ \A j \in 1 .. Len(q) - i + 1 : b[j] = q[i + j - 1]
  <2>1. \A j \in i .. Len(q) : q[j] \in S
    BY <1>1
  <2> QED
    BY <1>1, <2>1, SubSeqProperties
<1>4. <<r>> \in Seq(S) /\ Len(<<r>>) = 1 /\ <<r>>[1] = r
  OBVIOUS
<1> HIDE DEF a, b
<1>5. /\ c \in Seq(S) /\ Len(c) = i
      /\ \A j \in 1 .. i : c[j] = IF j <= i - 1 THEN a[j] ELSE r
  <2>1. /\ c \in Seq(S) /\ Len(c) = Len(a) + 1
        /\ \A j \in 1 .. Len(a) + 1 : c[j] = IF j <= Len(a) THEN a[j] ELSE <<r>>[j - Len(a)]
    BY <1>2, <1>4, ConcatProperties
  <2> QED
    BY <1>1, <1>2, <1>4, <2>1
<1> HIDE DEF c
<1>6. /\ c \o b \in Seq(S) /\ Len(c \o b) = Len(c) + Len(b)
      /\ \A j \in 1 .. Len(c) + Len(b) : (c \o b)[j] =
           IF j <= Len(c) THEN c[j] ELSE b[j - Len(c)]
  BY <1>3, <1>5, ConcatProperties
<1>7. InsertAt(q, i, r) = c \o b
  BY DEF InsertAt, a, b, c
<1> QED
  BY <1>1, <1>2, <1>3, <1>5, <1>6, <1>7

(* What RemoveAt leaves where. *)
LEMMA RemoveAtReads ==
    ASSUME NEW S, NEW q \in Seq(S), NEW i \in 1 .. Len(q)
    PROVE  /\ RemoveAt(q, i) \in Seq(S) /\ Len(RemoveAt(q, i)) = Len(q) - 1
           /\ \A j \in 1 .. Len(q) - 1 : RemoveAt(q, i)[j] =
                IF j < i THEN q[j] ELSE q[j + 1]
<1> DEFINE a == SubSeq(q, 1, i - 1)
           b == SubSeq(q, i + 1, Len(q))
<1>1. Len(q) \in Nat /\ i \in Int /\ \A j \in 1 .. Len(q) : q[j] \in S
  BY SeqFacts
<1>2. /\ a \in Seq(S) /\ Len(a) = i - 1
      /\ \A j \in 1 .. i - 1 : a[j] = q[j]
  <2>1. \A j \in 1 .. i - 1 : q[j] \in S
    BY <1>1
  <2> QED
    BY <1>1, <2>1, SubSeqProperties
<1>3. /\ b \in Seq(S) /\ Len(b) = Len(q) - i
      /\ \A j \in 1 .. Len(q) - i : b[j] = q[i + j]
  <2>1. \A j \in i + 1 .. Len(q) : q[j] \in S
    BY <1>1
  <2> QED
    BY <1>1, <2>1, SubSeqProperties
<1> HIDE DEF a, b
<1>4. /\ a \o b \in Seq(S) /\ Len(a \o b) = Len(a) + Len(b)
      /\ \A j \in 1 .. Len(a) + Len(b) : (a \o b)[j] =
           IF j <= Len(a) THEN a[j] ELSE b[j - Len(a)]
  BY <1>2, <1>3, ConcatProperties
<1>5. RemoveAt(q, i) = a \o b
  BY DEF RemoveAt, a, b
<1>6. ASSUME NEW j \in 1 .. Len(q) - 1
      PROVE  (a \o b)[j] = IF j < i THEN q[j] ELSE q[j + 1]
  <2>1. CASE j < i
    BY <1>1, <1>2, <1>3, <1>4, <2>1
  <2>2. CASE ~ (j < i)
    <3>1. /\ j - (i - 1) \in 1 .. Len(q) - i /\ i + (j - (i - 1)) = j + 1
          /\ ~ (j <= i - 1) /\ j \in 1 .. Len(a) + Len(b)
      BY <1>1, <1>2, <1>3, <2>2
    <3> QED
      BY <1>2, <1>3, <1>4, <2>2, <3>1
  <2> QED
    BY <2>1, <2>2
<1> QED
  BY <1>1, <1>2, <1>3, <1>4, <1>5, <1>6

(* A queue that holds no request twice is no longer than there are requests. *)
LEMMA QueueBounded ==
    ASSUME NEW q \in Seq(Requests), IsInjective(q)
    PROVE  Len(q) <= Cardinality(Requests)
<1>1. Len(q) \in Nat /\ q \in [1 .. Len(q) -> Requests]
  BY LenProperties
<1>2. q \in Injection(1 .. Len(q), Requests)
  BY <1>1 DEF Injection
<1>3. Cardinality(1 .. Len(q)) = Len(q)
  BY <1>1, FS_Interval
<1> QED
  BY <1>2, <1>3, FS_Injection, RequestsAssumption

(* A queue keeps a request once when one that is not in it is inserted, *)
LEMMA Inserted ==
    ASSUME NEW q \in Seq(Requests), IsInjective(q), NEW i \in 1 .. Len(q) + 1,
           NEW r \in Requests, r \notin ToSet(q)
    PROVE  /\ InsertAt(q, i, r) \in Seq(Requests) /\ IsInjective(InsertAt(q, i, r))
           /\ ToSet(InsertAt(q, i, r)) = ToSet(q) \cup {r}
           /\ Len(InsertAt(q, i, r)) = Len(q) + 1
<1> DEFINE p == InsertAt(q, i, r)
<1>0. p \in Seq(Requests) /\ With(q, i, r, p)
  BY InsertAtReads
<1> HIDE DEF p
<1>1. /\ p \in Seq(Requests) /\ Len(p) = Len(q) + 1
      /\ \A j \in 1 .. Len(q) + 1 :
           /\ j < i => p[j] = q[j]
           /\ j = i => p[j] = r
           /\ j > i => p[j] = q[j - 1]
  BY <1>0, SeqFacts DEF With
<1>2. /\ Len(q) \in Nat /\ DOMAIN q = 1 .. Len(q)
      /\ \A u : u \in ToSet(q) <=> \E j \in 1 .. Len(q) : q[j] = u
  BY SeqFacts
<1> HIDE DEF p
<1>3. /\ DOMAIN p = 1 .. Len(q) + 1
      /\ \A u : u \in ToSet(p) <=> \E j \in 1 .. Len(q) + 1 : p[j] = u
  BY <1>1, SeqFacts
<1>4. ASSUME NEW j \in 1 .. Len(q) + 1, NEW k \in 1 .. Len(q) + 1, j < k, p[j] = p[k]
      PROVE  FALSE
  <2>1. CASE k < i
    BY <1>1, <1>2, <1>4, <2>1 DEF IsInjective
  <2>2. CASE j = i \/ k = i
    <3>1. PICK m \in 1 .. Len(q) : q[m] = r
      BY <1>1, <1>2, <1>4, <2>2
    <3> QED
      BY <1>2, <3>1
  <2>3. CASE j < i /\ i < k
    <3>1. q[j] = q[k - 1]
      BY <1>1, <1>4, <2>3
    <3>2. j \in 1 .. Len(q) /\ k - 1 \in 1 .. Len(q) /\ j # k - 1
      BY <1>2, <2>3
    <3> QED
      BY <1>2, <3>1, <3>2 DEF IsInjective
  <2>4. CASE i < j
    <3>1. q[j - 1] = q[k - 1]
      BY <1>1, <1>2, <1>4, <2>4
    <3>2. j - 1 \in 1 .. Len(q) /\ k - 1 \in 1 .. Len(q) /\ j - 1 # k - 1
      BY <1>2, <1>4, <2>4
    <3> QED
      BY <1>2, <3>1, <3>2 DEF IsInjective
  <2> QED
    BY <1>2, <1>4, <2>1, <2>2, <2>3, <2>4
<1>5. IsInjective(p)
  <2>1. \A j, k \in 1 .. Len(q) + 1 : j < k \/ k < j \/ j = k
    BY <1>2
  <2> QED
    BY <1>3, <1>4, <2>1 DEF IsInjective
<1>6. \A u : u \in ToSet(p) <=> u \in ToSet(q) \cup {r}
  <2>1. ASSUME NEW u \in ToSet(p) PROVE u \in ToSet(q) \cup {r}
    <3>1. PICK j \in 1 .. Len(q) + 1 : p[j] = u
      BY <1>3, <2>1
    <3>2. CASE j < i
      BY <1>1, <1>2, <3>1, <3>2
    <3>3. CASE j > i
      <4>1. p[j] = q[j - 1] /\ j - 1 \in 1 .. Len(q)
        BY <1>1, <1>2, <3>3
      <4> QED
        BY <1>2, <3>1, <4>1
    <3> QED
      BY <1>1, <1>2, <3>1, <3>2, <3>3
  <2>2. ASSUME NEW u \in ToSet(q) PROVE u \in ToSet(p)
    <3>1. PICK j \in 1 .. Len(q) : q[j] = u
      BY <1>2, <2>2
    <3>2. CASE j < i
      BY <1>1, <1>2, <1>3, <3>1, <3>2
    <3>3. CASE j >= i
      <4>1. j + 1 \in 1 .. Len(q) + 1 /\ p[j + 1] = q[j]
        BY <1>1, <1>2, <3>3
      <4> QED
        BY <1>3, <3>1, <4>1
    <3> QED
      BY <1>2, <3>2, <3>3
  <2>3. r \in ToSet(p)
    BY <1>1, <1>2, <1>3
  <2> QED
    BY <2>1, <2>2, <2>3
<1> QED
  BY <1>1, <1>5, <1>6 DEF p

(* when one is taken out of the middle, *)
LEMMA Removed ==
    ASSUME NEW q \in Seq(Requests), IsInjective(q), NEW i \in 1 .. Len(q)
    PROVE  /\ RemoveAt(q, i) \in Seq(Requests) /\ IsInjective(RemoveAt(q, i))
           /\ ToSet(RemoveAt(q, i)) = ToSet(q) \ {q[i]}
           /\ Len(RemoveAt(q, i)) = Len(q) - 1
<1> DEFINE p == RemoveAt(q, i)
<1>1. /\ p \in Seq(Requests) /\ Len(p) = Len(q) - 1
      /\ \A j \in 1 .. Len(q) - 1 : p[j] = IF j < i THEN q[j] ELSE q[j + 1]
  BY RemoveAtReads
<1>2. /\ Len(q) \in Nat /\ DOMAIN q = 1 .. Len(q)
      /\ \A u : u \in ToSet(q) <=> \E j \in 1 .. Len(q) : q[j] = u
  BY SeqFacts
<1> HIDE DEF p
<1>3. /\ DOMAIN p = 1 .. Len(q) - 1
      /\ \A u : u \in ToSet(p) <=> \E j \in 1 .. Len(q) - 1 : p[j] = u
  BY <1>1, SeqFacts
<1>4. ASSUME NEW j \in DOMAIN p, NEW k \in DOMAIN p, p[j] = p[k] PROVE j = k
  <2>1. PICK m \in 1 .. Len(q) : p[j] = q[m] /\ m = IF j < i THEN j ELSE j + 1
    BY <1>1, <1>2, <1>3
  <2>2. PICK n \in 1 .. Len(q) : p[k] = q[n] /\ n = IF k < i THEN k ELSE k + 1
    BY <1>1, <1>2, <1>3
  <2>3. m = n
    BY <1>2, <1>4, <2>1, <2>2 DEF IsInjective
  <2> QED
    BY <1>3, <2>1, <2>2, <2>3
<1>5. IsInjective(p)
  BY <1>4 DEF IsInjective
<1>6. \A u : u \in ToSet(p) <=> u \in ToSet(q) \ {q[i]}
  <2>1. ASSUME NEW u \in ToSet(p) PROVE u \in ToSet(q) \ {q[i]}
    <3>1. PICK j \in 1 .. Len(q) - 1 : p[j] = u
      BY <1>3, <2>1
    <3>2. PICK k \in 1 .. Len(q) : k # i /\ q[k] = u
      BY <1>1, <1>2, <3>1
    <3> QED
      BY <1>2, <3>2 DEF IsInjective
  <2>2. ASSUME NEW u \in ToSet(q), u # q[i] PROVE u \in ToSet(p)
    <3>1. PICK j \in 1 .. Len(q) : q[j] = u
      BY <1>2, <2>2
    <3>2. CASE j < i
      BY <1>1, <1>2, <1>3, <3>1, <3>2
    <3>3. CASE j > i
      <4>1. j - 1 \in 1 .. Len(q) - 1 /\ p[j - 1] = q[j]
        BY <1>1, <1>2, <3>3
      <4> QED
        BY <1>3, <3>1, <4>1
    <3> QED
      BY <1>2, <2>2, <3>1, <3>2, <3>3
  <2> QED
    BY <2>1, <2>2
<1> QED
  BY <1>1, <1>5, <1>6 DEF p

(* and when the first is handed over. *)
LEMMA Headless ==
    ASSUME NEW q \in Seq(Requests), IsInjective(q), q # <<>>
    PROVE  /\ Tail(q) \in Seq(Requests) /\ IsInjective(Tail(q))
           /\ ToSet(Tail(q)) = ToSet(q) \ {Head(q)}
           /\ Head(q) \in ToSet(q) /\ Len(Tail(q)) = Len(q) - 1
<1>1. Len(q) \in Nat /\ 1 \in 1 .. Len(q)
  BY EmptySeq, SeqFacts
<1>2. /\ Tail(q) \in Seq(Requests) /\ Len(Tail(q)) = Len(q) - 1
      /\ \A j \in 1 .. Len(q) - 1 : Tail(q)[j] = q[j + 1]
  BY HeadTailProperties
<1>3. Tail(q) = RemoveAt(q, 1)
  BY <1>1, <1>2, RemoveAtReads, SeqEqual
<1>4. Head(q) = q[1] /\ q[1] \in ToSet(q)
  BY <1>1, SeqFacts
<1>5. /\ RemoveAt(q, 1) \in Seq(Requests) /\ IsInjective(RemoveAt(q, 1))
      /\ ToSet(RemoveAt(q, 1)) = ToSet(q) \ {q[1]}
  BY <1>1, Removed
<1> QED
  BY <1>2, <1>3, <1>4, <1>5

-----------------------------------------------------------------------------
(* The inductive invariant. *)

(* What device d has been given and has not handed over, and the part of it *)
(* that covers a sector.                                                     *)
Mine(d) == Queued(d) \cup ({adding[d]} \ {NoRequest})
Waits(d, s) == {r \in Mine(d) : Covers(r, s)}

(* No request is at two devices. *)
Apart == \A d, e \in Devices : d # e => Mine(d) \cap Mine(e) = {}

(* A request ends on the device. *)
Fits == \A r \in Requests : pos[r] + len[r] <= Sectors

(* The request that is placed is in no queue yet and the cursor in reach. *)
Placing ==
    \A d \in Devices : adding[d] # NoRequest =>
        /\ adding[d] \notin Queued(d) /\ len[adding[d]] > 0
        /\ at[d] \in 1 .. Len(queue[d]) + 1

IInv == TypeOK /\ Apart /\ Fits /\ Placing /\ NothingLost

(* The requests of a device are finitely many. *)
LEMMA MineFinite ==
    ASSUME TypeOK, NEW d \in Devices
    PROVE  /\ Queued(d) \subseteq Requests /\ Mine(d) \subseteq Requests
           /\ \A s : /\ Waits(d, s) \subseteq Requests /\ IsFiniteSet(Waits(d, s))
                     /\ Cardinality(Waits(d, s)) \in Nat
<1>1. queue[d] \in Seq(Requests) /\ adding[d] \in Requests \cup {NoRequest}
  BY DEF TypeOK
<1>2. Queued(d) \subseteq Requests
  BY <1>1, SeqFacts DEF Queued
<1>3. Mine(d) \subseteq Requests
  BY <1>1, <1>2 DEF Mine
<1>4. ASSUME NEW s
      PROVE  /\ Waits(d, s) \subseteq Requests /\ IsFiniteSet(Waits(d, s))
             /\ Cardinality(Waits(d, s)) \in Nat
  <2>1. Waits(d, s) \subseteq Requests
    BY <1>3 DEF Waits
  <2> QED
    BY <2>1, FS_Subset, FS_CardinalityType, RequestsAssumption
<1> QED
  BY <1>2, <1>3, <1>4

(* NothingLost counts what waits. *)
LEMMA Owed ==
    NothingLost <=> \A d \in Devices : \A s \in 0 .. Sectors - 1 :
                        owed[d][s] = Cardinality(Waits(d, s))
BY DEF NothingLost, Waits, Mine

(* A device whose own state and requests a step leaves alone. *)
Untouched(e) ==
    /\ queue'[e] = queue[e] /\ adding'[e] = adding[e] /\ at'[e] = at[e]
    /\ owed'[e] = owed[e]
    /\ \A r \in Mine(e) : pos'[r] = pos[r] /\ len'[r] = len[r]

LEMMA Elsewhere ==
    ASSUME NEW e \in Devices, Untouched(e)
    PROVE  /\ Mine(e)' = Mine(e) /\ Queued(e)' = Queued(e)
           /\ \A s : Waits(e, s)' = Waits(e, s)
<1>1. Mine(e)' = Mine(e) /\ Queued(e)' = Queued(e)
  BY DEF Untouched, Mine, Queued
<1>2. \A s : \A r \in Mine(e) : Covers(r, s)' <=> Covers(r, s)
  BY DEF Untouched, Covers
<1> QED
  BY <1>1, <1>2 DEF Waits

(* A step touches one device: what is left to show is what it does there. *)
Touched(d) ==
    /\ queue'[d] \in Seq(Requests) /\ IsInjective(queue'[d])
    /\ adding'[d] \in Requests \cup {NoRequest}
    /\ \A r \in Queued(d)' : len'[r] > 0
    /\ adding'[d] # NoRequest =>
         /\ adding'[d] \notin Queued(d)' /\ len'[adding'[d]] > 0
         /\ at'[d] \in 1 .. Len(queue'[d]) + 1
    /\ at'[d] \in 0 .. Cardinality(Requests) + 1
    /\ \A s \in 0 .. Sectors - 1 : owed'[d][s] = Cardinality(Waits(d, s)')
    /\ owed'[d] \in [0 .. Sectors - 1 -> Nat]

Shapes ==
    /\ pos \in [Requests -> 0 .. Sectors - 1] /\ len \in [Requests -> 0 .. Sectors]
    /\ currSector \in 0 .. Sectors
    /\ \A r \in Requests : pos[r] + len[r] <= Sectors
    /\ queue = [d \in Devices |-> queue[d]]
    /\ adding = [d \in Devices |-> adding[d]]
    /\ at = [d \in Devices |-> at[d]]
    /\ owed = [d \in Devices |-> owed[d]]

LEMMA OneDevice ==
    ASSUME IInv, Shapes', NEW d \in Devices, Touched(d),
           \A e \in Devices : e # d => Untouched(e) /\ Mine(d)' \cap Mine(e) = {}
    PROVE  IInv'
<1> USE DEF IInv
<1>1. ASSUME NEW e \in Devices, e # d
      PROVE  /\ Mine(e)' = Mine(e) /\ Queued(e)' = Queued(e)
             /\ \A s : Waits(e, s)' = Waits(e, s)
             /\ Untouched(e)
  BY <1>1, Elsewhere
<1>2. ASSUME NEW e \in Devices
      PROVE  /\ queue'[e] \in Seq(Requests) /\ IsInjective(queue'[e])
             /\ adding'[e] \in Requests \cup {NoRequest}
             /\ at'[e] \in 0 .. Cardinality(Requests) + 1
             /\ owed'[e] \in [0 .. Sectors - 1 -> Nat]
             /\ \A r \in Queued(e)' : len'[r] > 0
  <2>1. CASE e = d
    BY <2>1 DEF Touched
  <2>2. CASE e # d
    <3>1. /\ queue[e] \in Seq(Requests) /\ IsInjective(queue[e])
          /\ adding[e] \in Requests \cup {NoRequest}
          /\ at[e] \in 0 .. Cardinality(Requests) + 1
          /\ owed[e] \in [0 .. Sectors - 1 -> Nat]
          /\ \A r \in Queued(e) : len[r] > 0
      BY DEF TypeOK
    <3>2. Queued(e) \subseteq Mine(e)
      BY DEF Mine
    <3> QED
      BY <1>1, <2>2, <3>1, <3>2 DEF Untouched
  <2> QED
    BY <2>1, <2>2
<1>3. TypeOK'
  <2>1. /\ queue' = [e \in Devices |-> queue'[e]] /\ adding' = [e \in Devices |-> adding'[e]]
        /\ at' = [e \in Devices |-> at'[e]] /\ owed' = [e \in Devices |-> owed'[e]]
    BY DEF Shapes
  <2>2. queue' \in [Devices -> Seq(Requests)]
    BY <1>2, <2>1
  <2>3. adding' \in [Devices -> Requests \cup {NoRequest}]
    BY <1>2, <2>1
  <2>4. at' \in [Devices -> 0 .. Cardinality(Requests) + 1]
    BY <1>2, <2>1
  <2>5. owed' \in [Devices -> [0 .. Sectors - 1 -> Nat]]
    BY <1>2, <2>1
  <2> QED
    BY <1>2, <2>2, <2>3, <2>4, <2>5 DEF TypeOK, Shapes
<1>4. Apart'
  <2>1. ASSUME NEW e \in Devices, NEW f \in Devices, e # f
        PROVE  Mine(e)' \cap Mine(f)' = {}
    BY <1>1, <2>1 DEF Apart
  <2> QED
    BY <2>1 DEF Apart
<1>5. Fits'
  BY DEF Fits, Shapes
<1>6. Placing'
  <2>1. ASSUME NEW e \in Devices, adding'[e] # NoRequest
        PROVE  /\ adding'[e] \notin Queued(e)' /\ len'[adding'[e]] > 0
               /\ at'[e] \in 1 .. Len(queue'[e]) + 1
    <3>1. CASE e = d
      BY <2>1, <3>1 DEF Touched
    <3>2. CASE e # d
      <4>1. adding[e] \in Mine(e)
        BY <1>1, <2>1, <3>2 DEF Mine, Untouched
      <4> QED
        BY <1>1, <2>1, <3>2, <4>1 DEF Placing, Untouched
    <3> QED
      BY <3>1, <3>2
  <2> QED
    BY <2>1 DEF Placing
<1>7. NothingLost'
  <2>1. ASSUME NEW e \in Devices, NEW s \in 0 .. Sectors - 1
        PROVE  owed'[e][s] = Cardinality(Waits(e, s)')
    <3>1. CASE e = d
      BY <3>1 DEF Touched
    <3>2. CASE e # d
      <4>1. owed[e][s] = Cardinality(Waits(e, s))
        BY Owed
      <4> QED
        BY <1>1, <3>2, <4>1 DEF Untouched
    <3> QED
      BY <3>1, <3>2
  <2> QED
    BY <2>1 DEF NothingLost, Waits, Mine
<1> QED
  BY <1>3, <1>4, <1>5, <1>6, <1>7

-----------------------------------------------------------------------------
(* Each action preserves it. *)

LEMMA AtDevice ==
    ASSUME IInv, NEW d \in Devices
    PROVE  /\ queue[d] \in Seq(Requests) /\ IsInjective(queue[d])
           /\ Len(queue[d]) \in Nat /\ Len(queue[d]) <= Cardinality(Requests)
           /\ Cardinality(Requests) \in Nat
           /\ adding[d] \in Requests \cup {NoRequest}
           /\ at[d] \in 0 .. Cardinality(Requests) + 1
           /\ \A r \in Queued(d) : len[r] > 0
           /\ owed[d] \in [0 .. Sectors - 1 -> Nat]
           /\ \A s \in 0 .. Sectors - 1 : owed[d][s] = Cardinality(Waits(d, s))
           /\ Shapes
<1>1. /\ queue[d] \in Seq(Requests) /\ IsInjective(queue[d])
      /\ adding[d] \in Requests \cup {NoRequest}
      /\ at[d] \in 0 .. Cardinality(Requests) + 1
      /\ \A r \in Queued(d) : len[r] > 0
      /\ owed[d] \in [0 .. Sectors - 1 -> Nat]
  BY DEF IInv, TypeOK
<1>2. Len(queue[d]) \in Nat /\ Len(queue[d]) <= Cardinality(Requests)
  BY <1>1, SeqFacts, QueueBounded
<1>3. Cardinality(Requests) \in Nat
  BY RequestsAssumption, FS_CardinalityType
<1>4. \A s \in 0 .. Sectors - 1 : owed[d][s] = Cardinality(Waits(d, s))
  BY Owed DEF IInv
<1>5. Shapes
  BY DEF IInv, TypeOK, Shapes, Fits
<1> QED
  BY <1>1, <1>2, <1>3, <1>4, <1>5

LEMMA AddRequestStep ==
    ASSUME IInv, NEW d \in Devices, NEW r \in Requests, NEW s \in 0 .. Sectors - 1,
           AddRequest(d, r, s)
    PROVE  IInv'
<1>1. /\ adding[d] = NoRequest
      /\ \A e \in Devices : r \notin Mine(e)
      /\ queue' = queue /\ currSector' = currSector
      /\ pos' = [pos EXCEPT ![r] = s] /\ len' = [len EXCEPT ![r] = 1]
      /\ adding' = [adding EXCEPT ![d] = r] /\ at' = [at EXCEPT ![d] = 1]
      /\ owed' = [owed EXCEPT ![d] = [owed[d] EXCEPT ![s] = @ + 1]]
  BY DEF AddRequest, Idle, Mine
<1>2. /\ queue[d] \in Seq(Requests) /\ IsInjective(queue[d])
      /\ Len(queue[d]) \in Nat /\ Cardinality(Requests) \in Nat
      /\ \A q \in Queued(d) : len[q] > 0
      /\ owed[d] \in [0 .. Sectors - 1 -> Nat]
      /\ \A x \in 0 .. Sectors - 1 : owed[d][x] = Cardinality(Waits(d, x))
      /\ Shapes
  BY AtDevice
<1>3. adding'[d] = r /\ at'[d] = 1 /\ pos'[r] = s /\ len'[r] = 1
      /\ owed'[d] = [owed[d] EXCEPT ![s] = @ + 1]
  BY <1>1, <1>2 DEF Shapes
<1>4. \A q \in Requests : q # r => pos'[q] = pos[q] /\ len'[q] = len[q]
  BY <1>1, <1>2 DEF Shapes
<1>5. Queued(d)' = Queued(d) /\ Mine(d)' = Mine(d) \cup {r} /\ r \notin Queued(d)
  BY <1>1, <1>3, RequestsAssumption DEF Mine, Queued
<1>6. Mine(d) \subseteq Requests /\ Queued(d) \subseteq Requests
  BY MineFinite DEF IInv
<1>7. ASSUME NEW x \in 0 .. Sectors - 1
      PROVE  Waits(d, x)' = IF x = s THEN Waits(d, x) \cup {r} ELSE Waits(d, x)
  <2>1. Covers(r, x)' <=> x = s
    BY <1>3 DEF Covers
  <2>2. \A q \in Mine(d) : Covers(q, x)' <=> Covers(q, x)
    BY <1>1, <1>4, <1>6 DEF Covers
  <2> QED
    BY <1>5, <2>1, <2>2 DEF Waits
<1>8. ASSUME NEW x \in 0 .. Sectors - 1
      PROVE  owed'[d][x] = Cardinality(Waits(d, x)')
  <2>1. r \notin Waits(d, x) /\ IsFiniteSet(Waits(d, x))
    BY <1>1, MineFinite DEF Waits, IInv
  <2>2. owed[d][x] = Cardinality(Waits(d, x)) /\ owed[d][x] \in Nat
    BY <1>2
  <2>3. CASE x = s
    <3>1. Cardinality(Waits(d, x) \cup {r}) = Cardinality(Waits(d, x)) + 1
      BY <2>1, FS_AddElement
    <3>2. owed'[d][x] = owed[d][x] + 1
      BY <1>2, <1>3, <2>3
    <3> QED
      BY <1>7, <2>2, <2>3, <3>1, <3>2
  <2>4. CASE x # s
    BY <1>2, <1>3, <1>7, <2>4
  <2> QED
    BY <2>3, <2>4
<1>9. Shapes'
  <2>1. s \in Nat /\ s + 1 <= Sectors /\ 1 \in 0 .. Sectors
    BY SectorsAssumption
  <2>2. pos' \in [Requests -> 0 .. Sectors - 1] /\ len' \in [Requests -> 0 .. Sectors]
    BY <1>1, <1>2, <2>1 DEF Shapes
  <2>3. \A q \in Requests : pos'[q] + len'[q] <= Sectors
    BY <1>2, <1>3, <1>4, <2>1 DEF Shapes
  <2> QED
    BY <1>1, <1>2, <2>2, <2>3 DEF Shapes
<1>10. Touched(d)
  <2>1. \A q \in Queued(d)' : len'[q] > 0
    BY <1>2, <1>4, <1>5, <1>6
  <2>2. owed'[d] \in [0 .. Sectors - 1 -> Nat]
    <3>1. \A x \in 0 .. Sectors - 1 : owed[d][x] \in Nat
      BY <1>2
    <3>2. owed[d][s] + 1 \in Nat
      BY <3>1
    <3> QED
      BY <1>2, <1>3, <3>2
  <2> QED
    BY <1>1, <1>2, <1>3, <1>5, <1>8, <2>1, <2>2 DEF Touched
<1>11. ASSUME NEW e \in Devices, e # d
       PROVE  Untouched(e) /\ Mine(d)' \cap Mine(e) = {}
  <2>1. \A q \in Mine(e) : pos'[q] = pos[q] /\ len'[q] = len[q]
    BY <1>1, <1>4, MineFinite DEF IInv
  <2> QED
    BY <1>1, <1>2, <1>5, <1>11, <2>1 DEF Untouched, Apart, IInv, Shapes
<1> QED
  BY <1>9, <1>10, <1>11, OneDevice

(* A step that moves no request: the device's requests stay what they are. *)
LEMMA SameWaits ==
    ASSUME NEW d \in Devices, Mine(d)' = Mine(d), pos' = pos, len' = len
    PROVE  \A s : Waits(d, s)' = Waits(d, s)
BY DEF Waits, Covers

LEMMA WalkOnStep ==
    ASSUME IInv, NEW d \in Devices, WalkOn(d)
    PROVE  IInv'
<1>1. /\ adding[d] # NoRequest /\ at[d] <= Len(queue[d])
      /\ at' = [at EXCEPT ![d] = @ + 1]
      /\ queue' = queue /\ pos' = pos /\ len' = len /\ currSector' = currSector
      /\ adding' = adding /\ owed' = owed
  BY DEF WalkOn, Stopped
<1>2. /\ queue[d] \in Seq(Requests) /\ IsInjective(queue[d])
      /\ Len(queue[d]) \in Nat /\ Cardinality(Requests) \in Nat
      /\ Len(queue[d]) <= Cardinality(Requests)
      /\ adding[d] \in Requests \cup {NoRequest}
      /\ \A q \in Queued(d) : len[q] > 0
      /\ owed[d] \in [0 .. Sectors - 1 -> Nat]
      /\ \A x \in 0 .. Sectors - 1 : owed[d][x] = Cardinality(Waits(d, x))
      /\ Shapes
  BY AtDevice
<1>3. /\ adding[d] \notin Queued(d) /\ len[adding[d]] > 0
      /\ at[d] \in 1 .. Len(queue[d]) + 1
  BY <1>1 DEF IInv, Placing
<1>4. at'[d] = at[d] + 1
  BY <1>1, <1>2 DEF Shapes
<1>5. Queued(d)' = Queued(d) /\ Mine(d)' = Mine(d)
  BY <1>1 DEF Mine, Queued
<1>6. \A x : Waits(d, x)' = Waits(d, x)
  BY <1>1, <1>5, SameWaits
<1>7. Shapes'
  BY <1>1, <1>2 DEF Shapes
<1>8. Touched(d)
  <2>1. at'[d] \in 1 .. Len(queue'[d]) + 1 /\ at'[d] \in 0 .. Cardinality(Requests) + 1
    BY <1>1, <1>2, <1>3, <1>4
  <2> QED
    BY <1>1, <1>2, <1>3, <1>5, <1>6, <2>1 DEF Touched
<1>9. ASSUME NEW e \in Devices, e # d
      PROVE  Untouched(e) /\ Mine(d)' \cap Mine(e) = {}
  BY <1>1, <1>2, <1>5, <1>9 DEF Untouched, Apart, IInv, Shapes
<1> QED
  BY <1>7, <1>8, <1>9, OneDevice

LEMMA InsertStep ==
    ASSUME IInv, NEW d \in Devices, Insert(d)
    PROVE  IInv'
<1> DEFINE r == adding[d]
<1>1. /\ r # NoRequest
      /\ queue' = [queue EXCEPT ![d] = InsertAt(queue[d], at[d], r)]
      /\ adding' = [adding EXCEPT ![d] = NoRequest] /\ at' = [at EXCEPT ![d] = 0]
      /\ pos' = pos /\ len' = len /\ currSector' = currSector /\ owed' = owed
  BY DEF Insert
<1>2. /\ queue[d] \in Seq(Requests) /\ IsInjective(queue[d])
      /\ Len(queue[d]) \in Nat /\ Cardinality(Requests) \in Nat
      /\ r \in Requests \cup {NoRequest}
      /\ \A q \in Queued(d) : len[q] > 0
      /\ owed[d] \in [0 .. Sectors - 1 -> Nat]
      /\ \A x \in 0 .. Sectors - 1 : owed[d][x] = Cardinality(Waits(d, x))
      /\ Shapes
  BY AtDevice
<1>3. /\ r \notin Queued(d) /\ len[r] > 0
      /\ at[d] \in 1 .. Len(queue[d]) + 1
  BY <1>1 DEF IInv, Placing
<1>4. /\ queue'[d] = InsertAt(queue[d], at[d], r)
      /\ adding'[d] = NoRequest /\ at'[d] = 0
  BY <1>1, <1>2 DEF Shapes
<1>5. /\ queue'[d] \in Seq(Requests) /\ IsInjective(queue'[d])
      /\ Queued(d)' = Queued(d) \cup {r}
  BY <1>1, <1>2, <1>3, <1>4, Inserted DEF Queued
<1>6. Mine(d)' = Mine(d)
  BY <1>1, <1>4, <1>5 DEF Mine
<1>7. \A x : Waits(d, x)' = Waits(d, x)
  BY <1>1, <1>6, SameWaits
<1>8. Shapes'
  BY <1>1, <1>2 DEF Shapes
<1>9. Touched(d)
  BY <1>1, <1>2, <1>3, <1>4, <1>5, <1>7 DEF Touched
<1>10. ASSUME NEW e \in Devices, e # d
       PROVE  Untouched(e) /\ Mine(d)' \cap Mine(e) = {}
  BY <1>1, <1>2, <1>6, <1>10 DEF Untouched, Apart, IInv, Shapes
<1> QED
  BY <1>8, <1>9, <1>10, OneDevice

LEMMA DispatchStep ==
    ASSUME IInv, NEW d \in Devices, Dispatch(d)
    PROVE  IInv'
<1> DEFINE r == Head(queue[d])
           paid == [x \in DOMAIN owed[d] |->
                      IF Covers(r, x) THEN owed[d][x] - 1 ELSE owed[d][x]]
<1>1. /\ adding[d] = NoRequest /\ queue[d] # <<>>
      /\ queue' = [queue EXCEPT ![d] = Tail(queue[d])]
      /\ currSector' = pos[r]
      /\ owed' = [owed EXCEPT ![d] = paid]
      /\ pos' = [pos EXCEPT ![r] = 0] /\ len' = [len EXCEPT ![r] = 0]
      /\ adding' = adding /\ at' = at
  BY DEF Dispatch, Popped
<1>2. /\ queue[d] \in Seq(Requests) /\ IsInjective(queue[d])
      /\ adding[d] \in Requests \cup {NoRequest}
      /\ at[d] \in 0 .. Cardinality(Requests) + 1
      /\ \A q \in Queued(d) : len[q] > 0
      /\ owed[d] \in [0 .. Sectors - 1 -> Nat]
      /\ \A x \in 0 .. Sectors - 1 : owed[d][x] = Cardinality(Waits(d, x))
      /\ Shapes
  BY AtDevice
<1>3. /\ Tail(queue[d]) \in Seq(Requests) /\ IsInjective(Tail(queue[d]))
      /\ ToSet(Tail(queue[d])) = Queued(d) \ {r} /\ r \in Queued(d)
  BY <1>1, <1>2, Headless DEF Queued
<1>4. queue'[d] = Tail(queue[d]) /\ owed'[d] = paid
  BY <1>1, <1>2 DEF Shapes
<1>5. Mine(d) \subseteq Requests /\ Queued(d) \subseteq Requests /\ Mine(d) = Queued(d)
  BY <1>1, MineFinite DEF IInv, Mine
<1> HIDE DEF r, paid
<1>6. r \in Requests /\ \A q \in Requests : q # r => pos'[q] = pos[q] /\ len'[q] = len[q]
  BY <1>1, <1>2, <1>3, <1>5 DEF Shapes
<1>7. /\ Queued(d)' = Queued(d) \ {r} /\ Mine(d)' = Mine(d) \ {r}
      /\ queue'[d] \in Seq(Requests) /\ IsInjective(queue'[d])
  BY <1>1, <1>3, <1>4, <1>5 DEF Mine, Queued
<1>8. ASSUME NEW x \in 0 .. Sectors - 1
      PROVE  /\ owed'[d][x] = Cardinality(Waits(d, x)')
             /\ paid[x] \in Nat
  <2>1. \A q \in Mine(d)' : Covers(q, x)' <=> Covers(q, x)
    BY <1>5, <1>6, <1>7 DEF Covers
  <2>2. Waits(d, x)' = Waits(d, x) \ {r}
    BY <1>7, <2>1 DEF Waits
  <2>3. r \in Waits(d, x) <=> Covers(r, x)
    BY <1>3, <1>5 DEF Waits
  <2>4. /\ IsFiniteSet(Waits(d, x)) /\ Cardinality(Waits(d, x)) \in Nat
        /\ owed[d][x] = Cardinality(Waits(d, x))
        /\ Cardinality(Waits(d, x)') \in Nat
    <3>1. IsFiniteSet(Waits(d, x) \ {r})
      BY MineFinite, FS_Subset DEF IInv
    <3> QED
      BY <1>2, <2>2, <3>1, MineFinite, FS_CardinalityType DEF IInv
  <2>5. paid[x] = IF Covers(r, x) THEN owed[d][x] - 1 ELSE owed[d][x]
    BY <1>2 DEF paid
  <2>6. CASE Covers(r, x)
    <3>1. Cardinality(Waits(d, x) \ {r}) = Cardinality(Waits(d, x)) - 1
      BY <2>3, <2>4, <2>6, FS_RemoveElement
    <3>2. Cardinality(Waits(d, x)') = Cardinality(Waits(d, x)) - 1
      BY <2>2, <3>1
    <3> QED
      BY <1>4, <2>4, <2>5, <2>6, <3>2
  <2>7. CASE ~ Covers(r, x)
    <3>1. Waits(d, x)' = Waits(d, x)
      BY <2>2, <2>3, <2>7
    <3> QED
      BY <1>4, <2>4, <2>5, <2>7, <3>1
  <2> QED
    BY <2>6, <2>7
<1>9. Shapes'
  <2>1. 0 \in 0 .. Sectors - 1 /\ 0 \in 0 .. Sectors /\ pos[r] \in 0 .. Sectors
    BY <1>2, <1>6, SectorsAssumption DEF Shapes
  <2>2. pos' \in [Requests -> 0 .. Sectors - 1] /\ len' \in [Requests -> 0 .. Sectors]
    BY <1>1, <1>2, <2>1 DEF Shapes
  <2>3. pos'[r] = 0 /\ len'[r] = 0
    BY <1>1, <1>2, <1>6 DEF Shapes
  <2>4. ASSUME NEW q \in Requests PROVE pos'[q] + len'[q] <= Sectors
    <3>1. pos[q] + len[q] <= Sectors /\ 0 + 0 <= Sectors
      BY <1>2, SectorsAssumption DEF Shapes
    <3>2. CASE q = r
      BY <2>3, <3>1, <3>2
    <3>3. CASE q # r
      BY <1>6, <3>1, <3>3
    <3> QED
      BY <3>2, <3>3
  <2> QED
    BY <1>1, <1>2, <2>1, <2>2, <2>4 DEF Shapes
<1>10. Touched(d)
  <2>1. \A q \in Queued(d)' : len'[q] > 0
    BY <1>2, <1>5, <1>6, <1>7
  <2>2. owed'[d] \in [0 .. Sectors - 1 -> Nat]
    BY <1>2, <1>4, <1>8 DEF paid
  <2> QED
    BY <1>1, <1>2, <1>7, <1>8, <2>1, <2>2 DEF Touched
<1>11. ASSUME NEW e \in Devices, e # d
       PROVE  Untouched(e) /\ Mine(d)' \cap Mine(e) = {}
  <2>1. Mine(d) \cap Mine(e) = {} /\ Mine(e) \subseteq Requests
    BY <1>11, MineFinite DEF Apart, IInv
  <2>2. \A q \in Mine(e) : pos'[q] = pos[q] /\ len'[q] = len[q]
    BY <1>3, <1>5, <1>6, <2>1
  <2> QED
    BY <1>1, <1>2, <1>7, <1>11, <2>1, <2>2 DEF Untouched, Shapes
<1> QED
  BY <1>9, <1>10, <1>11, OneDevice

LEMMA MergedRequestsStep ==
    ASSUME IInv, NEW d \in Devices, NEW rq \in Queued(d), NEW next \in Queued(d),
           MergedRequests(d, rq, next)
    PROVE  IInv'
<1>1. PICK i \in DOMAIN queue[d] :
         /\ queue[d][i] = next
         /\ queue' = [queue EXCEPT ![d] = RemoveAt(queue[d], i)]
  BY DEF MergedRequests, Dropped
<1>2. /\ adding[d] = NoRequest /\ pos[rq] + len[rq] = pos[next]
      /\ len' = [len EXCEPT ![rq] = @ + len[next], ![next] = 0]
      /\ pos' = [pos EXCEPT ![next] = 0]
      /\ currSector' = currSector /\ adding' = adding /\ at' = at /\ owed' = owed
  BY DEF MergedRequests
<1>3. /\ queue[d] \in Seq(Requests) /\ IsInjective(queue[d])
      /\ adding[d] \in Requests \cup {NoRequest}
      /\ at[d] \in 0 .. Cardinality(Requests) + 1
      /\ \A q \in Queued(d) : len[q] > 0
      /\ owed[d] \in [0 .. Sectors - 1 -> Nat]
      /\ \A x \in 0 .. Sectors - 1 : owed[d][x] = Cardinality(Waits(d, x))
      /\ Shapes
  BY AtDevice
<1>4. Mine(d) \subseteq Requests /\ Queued(d) \subseteq Requests /\ Mine(d) = Queued(d)
  BY <1>2, MineFinite DEF IInv, Mine
<1>5. /\ rq \in Requests /\ next \in Requests /\ rq # next
      /\ pos[rq] \in Nat /\ len[rq] \in Nat /\ pos[next] \in Nat /\ len[next] \in Nat
      /\ len[rq] > 0 /\ len[next] > 0
      /\ pos[next] + len[next] <= Sectors /\ Sectors \in Nat
  <2>1. rq \in Requests /\ next \in Requests /\ len[rq] > 0 /\ len[next] > 0
    BY <1>3, <1>4
  <2>2. /\ pos[rq] \in Nat /\ len[rq] \in Nat /\ pos[next] \in Nat /\ len[next] \in Nat
        /\ pos[next] + len[next] <= Sectors /\ Sectors \in Nat
    BY <1>3, <2>1, SectorsAssumption DEF Shapes
  <2> QED
    BY <1>2, <2>1, <2>2
<1>6. /\ RemoveAt(queue[d], i) \in Seq(Requests) /\ IsInjective(RemoveAt(queue[d], i))
      /\ ToSet(RemoveAt(queue[d], i)) = ToSet(queue[d]) \ {next}
  BY <1>1, <1>3, SeqFacts, Removed
<1>7. queue'[d] = RemoveAt(queue[d], i)
  BY <1>1, <1>3 DEF Shapes
<1>8. /\ Queued(d)' = Queued(d) \ {next} /\ Mine(d)' = Mine(d) \ {next}
      /\ queue'[d] \in Seq(Requests) /\ IsInjective(queue'[d])
  BY <1>2, <1>4, <1>6, <1>7 DEF Mine, Queued
<1>9. /\ \A q \in Requests : q # rq /\ q # next => pos'[q] = pos[q] /\ len'[q] = len[q]
      /\ pos'[rq] = pos[rq] /\ len'[rq] = len[rq] + len[next]
      /\ pos'[next] = 0 /\ len'[next] = 0
  BY <1>2, <1>3, <1>5 DEF Shapes
<1>10. ASSUME NEW x \in 0 .. Sectors - 1
       PROVE  Cardinality(Waits(d, x)') = Cardinality(Waits(d, x))
  <2>1. \A q \in Requests : q # rq /\ q # next => (Covers(q, x)' <=> Covers(q, x))
    BY <1>9 DEF Covers
  <2>2. /\ Covers(rq, x)' <=> Covers(rq, x) \/ Covers(next, x)
        /\ ~ (Covers(rq, x) /\ Covers(next, x))
    BY <1>2, <1>5, <1>9 DEF Covers
  <2>3. IsFiniteSet(Waits(d, x)) /\ Cardinality(Waits(d, x)) \in Nat
    BY MineFinite DEF IInv
  <2>4. CASE Covers(next, x)
    <3> DEFINE rest == Waits(d, x) \ {next}
    <3>1. next \in Waits(d, x) /\ rq \notin Waits(d, x)
      BY <1>4, <2>2, <2>4 DEF Waits
    <3>2. Waits(d, x)' = rest \cup {rq}
      BY <1>4, <1>5, <1>8, <2>1, <2>2, <2>4 DEF Waits
    <3>3. IsFiniteSet(rest) /\ Cardinality(rest) = Cardinality(Waits(d, x)) - 1
      BY <2>3, <3>1, FS_RemoveElement
    <3>4. Cardinality(rest \cup {rq}) = Cardinality(rest) + 1
      BY <3>1, <3>3, FS_AddElement
    <3> QED
      BY <2>3, <3>2, <3>3, <3>4
  <2>5. CASE ~ Covers(next, x)
    <3>1. Waits(d, x)' = Waits(d, x)
      BY <1>4, <1>5, <1>8, <2>1, <2>2, <2>5 DEF Waits
    <3> QED
      BY <3>1
  <2> QED
    BY <2>4, <2>5
<1>11. Shapes'
  <2>1. /\ 0 \in 0 .. Sectors - 1 /\ 0 \in 0 .. Sectors
        /\ len[rq] + len[next] \in 0 .. Sectors
        /\ pos[rq] + (len[rq] + len[next]) <= Sectors
    BY <1>2, <1>5, SectorsAssumption
  <2>2. pos' \in [Requests -> 0 .. Sectors - 1] /\ len' \in [Requests -> 0 .. Sectors]
    BY <1>2, <1>3, <1>5, <2>1 DEF Shapes
  <2>3. ASSUME NEW q \in Requests PROVE pos'[q] + len'[q] <= Sectors
    <3>1. pos[q] + len[q] <= Sectors
      BY <1>3 DEF Shapes
    <3>2. CASE q = rq
      BY <1>9, <2>1, <3>2
    <3>3. CASE q = next
      BY <1>5, <1>9, <3>3
    <3>4. CASE q # rq /\ q # next
      BY <1>9, <3>1, <3>4
    <3> QED
      BY <3>2, <3>3, <3>4
  <2> QED
    BY <1>1, <1>2, <1>3, <2>2, <2>3 DEF Shapes
<1>12. Touched(d)
  <2>1. ASSUME NEW q \in Queued(d)' PROVE len'[q] > 0
    <3>1. q \in Requests /\ q # next /\ len[q] > 0
      BY <1>3, <1>4, <1>8
    <3>2. CASE q = rq
      BY <1>5, <1>9, <3>2
    <3>3. CASE q # rq
      BY <1>9, <3>1, <3>3
    <3> QED
      BY <3>2, <3>3
  <2> QED
    BY <1>2, <1>3, <1>8, <1>10, <2>1 DEF Touched
<1>13. ASSUME NEW e \in Devices, e # d
       PROVE  Untouched(e) /\ Mine(d)' \cap Mine(e) = {}
  <2>1. Mine(d) \cap Mine(e) = {} /\ Mine(e) \subseteq Requests
    BY <1>13, MineFinite DEF Apart, IInv
  <2>2. \A q \in Mine(e) : pos'[q] = pos[q] /\ len'[q] = len[q]
    BY <1>4, <1>9, <2>1
  <2> QED
    BY <1>1, <1>2, <1>3, <1>8, <1>13, <2>1, <2>2 DEF Untouched, Shapes
<1> QED
  BY <1>11, <1>12, <1>13, OneDevice

-----------------------------------------------------------------------------
LEMMA InitIInv == Init => IInv
<1> SUFFICES ASSUME Init PROVE IInv
  OBVIOUS
<1>1. ASSUME NEW d \in Devices
      PROVE  /\ queue[d] = <<>> /\ adding[d] = NoRequest /\ Queued(d) = {} /\ Mine(d) = {}
             /\ \A s : Waits(d, s) = {}
  <2>1. queue[d] = <<>> /\ adding[d] = NoRequest
    BY DEF Init
  <2>2. Queued(d) = {}
    BY <2>1 DEF Queued, ToSet
  <2> QED
    BY <2>1, <2>2 DEF Mine, Waits
<1>2. TypeOK
  <2>1. Cardinality(Requests) \in Nat
    BY RequestsAssumption, FS_CardinalityType
  <2>2. /\ queue \in [Devices -> Seq(Requests)]
        /\ adding \in [Devices -> Requests \cup {NoRequest}]
    BY DEF Init
  <2>3. /\ pos \in [Requests -> 0 .. Sectors - 1] /\ len \in [Requests -> 0 .. Sectors]
        /\ currSector \in 0 .. Sectors
    BY SectorsAssumption DEF Init, NoSector
  <2>4. at \in [Devices -> 0 .. Cardinality(Requests) + 1]
    BY <2>1 DEF Init
  <2>5. owed \in [Devices -> [0 .. Sectors - 1 -> Nat]]
    BY DEF Init
  <2>6. \A d \in Devices : IsInjective(queue[d]) /\ \A r \in Queued(d) : len[r] > 0
    BY <1>1 DEF IsInjective
  <2> QED
    BY <2>2, <2>3, <2>4, <2>5, <2>6 DEF TypeOK
<1>3. Apart /\ Placing
  BY <1>1 DEF Apart, Placing
<1>4. Fits
  BY SectorsAssumption DEF Init, Fits
<1>5. NothingLost
  <2>1. \A d \in Devices : \A s \in 0 .. Sectors - 1 :
            owed[d][s] = 0 /\ Cardinality(Waits(d, s)) = 0
    BY <1>1, FS_EmptySet DEF Init
  <2> QED
    BY <2>1, Owed
<1> QED
  BY <1>2, <1>3, <1>4, <1>5 DEF IInv

LEMMA NextIInv == IInv /\ [Next]_vars => IInv'
<1> SUFFICES ASSUME IInv, [Next]_vars PROVE IInv'
  OBVIOUS
<1>1. CASE Next
  <2>1. PICK d \in Devices :
          \/ \E r \in Requests, s \in 0 .. Sectors - 1 : AddRequest(d, r, s)
          \/ WalkOn(d) \/ Insert(d)
          \/ Dispatch(d)
          \/ \E rq, next \in Queued(d) : MergedRequests(d, rq, next)
    BY <1>1 DEF Next
  <2>2. CASE \E r \in Requests, s \in 0 .. Sectors - 1 : AddRequest(d, r, s)
    BY <2>2, AddRequestStep
  <2>3. CASE WalkOn(d)
    BY <2>3, WalkOnStep
  <2>4. CASE Insert(d)
    BY <2>4, InsertStep
  <2>5. CASE Dispatch(d)
    BY <2>5, DispatchStep
  <2>6. CASE \E rq, next \in Queued(d) : MergedRequests(d, rq, next)
    BY <2>6, MergedRequestsStep
  <2> QED
    BY <2>1, <2>2, <2>3, <2>4, <2>5, <2>6
<1>2. CASE UNCHANGED vars
  <2> USE <1>2 DEF vars, Mine, Queued
  <2>1. TypeOK' /\ Fits'
    BY DEF IInv, TypeOK, Fits
  <2>2. Apart' /\ Placing'
    BY DEF IInv, Apart, Placing
  <2>3. NothingLost'
    BY DEF IInv, NothingLost, Covers
  <2> QED
    BY <2>1, <2>2, <2>3 DEF IInv
<1> QED
  BY <1>1, <1>2

(* The inductive invariant of look-iosched.c, for any number of devices,     *)
(* requests and sectors: a request is at one device, in its queue at most    *)
(* once or on its way there, and every sector waits as often as it is owed.  *)
THEOREM ClookInvariance == Spec => []IInv
BY InitIInv, NextIInv, PTL DEF Spec

(* Every queue is a list of requests without repetition, with sectors to     *)
(* transfer; the cursor of look_add_request never leaves the queue.          *)
THEOREM ClookTypeCorrect == Spec => []TypeOK
<1>1. IInv => TypeOK
  BY DEF IInv
<1> QED
  BY <1>1, ClookInvariance, PTL

(* Whatever adds, merges and dispatches do on however many devices, a sector *)
(* is waiting exactly as often as it was asked for and not dispatched.       *)
THEOREM AlwaysNothingLost == Spec => []NothingLost
<1>1. IInv => NothingLost
  BY DEF IInv
<1> QED
  BY <1>1, ClookInvariance, PTL

-----------------------------------------------------------------------------
(* One sweep of the head.  g gives the sectors of the n requests of a queue: *)
(* the first k fall from c, the others fall to c.                            *)
SweptAt(k, n, g, c) ==
    /\ \A i, j \in 1 .. n : (i < j /\ (j <= k \/ i > k)) => g[i] >= g[j]
    /\ \A i \in 1 .. n : /\ i <= k => g[i] <= c
                         /\ i > k => g[i] >= c

OneSweep(n, g, c) == \E k \in 0 .. n : SweptAt(k, n, g, c)

Sectored(n, g) == n \in Nat /\ \A i \in 1 .. n : g[i] \in Int

(* A request goes where StopsBefore says and the sweep goes on through it, *)
Halts(s, x, c) == IF s < c THEN s > x \/ x > c ELSE x > c /\ s > x

LEMMA HaltsReads ==
    ASSUME NEW s \in Int, NEW x \in Int, NEW c \in Int
    PROVE  /\ s < c => (Halts(s, x, c) <=> s > x \/ x > c)
           /\ s >= c => (Halts(s, x, c) <=> x > c /\ s > x)
BY DEF Halts

LEMMA SweepInsert ==
    ASSUME NEW n, NEW g, Sectored(n, g), NEW c \in Int, OneSweep(n, g, c),
           \A i \in 1 .. n : g[i] # c,
           NEW s \in Int, NEW a \in 1 .. n + 1, NEW h,
           \A i \in 1 .. n : i < a => ~ Halts(s, g[i], c),
           a <= n => Halts(s, g[a], c),
           \A i \in 1 .. n : i < a => h[i] = g[i],
           h[a] = s,
           \A i \in 1 .. n : i >= a => h[i + 1] = g[i]
    PROVE  OneSweep(n + 1, h, c)
<1>1. n \in Nat /\ \A i \in 1 .. n : g[i] \in Int
  BY DEF Sectored
<1>2. PICK k \in 0 .. n : SweptAt(k, n, g, c)
  BY DEF OneSweep
<1>3. /\ \A i, j \in 1 .. n : (i < j /\ (j <= k \/ i > k)) => g[i] >= g[j]
      /\ \A i \in 1 .. n : (i <= k => g[i] < c) /\ (i > k => g[i] > c)
  BY <1>1, <1>2 DEF SweptAt
<1> DEFINE Through(m) ==
        /\ \A i \in 1 .. n : i < a => (i <= k <=> i <= m)
        /\ \A i \in 1 .. n : i >= a => (i <= k <=> i + 1 <= m)
        /\ a <= m => s <= c
        /\ a > m => s >= c
        /\ \A i \in 1 .. n : (i < a /\ (a <= m \/ i > m)) => g[i] >= s
        /\ \A i \in 1 .. n : (i >= a /\ (i + 1 <= m \/ a > m)) => s >= g[i]
<1>4. PICK m \in 0 .. n + 1 : Through(m)
  <2>1. CASE s < c
    <3>1. \A i \in 1 .. n : i < a => s <= g[i] /\ i <= k
      BY <1>1, <1>3, <2>1, HaltsReads
    <3>2. a <= k + 1
      BY <1>1, <3>1
    <3>3. a <= k => s > g[a]
      BY <1>1, <1>3, <2>1, HaltsReads
    <3>4. \A i \in 1 .. n : (i >= a /\ i + 1 <= k + 1) => s >= g[i]
      BY <1>1, <1>3, <3>3
    <3>5. k + 1 \in 0 .. n + 1
      BY <1>1
    <3>6. Through(k + 1)
      BY <1>1, <2>1, <3>1, <3>2, <3>4
    <3> QED
      BY <3>5, <3>6
  <2>2. CASE s >= c
    <3>1. a > k
      BY <1>1, <1>3, <2>2, HaltsReads
    <3>2. \A i \in 1 .. n : (i < a /\ i > k) => g[i] >= s
      BY <1>1, <1>3, <2>2, HaltsReads
    <3>3. a <= n => s > g[a]
      BY <1>1, <1>3, <2>2, HaltsReads
    <3>4. \A i \in 1 .. n : i >= a => s >= g[i]
      BY <1>1, <1>3, <3>1, <3>3
    <3>5. k \in 0 .. n + 1
      BY <1>1
    <3>6. Through(k)
      BY <1>1, <2>2, <3>1, <3>2, <3>4
    <3> QED
      BY <3>5, <3>6
  <2> QED
    BY <1>1, <2>1, <2>2
<1>5. ASSUME NEW j \in 1 .. n + 1
      PROVE  \/ j = a
             \/ j < a /\ j \in 1 .. n
             \/ j > a /\ j - 1 \in 1 .. n /\ j - 1 >= a /\ h[j] = g[j - 1]
  <2>1. j > a => j - 1 \in 1 .. n /\ j - 1 >= a /\ h[(j - 1) + 1] = g[j - 1] /\ (j - 1) + 1 = j
    BY <1>1
  <2> QED
    BY <1>1, <2>1
<1>6. ASSUME NEW i \in 1 .. n + 1, NEW j \in 1 .. n + 1, i < j, j <= m \/ i > m
      PROVE  h[i] >= h[j]
  <2>1. CASE i = a
    BY <1>1, <1>4, <1>5, <1>6, <2>1
  <2>2. CASE j = a
    BY <1>1, <1>4, <1>5, <1>6, <2>2
  <2>3. CASE i < a /\ j < a
    BY <1>1, <1>3, <1>4, <1>6, <2>3
  <2>4. CASE i < a /\ a < j
    <3>1. h[i] = g[i] /\ h[j] = g[j - 1] /\ i \in 1 .. n /\ j - 1 \in 1 .. n /\ i < j - 1
      BY <1>1, <1>5, <2>4
    <3>2. j - 1 <= k \/ i > k
      BY <1>1, <1>4, <1>5, <1>6, <2>4, <3>1
    <3> QED
      BY <1>3, <3>1, <3>2
  <2>5. CASE a < i /\ a < j
    <3>1. /\ h[i] = g[i - 1] /\ h[j] = g[j - 1] /\ i - 1 \in 1 .. n /\ j - 1 \in 1 .. n
          /\ i - 1 < j - 1
      BY <1>1, <1>5, <1>6, <2>5
    <3>2. j - 1 <= k \/ i - 1 > k
      BY <1>1, <1>4, <1>5, <1>6, <2>5, <3>1
    <3> QED
      BY <1>3, <3>1, <3>2
  <2> QED
    BY <1>1, <1>6, <2>1, <2>2, <2>3, <2>4, <2>5
<1>7. ASSUME NEW i \in 1 .. n + 1
      PROVE  (i <= m => h[i] <= c) /\ (i > m => h[i] >= c)
  <2>1. CASE i = a
    BY <1>1, <1>4, <2>1
  <2>2. CASE i < a
    BY <1>1, <1>3, <1>4, <2>2
  <2>3. CASE i > a
    <3>1. h[i] = g[i - 1] /\ i - 1 \in 1 .. n /\ i - 1 >= a
      BY <1>1, <1>5, <2>3
    <3>2. i - 1 <= k <=> i <= m
      BY <1>1, <1>4, <3>1
    <3> QED
      BY <1>1, <1>3, <3>1, <3>2
  <2> QED
    BY <1>1, <2>1, <2>2, <2>3
<1> QED
  BY <1>6, <1>7 DEF OneSweep, SweptAt

(* it goes on when a request is taken out, *)
LEMMA SweepRemove ==
    ASSUME NEW n, NEW g, Sectored(n, g), NEW c \in Int, OneSweep(n, g, c),
           NEW a \in 1 .. n, NEW h,
           \A i \in 1 .. n - 1 : h[i] = IF i < a THEN g[i] ELSE g[i + 1]
    PROVE  OneSweep(n - 1, h, c)
<1>1. n \in Nat /\ \A i \in 1 .. n : g[i] \in Int
  BY DEF Sectored
<1>2. PICK k \in 0 .. n : SweptAt(k, n, g, c)
  BY DEF OneSweep
<1> DEFINE m == IF a <= k THEN k - 1 ELSE k
<1>3. m \in 0 .. n - 1
  BY <1>1
<1>4. ASSUME NEW i \in 1 .. n - 1
      PROVE  \E x \in 1 .. n : /\ h[i] = g[x] /\ (i <= m <=> x <= k)
                               /\ x = IF i < a THEN i ELSE i + 1
  <2>1. CASE i < a
    BY <1>1, <2>1
  <2>2. CASE i >= a
    BY <1>1, <2>2
  <2> QED
    BY <1>1, <2>1, <2>2
<1> HIDE DEF m
<1>5. ASSUME NEW i \in 1 .. n - 1, NEW j \in 1 .. n - 1, i < j, j <= m \/ i > m
      PROVE  h[i] >= h[j]
  <2>1. PICK x \in 1 .. n : /\ h[i] = g[x] /\ (i <= m <=> x <= k)
                            /\ x = IF i < a THEN i ELSE i + 1
    BY <1>4
  <2>2. PICK y \in 1 .. n : /\ h[j] = g[y] /\ (j <= m <=> y <= k)
                            /\ y = IF j < a THEN j ELSE j + 1
    BY <1>4
  <2>3. x < y /\ (y <= k \/ x > k)
    BY <1>1, <1>3, <1>5, <2>1, <2>2
  <2> QED
    BY <1>2, <2>1, <2>2, <2>3 DEF SweptAt
<1>6. ASSUME NEW i \in 1 .. n - 1
      PROVE  (i <= m => h[i] <= c) /\ (i > m => h[i] >= c)
  <2>1. PICK x \in 1 .. n : h[i] = g[x] /\ (i <= m <=> x <= k)
    BY <1>4
  <2> QED
    BY <1>1, <1>2, <1>3, <2>1 DEF SweptAt
<1> QED
  BY <1>3, <1>5, <1>6 DEF OneSweep, SweptAt

(* and the head moves along it to the first request. *)
LEMMA SweepMove ==
    ASSUME NEW n, NEW g, Sectored(n, g), NEW c \in Int, OneSweep(n, g, c),
           n > 0, NEW h,
           \A i \in 1 .. n - 1 : h[i] = g[i + 1]
    PROVE  OneSweep(n - 1, h, g[1])
<1>1. n \in Nat /\ \A i \in 1 .. n : g[i] \in Int
  BY DEF Sectored
<1>2. PICK k \in 0 .. n : SweptAt(k, n, g, c)
  BY DEF OneSweep
<1> DEFINE m == IF k = 0 THEN n - 1 ELSE k - 1
<1>3. m \in 0 .. n - 1
  BY <1>1
<1>4. ASSUME NEW i \in 1 .. n - 1, NEW j \in 1 .. n - 1, i < j, j <= m \/ i > m
      PROVE  h[i] >= h[j]
  <2>1. i + 1 \in 1 .. n /\ j + 1 \in 1 .. n /\ i + 1 < j + 1
    BY <1>1, <1>4
  <2>2. j + 1 <= k \/ i + 1 > k
    BY <1>1, <1>4
  <2> QED
    BY <1>2, <2>1, <2>2 DEF SweptAt
<1>5. ASSUME NEW i \in 1 .. n - 1
      PROVE  (i <= m => h[i] <= g[1]) /\ (i > m => h[i] >= g[1])
  <2>1. i + 1 \in 1 .. n /\ 1 \in 1 .. n /\ 1 < i + 1 /\ h[i] = g[i + 1]
    BY <1>1
  <2>2. /\ (i + 1 <= k \/ 1 > k) => g[1] >= g[i + 1]
        /\ i + 1 > k => g[i + 1] >= c
        /\ 1 <= k => g[1] <= c
    BY <1>2, <2>1 DEF SweptAt
  <2>3. g[1] \in Int /\ g[i + 1] \in Int
    BY <1>1, <2>1
  <2> QED
    BY <1>1, <2>1, <2>2, <2>3
<1> HIDE DEF m
<1> QED
  BY <1>3, <1>4, <1>5 DEF OneSweep, SweptAt

(* Swept of Clook says just that of a queue. *)
SweptIn(q, f, c) == \E k \in 0 .. Len(q) :
    LET below == SubSeq(q, 1, k)
        above == SubSeq(q, k + 1, Len(q))
    IN /\ \A i, j \in DOMAIN below : i < j => f[below[i]] >= f[below[j]]
       /\ \A r \in ToSet(below) : f[r] <= c
       /\ \A i, j \in DOMAIN above : i < j => f[above[i]] >= f[above[j]]
       /\ \A r \in ToSet(above) : f[r] >= c

SectorsOf(q, f) == [i \in 1 .. Len(q) |-> f[q[i]]]

LEMMA SweptReads ==
    ASSUME NEW q \in Seq(Requests), NEW f, NEW c
    PROVE  SweptIn(q, f, c) <=> OneSweep(Len(q), SectorsOf(q, f), c)
<1>1. Len(q) \in Nat /\ \A i \in 1 .. Len(q) : q[i] \in Requests
  BY SeqFacts
<1> DEFINE g == SectorsOf(q, f)
<1>2. \A i \in 1 .. Len(q) : g[i] = f[q[i]]
  BY DEF SectorsOf
<1> HIDE DEF g
<1> SUFFICES ASSUME NEW k \in 0 .. Len(q)
             PROVE  LET below == SubSeq(q, 1, k)
                        above == SubSeq(q, k + 1, Len(q))
                    IN (/\ \A i, j \in DOMAIN below : i < j => f[below[i]] >= f[below[j]]
                        /\ \A r \in ToSet(below) : f[r] <= c
                        /\ \A i, j \in DOMAIN above : i < j => f[above[i]] >= f[above[j]]
                        /\ \A r \in ToSet(above) : f[r] >= c) <=> SweptAt(k, Len(q), g, c)
  BY DEF SweptIn, OneSweep, g
<1> DEFINE b == SubSeq(q, 1, k)
           a == SubSeq(q, k + 1, Len(q))
<1>3. b \in Seq(Requests) /\ Len(b) = k /\ \A i \in 1 .. k : b[i] = q[i]
  <2>1. \A i \in 1 .. k : q[i] \in Requests
    BY <1>1
  <2> QED
    BY <1>1, <2>1, SubSeqProperties
<1>4. /\ a \in Seq(Requests) /\ Len(a) = Len(q) - k
      /\ \A i \in 1 .. Len(q) - k : a[i] = q[k + i]
  <2>1. \A i \in k + 1 .. Len(q) : q[i] \in Requests
    BY <1>1
  <2> QED
    BY <1>1, <2>1, SubSeqProperties
<1> HIDE DEF b, a
<1>5. DOMAIN b = 1 .. k /\ \A r : r \in ToSet(b) <=> \E i \in 1 .. k : b[i] = r
  BY <1>3, SeqFacts
<1>6. /\ DOMAIN a = 1 .. Len(q) - k
      /\ \A r : r \in ToSet(a) <=> \E i \in 1 .. Len(q) - k : a[i] = r
  BY <1>4, SeqFacts
<1>7. \A i \in 1 .. k : i \in 1 .. Len(q) /\ f[b[i]] = g[i]
  BY <1>1, <1>2, <1>3
<1>8. \A i \in 1 .. Len(q) - k : k + i \in 1 .. Len(q) /\ f[a[i]] = g[k + i]
  BY <1>1, <1>2, <1>4
<1>9. \A j \in 1 .. Len(q) : j > k => j - k \in 1 .. Len(q) - k /\ f[a[j - k]] = g[j]
  <2>1. \A j \in 1 .. Len(q) : j > k => j - k \in 1 .. Len(q) - k /\ k + (j - k) = j
    BY <1>1
  <2> QED
    BY <1>8, <2>1
<1> DEFINE L == /\ \A i, j \in DOMAIN b : i < j => f[b[i]] >= f[b[j]]
                /\ \A r \in ToSet(b) : f[r] <= c
                /\ \A i, j \in DOMAIN a : i < j => f[a[i]] >= f[a[j]]
                /\ \A r \in ToSet(a) : f[r] >= c
<1>10. ASSUME L PROVE SweptAt(k, Len(q), g, c)
  <2>1. ASSUME NEW i \in 1 .. Len(q), NEW j \in 1 .. Len(q), i < j, j <= k \/ i > k
        PROVE  g[i] >= g[j]
    <3>1. CASE j <= k
      BY <1>1, <1>5, <1>7, <1>10, <2>1, <3>1
    <3>2. CASE i > k
      <4>1. i - k < j - k /\ j > k
        BY <1>1, <2>1, <3>2
      <4> QED
        BY <1>6, <1>9, <1>10, <3>2, <4>1
    <3> QED
      BY <2>1, <3>1, <3>2
  <2>2. ASSUME NEW i \in 1 .. Len(q)
        PROVE  (i <= k => g[i] <= c) /\ (i > k => g[i] >= c)
    BY <1>1, <1>5, <1>6, <1>7, <1>9, <1>10
  <2> QED
    BY <2>1, <2>2 DEF SweptAt
<1>11. ASSUME SweptAt(k, Len(q), g, c) PROVE L
  <2>1. ASSUME NEW i \in 1 .. k, NEW j \in 1 .. k, i < j PROVE f[b[i]] >= f[b[j]]
    BY <1>1, <1>7, <1>11, <2>1 DEF SweptAt
  <2>2. ASSUME NEW i \in 1 .. Len(q) - k, NEW j \in 1 .. Len(q) - k, i < j
        PROVE  f[a[i]] >= f[a[j]]
    <3>1. k + i < k + j /\ k + i > k
      BY <1>1, <2>2
    <3> QED
      BY <1>8, <1>11, <3>1 DEF SweptAt
  <2>3. ASSUME NEW i \in 1 .. k PROVE f[b[i]] <= c
    BY <1>1, <1>7, <1>11 DEF SweptAt
  <2>4. ASSUME NEW i \in 1 .. Len(q) - k PROVE f[a[i]] >= c
    <3>1. k + i > k
      BY <1>1
    <3> QED
      BY <1>8, <1>11, <3>1 DEF SweptAt
  <2> QED
    BY <1>5, <1>6, <2>1, <2>2, <2>3, <2>4
<1> QED
  BY <1>10, <1>11 DEF a, b

LEMMA SweptHere ==
    ASSUME NEW d
    PROVE  Swept(d) <=> SweptIn(queue[d], pos, currSector)
BY DEF Swept, SweptIn, Falls

LEMMA SweptNext ==
    ASSUME NEW d
    PROVE  Swept(d)' <=> SweptIn(queue'[d], pos', currSector')
BY DEF Swept, SweptIn, Falls

-----------------------------------------------------------------------------
(* A lone device: nobody moves the head while a request is placed. *)

(* The walk has passed only requests that the new one goes behind. *)
Walked ==
    \A d \in Devices : adding[d] # NoRequest =>
        \A i \in 1 .. Len(queue[d]) : i < at[d] =>
            ~ StopsBefore(pos[adding[d]], pos[queue[d][i]])

LoneInv == IInv /\ Walked

LEMMA LoneFacts ==
    ASSUME IInv, NEW d \in Devices
    PROVE  /\ queue[d] \in Seq(Requests) /\ IsInjective(queue[d])
           /\ Len(queue[d]) \in Nat
           /\ DOMAIN queue[d] = 1 .. Len(queue[d])
           /\ \A i \in 1 .. Len(queue[d]) : queue[d][i] \in Requests
           /\ \A r : r \in Queued(d) <=> \E i \in 1 .. Len(queue[d]) : queue[d][i] = r
           /\ currSector \in Int
           /\ pos \in [Requests -> Int]
           /\ Sectored(Len(queue[d]), SectorsOf(queue[d], pos))
<1>1. queue[d] \in Seq(Requests) /\ IsInjective(queue[d]) /\ Len(queue[d]) \in Nat
  BY AtDevice
<1>2. /\ DOMAIN queue[d] = 1 .. Len(queue[d])
      /\ \A i \in 1 .. Len(queue[d]) : queue[d][i] \in Requests
      /\ \A r : r \in Queued(d) <=> \E i \in 1 .. Len(queue[d]) : queue[d][i] = r
  BY <1>1, SeqFacts DEF Queued
<1>3. currSector \in Int /\ pos \in [Requests -> Int]
  BY AtDevice, SectorsAssumption DEF Shapes
<1> QED
  BY <1>1, <1>2, <1>3 DEF Sectored, SectorsOf

LEMMA LoneWalked ==
    ASSUME LoneInv, [Next]_vars, NEW d \in Devices, Devices = {d}
    PROVE  Walked'
<1>0. IInv /\ Walked /\ Len(queue[d]) \in Nat
  BY LoneFacts DEF LoneInv
<1> SUFFICES ASSUME adding'[d] # NoRequest, NEW i \in 1 .. Len(queue'[d]), i < at'[d]
             PROVE  ~ StopsBefore(pos[adding[d]], pos[queue[d][i]])'
  BY DEF Walked
<1>1. CASE \E r \in Requests, s \in 0 .. Sectors - 1 : AddRequest(d, r, s)
  <2>1. at'[d] = 1
    BY <1>0, <1>1, AtDevice DEF AddRequest, Shapes
  <2> QED
    BY <1>0, <2>1
<1>2. CASE WalkOn(d)
  <2>1. /\ queue' = queue /\ pos' = pos /\ currSector' = currSector /\ adding' = adding
        /\ at'[d] = at[d] + 1 /\ ~ Stopped(d)
    BY <1>0, <1>2, AtDevice DEF WalkOn, Shapes
  <2>2. at[d] \in Int
    BY <1>0, AtDevice
  <2>3. CASE i < at[d]
    BY <1>0, <2>1, <2>3 DEF Walked, StopsBefore
  <2>4. CASE i = at[d]
    BY <2>1, <2>4 DEF Stopped, StopsBefore
  <2> QED
    BY <2>1, <2>2, <2>3, <2>4
<1>3. CASE Insert(d)
  BY <1>0, <1>3, AtDevice DEF Insert, Shapes
<1>4. CASE Dispatch(d)
  BY <1>4 DEF Dispatch
<1>5. CASE \E rq, next \in Queued(d) : MergedRequests(d, rq, next)
  BY <1>5 DEF MergedRequests
<1>6. CASE UNCHANGED vars
  BY <1>0, <1>6 DEF vars, Walked, StopsBefore
<1> QED
  BY <1>1, <1>2, <1>3, <1>4, <1>5, <1>6 DEF Next

(* What a step of a lone device does to its sweep. *)

LEMMA AddRequestSweeps ==
    ASSUME IInv, NEW d \in Devices, NEW r \in Requests, NEW s \in 0 .. Sectors - 1,
           AddRequest(d, r, s), Swept(d)
    PROVE  Swept(d)'
<1>1. queue' = queue /\ currSector' = currSector /\ r \notin Queued(d)
  BY DEF AddRequest, Idle
<1>2. \A q \in Requests : q # r => pos'[q] = pos[q]
  BY LoneFacts DEF AddRequest
<1>3. SectorsOf(queue[d], pos') = SectorsOf(queue[d], pos)
  BY <1>1, <1>2, LoneFacts DEF SectorsOf
<1> QED
  BY <1>1, <1>3, LoneFacts, SweptHere, SweptNext, SweptReads

LEMMA InsertSweeps ==
    ASSUME LoneInv, NEW d \in Devices, Insert(d),
           Swept(d), \A r \in Queued(d) : pos[r] # currSector
    PROVE  Swept(d)'
<1> DEFINE q == queue[d]
           r == adding[d]
           a == at[d]
           p == InsertAt(q, a, r)
<1>1. /\ r # NoRequest /\ Stopped(d) /\ pos' = pos /\ currSector' = currSector
      /\ queue' = [queue EXCEPT ![d] = p]
  BY DEF Insert
<1>2. /\ q \in Seq(Requests) /\ Len(q) \in Nat /\ r \in Requests
      /\ currSector \in Int /\ pos \in [Requests -> Int]
      /\ \A i \in 1 .. Len(q) : q[i] \in Requests /\ q[i] \in Queued(d)
      /\ Sectored(Len(q), SectorsOf(q, pos))
  BY <1>1, LoneFacts, AtDevice DEF LoneInv
<1>3. a \in 1 .. Len(q) + 1
  BY <1>1 DEF LoneInv, IInv, Placing
<1>4. queue'[d] = p
  BY <1>1, AtDevice DEF LoneInv, Shapes
<1>5. p \in Seq(Requests) /\ With(q, a, r, p)
  BY <1>2, <1>3, InsertAtReads
<1>6. \A i \in 1 .. Len(q) : i < a => ~ Halts(pos[r], pos[q[i]], currSector)
  BY <1>1 DEF LoneInv, Walked, StopsBefore, Halts
<1>7. a <= Len(q) => Halts(pos[r], pos[q[a]], currSector)
  BY <1>1 DEF Stopped, StopsBefore, Halts
<1>8. OneSweep(Len(q), SectorsOf(q, pos), currSector)
  BY <1>2, SweptHere, SweptReads
<1> HIDE DEF q, r, a, p
<1> DEFINE g == SectorsOf(q, pos)
           h == SectorsOf(p, pos)
<1>9. /\ \A i \in 1 .. Len(q) : g[i] = pos[q[i]] /\ g[i] # currSector
      /\ \A i \in 1 .. Len(q) + 1 : h[i] = pos[p[i]]
      /\ Len(p) = Len(q) + 1
  BY <1>2, <1>5 DEF SectorsOf, With
<1> HIDE DEF g, h
<1>10. /\ \A i \in 1 .. Len(q) : i < a => h[i] = g[i]
       /\ h[a] = pos[r]
       /\ \A i \in 1 .. Len(q) : i >= a => h[i + 1] = g[i]
  <2>1. ASSUME NEW i \in 1 .. Len(q), i < a PROVE h[i] = g[i]
    <3>1. i \in 1 .. Len(q) + 1
      BY <1>2
    <3>2. p[i] = q[i]
      BY <1>5, <2>1, <3>1 DEF With
    <3> QED
      BY <1>9, <3>1, <3>2
  <2>2. h[a] = pos[r]
    BY <1>2, <1>3, <1>5, <1>9 DEF With
  <2>3. ASSUME NEW i \in 1 .. Len(q), i >= a PROVE h[i + 1] = g[i]
    <3>1. i + 1 \in 1 .. Len(q) + 1 /\ ~ (i + 1 < a) /\ i + 1 # a /\ (i + 1) - 1 = i
      BY <1>2, <1>3, <2>3
    <3> QED
      BY <1>5, <1>9, <3>1 DEF With
  <2> QED
    BY <2>1, <2>2, <2>3
<1>11. OneSweep(Len(q) + 1, h, currSector)
  <2>1. pos[r] \in Int
    BY <1>2
  <2>2. \A i \in 1 .. Len(q) : i < a => ~ Halts(pos[r], g[i], currSector)
    BY <1>6, <1>9
  <2>3. a <= Len(q) => Halts(pos[r], g[a], currSector)
    BY <1>2, <1>3, <1>7, <1>9
  <2>4. Sectored(Len(q), g) /\ OneSweep(Len(q), g, currSector)
    BY <1>2, <1>8 DEF g
  <2> QED
    BY <1>2, <1>3, <1>9, <1>10, <2>1, <2>2, <2>3, <2>4, SweepInsert
<1> QED
  BY <1>1, <1>4, <1>5, <1>9, <1>11, SweptNext, SweptReads DEF h

LEMMA DispatchSweeps ==
    ASSUME IInv, NEW d \in Devices, Dispatch(d), Swept(d)
    PROVE  Swept(d)'
<1> DEFINE q == queue[d]
<1>1. /\ q \in Seq(Requests) /\ IsInjective(q) /\ Len(q) \in Nat
      /\ currSector \in Int /\ pos \in [Requests -> Int]
      /\ \A i \in 1 .. Len(q) : q[i] \in Requests
      /\ Sectored(Len(q), SectorsOf(q, pos))
  BY LoneFacts
<1>2. /\ q # <<>> /\ queue' = [queue EXCEPT ![d] = Tail(q)]
      /\ currSector' = pos[Head(q)] /\ pos' = [pos EXCEPT ![Head(q)] = 0]
  BY DEF Dispatch, Popped
<1>3. queue'[d] = Tail(q)
  BY <1>2, AtDevice DEF Shapes
<1>4. OneSweep(Len(q), SectorsOf(q, pos), currSector)
  BY <1>1, SweptHere, SweptReads
<1> HIDE DEF q
<1>5. /\ Tail(q) \in Seq(Requests) /\ Len(Tail(q)) = Len(q) - 1 /\ Head(q) = q[1]
      /\ \A i \in 1 .. Len(q) - 1 : Tail(q)[i] = q[i + 1]
      /\ Len(q) > 0
  BY <1>1, <1>2, HeadTailProperties, EmptySeq
<1> DEFINE g == SectorsOf(q, pos)
           h == SectorsOf(Tail(q), pos')
<1>6. \A i \in 1 .. Len(q) - 1 : h[i] = g[i + 1]
  <2>1. ASSUME NEW i \in 1 .. Len(q) - 1
        PROVE  i + 1 \in 1 .. Len(q) /\ 1 \in 1 .. Len(q) /\ q[i + 1] # q[1]
    BY <1>1 DEF IsInjective
  <2>2. \A i \in 1 .. Len(q) - 1 : pos'[q[i + 1]] = pos[q[i + 1]]
    BY <1>1, <1>2, <1>5, <2>1
  <2> QED
    BY <1>1, <1>5, <2>1, <2>2 DEF SectorsOf
<1>7. g[1] = currSector'
  BY <1>1, <1>2, <1>5 DEF SectorsOf
<1> HIDE DEF g, h
<1>8. OneSweep(Len(q) - 1, h, g[1])
  <2>1. Sectored(Len(q), g) /\ OneSweep(Len(q), g, currSector)
    BY <1>1, <1>4 DEF g
  <2> QED
    BY <1>1, <1>5, <1>6, <2>1, SweepMove
<1> QED
  BY <1>3, <1>5, <1>7, <1>8, SweptNext, SweptReads DEF h

LEMMA MergedRequestsSweeps ==
    ASSUME IInv, NEW d \in Devices, NEW rq \in Queued(d), NEW next \in Queued(d),
           MergedRequests(d, rq, next), Swept(d)
    PROVE  Swept(d)'
<1> DEFINE q == queue[d]
<1>1. /\ q \in Seq(Requests) /\ IsInjective(q) /\ Len(q) \in Nat
      /\ DOMAIN q = 1 .. Len(q)
      /\ currSector \in Int /\ pos \in [Requests -> Int]
      /\ \A i \in 1 .. Len(q) : q[i] \in Requests
      /\ Sectored(Len(q), SectorsOf(q, pos))
  BY LoneFacts
<1>2. PICK a \in 1 .. Len(q) :
        q[a] = next /\ queue' = [queue EXCEPT ![d] = RemoveAt(q, a)]
  BY <1>1 DEF MergedRequests, Dropped
<1>3. currSector' = currSector /\ pos' = [pos EXCEPT ![next] = 0]
  BY DEF MergedRequests
<1>4. queue'[d] = RemoveAt(q, a)
  BY <1>2, AtDevice DEF Shapes
<1>5. OneSweep(Len(q), SectorsOf(q, pos), currSector)
  BY <1>1, SweptHere, SweptReads
<1> HIDE DEF q
<1> DEFINE p == RemoveAt(q, a)
           g == SectorsOf(q, pos)
           h == SectorsOf(p, pos')
<1>6. /\ p \in Seq(Requests) /\ Len(p) = Len(q) - 1
      /\ \A i \in 1 .. Len(q) - 1 : p[i] = IF i < a THEN q[i] ELSE q[i + 1]
  BY <1>1, RemoveAtReads
<1> HIDE DEF p
<1>7. ASSUME NEW i \in 1 .. Len(q) - 1
      PROVE  h[i] = IF i < a THEN g[i] ELSE g[i + 1]
  <2>1. PICK j \in 1 .. Len(q) : j # a /\ p[i] = q[j] /\ j = IF i < a THEN i ELSE i + 1
    <3>1. CASE i < a
      BY <1>1, <1>6, <3>1
    <3>2. CASE i >= a
      <4>1. i + 1 \in 1 .. Len(q) /\ i + 1 # a /\ p[i] = q[i + 1]
        BY <1>1, <1>6, <3>2
      <4> QED
        BY <1>1, <3>2, <4>1
    <3> QED
      BY <1>1, <3>1, <3>2
  <2>2. q[j] # next /\ q[j] \in Requests
    BY <1>1, <1>2, <2>1 DEF IsInjective
  <2>3. h[i] = pos'[q[j]] /\ g[j] = pos[q[j]]
    BY <1>6, <2>1 DEF SectorsOf
  <2>4. h[i] = g[j]
    BY <1>1, <1>3, <2>2, <2>3
  <2> QED
    BY <2>1, <2>4
<1> HIDE DEF g, h
<1>8. OneSweep(Len(q) - 1, h, currSector)
  <2>1. Sectored(Len(q), g) /\ OneSweep(Len(q), g, currSector)
    BY <1>1, <1>5 DEF g
  <2> QED
    BY <1>1, <1>7, <2>1, SweepRemove
<1> QED
  BY <1>3, <1>4, <1>6, <1>8, SweptNext, SweptReads DEF h, p

LEMMA LoneSweeps ==
    ASSUME LoneInv, [Next]_vars, NEW d \in Devices, Devices = {d},
           Swept(d), \A r \in Queued(d) : pos[r] # currSector
    PROVE  Swept(d)'
<1>0. IInv
  BY DEF LoneInv
<1>1. CASE \E r \in Requests, s \in 0 .. Sectors - 1 : AddRequest(d, r, s)
  BY <1>0, <1>1, AddRequestSweeps
<1>2. CASE WalkOn(d)
  BY <1>2, SweptHere, SweptNext DEF WalkOn
<1>3. CASE Insert(d)
  BY <1>3, InsertSweeps
<1>4. CASE Dispatch(d)
  BY <1>0, <1>4, DispatchSweeps
<1>5. CASE \E rq, next \in Queued(d) : MergedRequests(d, rq, next)
  BY <1>0, <1>5, MergedRequestsSweeps
<1>6. CASE UNCHANGED vars
  BY <1>6, SweptHere, SweptNext DEF vars
<1> QED
  BY <1>1, <1>2, <1>3, <1>4, <1>5, <1>6 DEF Next

Alone == \E d : Devices = {d}

(* With one device, whatever it adds, merges and dispatches, its queue stays *)
(* one sweep of the head unless a request waits at the head's own sector;    *)
(* with two, a dispatch on the other device moves the head during the walk.  *)
THEOREM AlwaysSweepKept ==
    ASSUME Alone
    PROVE  Spec => SweepKept
<1>1. Init => LoneInv
  BY InitIInv DEF Init, LoneInv, Walked
<1>2. LoneInv /\ [Next]_vars => LoneInv'
  BY NextIInv, LoneWalked DEF LoneInv, Alone, Walked
<1>3. LoneInv /\ [Next]_vars =>
        [\A d \in Devices :
           Swept(d) /\ (\A r \in Queued(d) : pos[r] # currSector) => Swept(d)']_vars
  BY LoneSweeps DEF Alone
<1> QED
  BY <1>1, <1>2, <1>3, PTL DEF Spec, SweepKept
=============================================================================
