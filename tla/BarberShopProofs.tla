-------------------------- MODULE BarberShopProofs --------------------------
(* What holds of BarberShop for every number of customers and chairs.        *)
EXTENDS BarberShop, FiniteSetTheorems, TLAPS

(* Who holds the mutex is told by where the threads are. *)
Inside == {"door", "found", "seated", "called"}
MutexHeld ==
    /\ \A c \in Customers : pc[c] \in Inside <=> wait_seats = c
    /\ bpc \in {"locked", "freed", "posted"} <=> wait_seats = Barber
    /\ \A c \in Customers : pc[c] = "found" => available_wait_seats > 0

(* The invariant: SeatsExact and HaircutsExact are preserved only because    *)
(* one thread at a time is between the mutex calls, and the count stays in   *)
(* range only because of SeatsExact.                                         *)
IInv == TypeOK /\ MutexHeld /\ SeatsExact /\ HaircutsExact

(* A set of customers is finite. *)
LEMMA InType ==
    ASSUME NEW S
    PROVE  IsFiniteSet(In(S)) /\ Cardinality(In(S)) \in Nat
<1>1. In(S) \subseteq Customers
  BY DEF In
<1> QED
  BY <1>1, FS_Subset, FS_CardinalityType, CustomersAssumption

(* How one customer's move changes how many are at the labels S. *)
LEMMA GotoCount ==
    ASSUME TypeOK, NEW c \in Customers, NEW l \in CustomerLabels, Goto(c, l), NEW S
    PROVE  Cardinality(In(S))' =
             Cardinality(In(S)) + (IF l \in S THEN 1 ELSE 0)
                                - (IF pc[c] \in S THEN 1 ELSE 0)
<1>1. pc' = [pc EXCEPT ![c] = l] /\ pc \in [Customers -> CustomerLabels]
  BY DEF TypeOK, Goto
<1>2. IsFiniteSet(In(S)) /\ Cardinality(In(S)) \in Nat
  BY InType
<1>3. CASE l \in S <=> pc[c] \in S
  <2>1. In(S)' = In(S)
    BY <1>1, <1>3 DEF In
  <2> QED
    BY <1>2, <1>3, <2>1
<1>4. CASE l \in S /\ pc[c] \notin S
  <2>1. In(S)' = In(S) \cup {c} /\ c \notin In(S)
    BY <1>1, <1>4 DEF In
  <2>2. Cardinality(In(S) \cup {c}) = Cardinality(In(S)) + 1
    BY <1>2, <2>1, FS_AddElement
  <2>3. Cardinality(In(S))' = Cardinality(In(S)) + 1
    BY <2>1, <2>2
  <2> QED
    BY <1>2, <1>4, <2>3
<1>5. CASE l \notin S /\ pc[c] \in S
  <2>1. In(S)' = In(S) \ {c} /\ c \in In(S)
    BY <1>1, <1>5 DEF In
  <2>2. Cardinality(In(S) \ {c}) = Cardinality(In(S)) - 1
    BY <1>2, <2>1, FS_RemoveElement
  <2>3. Cardinality(In(S))' = Cardinality(In(S)) - 1
    BY <2>1, <2>2
  <2> QED
    BY <1>2, <1>5, <2>3
<1> QED
  BY <1>3, <1>4, <1>5

(* A step of the barber leaves the customers where they are. *)
LEMMA StayCount ==
    ASSUME UNCHANGED pc, NEW S
    PROVE  Cardinality(In(S))' = Cardinality(In(S))
<1>1. In(S)' = In(S)
  BY DEF In
<1> QED
  BY <1>1

(* The shop opens with every chair free, every semaphore at zero and nobody in. *)
LEMMA InitIInv == Init => IInv
<1> SUFFICES ASSUME Init PROVE IInv
  OBVIOUS
<1>1. In({"seated"}) = {} /\ In({"called", "waiting"}) = {}
  BY DEF Init, In
<1>2. Cardinality(In({"seated"})) = 0 /\ Cardinality(In({"called", "waiting"})) = 0
  BY <1>1, FS_EmptySet
<1>3. TypeOK /\ MutexHeld
  BY SeatsAssumption, OthersAssumption
  DEF Init, TypeOK, MutexHeld, Inside, CustomerLabels, BarberLabels
<1>4. SeatsExact /\ HaircutsExact
  BY <1>2, SeatsAssumption DEF Init, SeatsExact, HaircutsExact, BarberIn
<1> QED
  BY <1>3, <1>4 DEF IInv

(* The counts of a customer's step from label k to label l. *)
LEMMA CustomerInv ==
    ASSUME IInv, NEW c \in Customers, Customer(c)
    PROVE  IInv'
<1> USE SeatsAssumption, OthersAssumption
<1>0. /\ Cardinality(In({"seated"})) \in Nat
      /\ Cardinality(In({"called", "waiting"})) \in Nat
  BY InType
<1>1. /\ TypeOK /\ MutexHeld /\ SeatsExact /\ HaircutsExact
      /\ Seats \in Nat
  BY DEF IInv
<1>2. ASSUME NEW l \in CustomerLabels, Goto(c, l)
      PROVE  /\ Cardinality(In({"seated"}))' = Cardinality(In({"seated"}))
                  + (IF l = "seated" THEN 1 ELSE 0)
                  - (IF pc[c] = "seated" THEN 1 ELSE 0)
             /\ Cardinality(In({"called", "waiting"}))' =
                  Cardinality(In({"called", "waiting"}))
                  + (IF l \in {"called", "waiting"} THEN 1 ELSE 0)
                  - (IF pc[c] \in {"called", "waiting"} THEN 1 ELSE 0)
             /\ pc'[c] = l /\ \A d \in Customers \ {c} : pc'[d] = pc[d]
             /\ pc' \in [Customers -> CustomerLabels]
  <2>1. Cardinality(In({"seated"}))' = Cardinality(In({"seated"}))
                  + (IF l \in {"seated"} THEN 1 ELSE 0)
                  - (IF pc[c] \in {"seated"} THEN 1 ELSE 0)
    BY <1>1, <1>2, GotoCount
  <2>2. Cardinality(In({"called", "waiting"}))' =
                  Cardinality(In({"called", "waiting"}))
                  + (IF l \in {"called", "waiting"} THEN 1 ELSE 0)
                  - (IF pc[c] \in {"called", "waiting"} THEN 1 ELSE 0)
    BY <1>1, <1>2, GotoCount
  <2>3. /\ pc'[c] = l /\ \A d \in Customers \ {c} : pc'[d] = pc[d]
        /\ pc' \in [Customers -> CustomerLabels]
    BY <1>1, <1>2 DEF Goto, TypeOK
  <2> QED
    BY <2>1, <2>2, <2>3
<1>3. CASE Enter(c)
  <2>1. Goto(c, "door") /\ "door" \in CustomerLabels
    BY <1>3 DEF Enter, CustomerLabels
  <2>2. TypeOK' /\ MutexHeld'
    BY <1>1, <1>2, <1>3, <2>1 DEF Enter, MutexFree, sems, TypeOK, MutexHeld, Inside
  <2>3. SeatsExact' /\ HaircutsExact'
    BY <1>0, <1>1, <1>2, <1>3, <2>1
    DEF Enter, sems, SeatsExact, HaircutsExact, BarberIn, TypeOK
  <2> QED
    BY <2>2, <2>3 DEF IInv
<1>4. CASE FindSeat(c)
  <2>1. Goto(c, "found") /\ "found" \in CustomerLabels
    BY <1>4 DEF FindSeat, CustomerLabels
  <2>2. TypeOK' /\ MutexHeld'
    BY <1>1, <1>2, <1>4, <2>1 DEF FindSeat, sems, TypeOK, MutexHeld, Inside
  <2>3. SeatsExact' /\ HaircutsExact'
    BY <1>0, <1>1, <1>2, <1>4, <2>1
    DEF FindSeat, sems, SeatsExact, HaircutsExact, BarberIn, TypeOK
  <2> QED
    BY <2>2, <2>3 DEF IInv
<1>5. CASE TakeSeat(c)
  <2>1. Goto(c, "seated") /\ "seated" \in CustomerLabels
    BY <1>5 DEF TakeSeat, CustomerLabels
  <2>2. TypeOK'
    BY <1>1, <1>2, <1>5, <2>1 DEF TakeSeat, sems, TypeOK, MutexHeld
  <2>3. \A d \in Customers \ {c} : pc[d] # "found"
    BY <1>1, <1>5 DEF TakeSeat, MutexHeld, Inside
  <2>4. MutexHeld'
    BY <1>1, <1>2, <1>5, <2>1, <2>3 DEF TakeSeat, sems, TypeOK, MutexHeld, Inside
  <2>5. SeatsExact' /\ HaircutsExact'
    BY <1>0, <1>1, <1>2, <1>5, <2>1
    DEF TakeSeat, sems, SeatsExact, HaircutsExact, BarberIn, TypeOK
  <2> QED
    BY <2>2, <2>4, <2>5 DEF IInv
<1>6. CASE CallBarber(c)
  <2>1. Goto(c, "called") /\ "called" \in CustomerLabels
    BY <1>6 DEF CallBarber, CustomerLabels
  <2>2. TypeOK' /\ MutexHeld'
    BY <1>1, <1>2, <1>6, <2>1 DEF CallBarber, sems, TypeOK, MutexHeld, Inside
  <2>3. SeatsExact' /\ HaircutsExact'
    BY <1>0, <1>1, <1>2, <1>6, <2>1
    DEF CallBarber, sems, SeatsExact, HaircutsExact, BarberIn, TypeOK
  <2> QED
    BY <2>2, <2>3 DEF IInv
<1>7. CASE Wait(c)
  <2>1. Goto(c, "waiting") /\ "waiting" \in CustomerLabels
    BY <1>7 DEF Wait, CustomerLabels
  <2>2. TypeOK' /\ MutexHeld'
    BY <1>1, <1>2, <1>7, <2>1 DEF Wait, sems, TypeOK, MutexHeld, Inside
  <2>3. SeatsExact' /\ HaircutsExact'
    BY <1>0, <1>1, <1>2, <1>7, <2>1
    DEF Wait, sems, SeatsExact, HaircutsExact, BarberIn, TypeOK
  <2> QED
    BY <2>2, <2>3 DEF IInv
<1>8. CASE GetHairCut(c)
  <2>1. Goto(c, "chair") /\ "chair" \in CustomerLabels
    BY <1>8 DEF GetHairCut, CustomerLabels
  <2>2. TypeOK' /\ MutexHeld'
    BY <1>1, <1>2, <1>8, <2>1 DEF GetHairCut, sems, TypeOK, MutexHeld, Inside
  <2>3. SeatsExact' /\ HaircutsExact'
    BY <1>0, <1>1, <1>2, <1>8, <2>1
    DEF GetHairCut, sems, SeatsExact, HaircutsExact, BarberIn, TypeOK
  <2> QED
    BY <2>2, <2>3 DEF IInv
<1>9. CASE Leave(c)
  <2>1. Goto(c, "outside") /\ "outside" \in CustomerLabels
    BY <1>9 DEF Leave, CustomerLabels
  <2>2. TypeOK' /\ MutexHeld'
    BY <1>1, <1>2, <1>9, <2>1 DEF Leave, sems, TypeOK, MutexHeld, Inside
  <2>3. SeatsExact' /\ HaircutsExact'
    BY <1>0, <1>1, <1>2, <1>9, <2>1
    DEF Leave, sems, SeatsExact, HaircutsExact, BarberIn, TypeOK
  <2> QED
    BY <2>2, <2>3 DEF IInv
<1>10. CASE TurnAway(c)
  <2>1. Goto(c, "outside") /\ "outside" \in CustomerLabels
    BY <1>10 DEF TurnAway, CustomerLabels
  <2>2. TypeOK' /\ MutexHeld'
    BY <1>1, <1>2, <1>10, <2>1 DEF TurnAway, sems, TypeOK, MutexHeld, Inside
  <2>3. SeatsExact' /\ HaircutsExact'
    BY <1>0, <1>1, <1>2, <1>10, <2>1
    DEF TurnAway, sems, SeatsExact, HaircutsExact, BarberIn, TypeOK
  <2> QED
    BY <2>2, <2>3 DEF IInv
<1> QED
  BY <1>3, <1>4, <1>5, <1>6, <1>7, <1>8, <1>9, <1>10 DEF Customer

(* Every step of the barber keeps the invariant: the customer he takes, the *)
(* chair he frees and the call he posts are one and the same count.         *)
LEMMA BarberInv ==
    ASSUME IInv, BarberStep
    PROVE  IInv'
<1> USE SeatsAssumption, OthersAssumption
<1>0. /\ Cardinality(In({"seated"})) \in Nat
      /\ Cardinality(In({"called", "waiting"})) \in Nat
  BY InType
<1>1. /\ TypeOK /\ MutexHeld /\ SeatsExact /\ HaircutsExact
      /\ Seats \in Nat
  BY DEF IInv
<1>2. UNCHANGED pc
  BY DEF BarberStep, LookIn, TakeCustomer, BarberLock, FreeSeat, CallCustomer,
         BarberUnlock, CutHair
<1>3. /\ Cardinality(In({"seated"}))' = Cardinality(In({"seated"}))
      /\ Cardinality(In({"called", "waiting"}))' =
           Cardinality(In({"called", "waiting"}))
  BY <1>2, StayCount
<1>4. CASE LookIn \/ TakeCustomer \/ BarberLock
  <2>1. TypeOK' /\ MutexHeld'
    BY <1>1, <1>4 DEF LookIn, TakeCustomer, BarberLock, MutexFree, sems, TypeOK,
                      BarberLabels, MutexHeld, Inside
  <2>2. SeatsExact' /\ HaircutsExact'
    BY <1>0, <1>1, <1>3, <1>4 DEF LookIn, TakeCustomer, BarberLock, sems, SeatsExact,
                             HaircutsExact, BarberIn, TypeOK
  <2> QED
    BY <2>1, <2>2 DEF IInv
<1>5. CASE FreeSeat
  <2>1. SeatsExact' /\ HaircutsExact'
    BY <1>0, <1>1, <1>3, <1>5 DEF FreeSeat, SeatsAfter, sems, SeatsExact, HaircutsExact,
                             BarberIn, TypeOK
  <2>2. available_wait_seats' \in 0 .. Seats
    BY <1>0, <1>1, <1>5 DEF FreeSeat, SeatsAfter, SeatsExact, BarberIn, TypeOK
  <2>3. TypeOK' /\ MutexHeld'
    BY <1>1, <1>5, <2>2 DEF FreeSeat, SeatsAfter, sems, TypeOK, BarberLabels,
                            MutexHeld, Inside
  <2> QED
    BY <2>1, <2>3 DEF IInv
<1>6. CASE CallCustomer \/ BarberUnlock \/ CutHair
  <2>1. TypeOK' /\ MutexHeld'
    BY <1>1, <1>6 DEF CallCustomer, Called, BarberUnlock, CutHair, sems, TypeOK,
                      BarberLabels, MutexHeld, Inside
  <2>2. SeatsExact' /\ HaircutsExact'
    BY <1>0, <1>1, <1>3, <1>6 DEF CallCustomer, Called, BarberUnlock, CutHair, sems,
                             SeatsExact, HaircutsExact, BarberIn, TypeOK
  <2> QED
    BY <2>1, <2>2 DEF IInv
<1> QED
  BY <1>4, <1>5, <1>6 DEF BarberStep

(* So does every step of anyone. *)
LEMMA NextIInv == IInv /\ [Next]_vars => IInv'
<1> SUFFICES ASSUME IInv, [Next]_vars PROVE IInv'
  OBVIOUS
<1>1. CASE UNCHANGED vars
  BY <1>1 DEF vars, sems, IInv, TypeOK, MutexHeld, SeatsExact, HaircutsExact, In,
              BarberIn
<1> QED
  BY <1>1, CustomerInv, BarberInv DEF Next

(* The invariant holds of every behaviour. *)
THEOREM ShopInvariance == Spec => []IInv
BY InitIInv, NextIInv, PTL DEF Spec

(* Every variable keeps its type: the count of chairs stays in range. *)
THEOREM ShopTypeCorrect == Spec => []TypeOK
BY ShopInvariance, PTL DEF IInv

(* Every taken chair stands for one customer still to be fetched. *)
THEOREM SeatsAlwaysExact == Spec => []SeatsExact
BY ShopInvariance, PTL DEF IInv

(* Every customer who waits will be called exactly once. *)
THEOREM HaircutsAlwaysExact == Spec => []HaircutsExact
BY ShopInvariance, PTL DEF IInv

(* Nobody is turned away while fewer wait than there are chairs. *)
THEOREM NobodyTurnedAwayEarly == Spec => TurnedAwayOnlyWhenFull
<1>1. ASSUME IInv, NEW c \in Customers, TurnAway(c)
      PROVE  Cardinality(In({"seated", "called", "waiting"})) >= Seats
  <2>1. In({"seated"}) = {}
    BY <1>1 DEF IInv, MutexHeld, Inside, TurnAway, In
  <2>2. Cardinality(In({"seated"})) = 0
    BY <2>1, FS_EmptySet
  <2>3. Cardinality(In({"called", "waiting"})) >= Seats
    BY <1>1, <2>2, InType, SeatsAssumption
    DEF IInv, TypeOK, MutexHeld, Inside, TurnAway, SeatsExact, HaircutsExact, BarberIn
  <2>4. In({"called", "waiting"}) \subseteq In({"seated", "called", "waiting"})
    BY DEF In
  <2>5. Cardinality(In({"called", "waiting"}))
          <= Cardinality(In({"seated", "called", "waiting"}))
    BY <2>4, InType, FS_Subset
  <2> QED
    BY <2>3, <2>5, InType, SeatsAssumption
<1>2. IInv => [\A c \in Customers : TurnAway(c) =>
                 Cardinality(In({"seated", "called", "waiting"})) >= Seats]_vars
  BY <1>1
<1> QED
  BY <1>2, ShopInvariance, PTL DEF Spec, TurnedAwayOnlyWhenFull
=============================================================================
