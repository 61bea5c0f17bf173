---------------------------- MODULE BarberProofs ----------------------------
(* Proofs about Barber, for any number of customers, seats and arrivals: the *)
(* chair holds one customer at a time however wrong the unlocked count of    *)
(* customers becomes.                                                        *)
EXTENDS Barber, FiniteSetTheorems, TLAPS

IInv == TypeOK /\ OneChair /\ SleepSeen

LEMMA InChairFinite == IsFiniteSet(InChair) /\ Cardinality(InChair) \in Nat
BY CustomersAssumption, FS_Subset, FS_CardinalityType DEF InChair

(* A step outside the chair leaves who is in it alone. *)
LEMMA InChairSame ==
    ASSUME TypeOK, NEW c \in Customers, NEW l,
           l \in {"chair", "cut", "rise"} <=> pc[c] \in {"chair", "cut", "rise"},
           Goto(c, l)
    PROVE  InChair' = InChair
BY DEF TypeOK, Goto, InChair

(* The initial state of main satisfies the invariant. *)
LEMMA InitEstablishes == Init => IInv
<1> SUFFICES ASSUME Init PROVE IInv
  OBVIOUS
<1>1. InChair = {}
  BY DEF Init, InChair
<1>2. OneChair
  BY <1>1, FS_EmptySet DEF Init, OneChair
<1> QED
  BY <1>2, ArrivalsAssumption
     DEF Init, IInv, TypeOK, SleepSeen, CustomerLabels, BarberLabels

(* Every step keeps the variables' types; the semaphores stay counts because *)
(* whoever lowers one has waited for it to be positive.                      *)
LEMMA TypePreserved ==
    ASSUME TypeOK, [Next]_vars
    PROVE  TypeOK'
<1> USE DEF TypeOK, CustomerLabels, BarberLabels, Goto, shop, sems
<1>1. CASE CountLoad
  BY <1>1, ArrivalsAssumption DEF CountLoad
<1>2. CASE CountStore
  BY <1>2 DEF CountStore
<1>3. ASSUME NEW c \in Customers, Create(c) PROVE TypeOK'
  BY <1>3 DEF Create
<1>4. ASSUME NEW c \in Customers, Customer(c) PROVE TypeOK'
  <2>1. CASE Enter(c) \/ LookAgain(c) \/ LookAtBarber(c)
    BY <2>1 DEF Enter, LookAgain, LookAtBarber
  <2>2. CASE Wake(c)
    BY <2>2 DEF Wake
  <2>3. CASE Call(c)
    BY <2>3 DEF Call, Called
  <2>4. CASE Wait(c)
    BY <2>4 DEF Wait
  <2>5. CASE GetHairCut(c) \/ Leave(c)
    BY <2>5 DEF GetHairCut, Leave
  <2>6. CASE LeaveChair(c) \/ CountOut(c)
    BY <2>6 DEF LeaveChair, CountOut
  <2>7. CASE Rise(c)
    BY <2>7 DEF Rise
  <2> QED
    BY <1>4, <2>1, <2>2, <2>3, <2>4, <2>5, <2>6, <2>7 DEF Customer
<1>5. CASE BarberStep
  <2>1. CASE TakeChair
    BY <2>1 DEF TakeChair, ChairFree
  <2>2. CASE LookForCustomer \/ Doze \/ CutHair
    BY <2>2 DEF LookForCustomer, Doze, CutHair
  <2>3. CASE Woken
    BY <2>3 DEF Woken
  <2>4. CASE GiveChair
    BY <2>4 DEF GiveChair, GivenBack
  <2>5. CASE SetTime
    BY <2>5 DEF SetTime
  <2>6. CASE CallCustomer
    BY <2>6 DEF CallCustomer
  <2> QED
    BY <1>5, <2>1, <2>2, <2>3, <2>4, <2>5, <2>6 DEF BarberStep
<1>6. CASE UNCHANGED vars \/ Over
  BY <1>6 DEF vars, Over
<1> QED
  BY <1>1, <1>2, <1>3, <1>4, <1>5, <1>6 DEF Next

(* Every step passes the one chair on: from sem_s to the barber, from him to *)
(* a call of sem_c or back to sem_s, from the call to a customer, and from   *)
(* the customer back to sem_s.                                               *)
LEMMA ChairPreserved ==
    ASSUME TypeOK, OneChair, [Next]_vars
    PROVE  OneChair'
<1> USE DEF OneChair, shop, sems
<1>1. ASSUME UNCHANGED <<sems, pc, bpc>> PROVE OneChair'
  BY <1>1 DEF InChair
<1>2. ASSUME NEW c \in Customers, Create(c) PROVE OneChair'
  <2>1. InChair' = InChair
    BY <1>2, InChairSame DEF Create
  <2> QED
    BY <1>2, <2>1 DEF Create
<1>3. ASSUME NEW c \in Customers, Customer(c) PROVE OneChair'
  <2>1. CASE Wait(c)
    <3>1. InChair' = InChair \cup {c} /\ c \notin InChair
      BY <2>1 DEF Wait, Goto, InChair, TypeOK
    <3>2. Cardinality(InChair') = Cardinality(InChair) + 1
      BY <3>1, InChairFinite, FS_AddElement
    <3> QED
      BY <2>1, <3>2, InChairFinite DEF Wait, TypeOK
  <2>2. CASE Rise(c)
    <3>1. InChair' = InChair \ {c} /\ c \in InChair
      BY <2>2 DEF Rise, Goto, InChair, TypeOK
    <3>2. Cardinality(InChair') = Cardinality(InChair) - 1
      BY <3>1, InChairFinite, FS_RemoveElement
    <3> QED
      BY <2>2, <3>2, InChairFinite DEF Rise, TypeOK
  <2>3. CASE \/ Enter(c) \/ LookAgain(c) \/ LookAtBarber(c) \/ Wake(c) \/ Call(c)
             \/ GetHairCut(c) \/ LeaveChair(c) \/ Leave(c) \/ CountOut(c)
    <3>1. InChair' = InChair
      BY <2>3, InChairSame DEF Enter, LookAgain, LookAtBarber, Wake, Call, GetHairCut,
                               LeaveChair, Leave, CountOut
    <3>2. UNCHANGED <<sem_s, sem_c, bpc>>
      BY <2>3 DEF Enter, LookAgain, LookAtBarber, Wake, Call, GetHairCut, LeaveChair,
                  Leave, CountOut
    <3> QED
      BY <3>1, <3>2
  <2> QED
    BY <1>3, <2>1, <2>2, <2>3 DEF Customer
<1>4. CASE BarberStep
  <2>1. InChair' = InChair
    BY <1>4 DEF BarberStep, TakeChair, LookForCustomer, Doze, Woken, GiveChair, SetTime,
                CallCustomer, CutHair, InChair
  <2>2. CASE TakeChair
    BY <2>1, <2>2, InChairFinite DEF TakeChair, ChairFree, TypeOK
  <2>3. CASE GiveChair
    BY <2>1, <2>3, InChairFinite DEF GiveChair, GivenBack, TypeOK
  <2>4. CASE CallCustomer
    BY <2>1, <2>4, InChairFinite DEF CallCustomer, TypeOK
  <2>5. CASE LookForCustomer \/ Doze \/ Woken \/ SetTime \/ CutHair
    BY <2>1, <2>5 DEF LookForCustomer, Doze, Woken, SetTime, CutHair
  <2> QED
    BY <1>4, <2>2, <2>3, <2>4, <2>5 DEF BarberStep
<1> QED
  BY <1>1, <1>2, <1>3, <1>4 DEF Next, CountLoad, CountStore, Over, vars

(* The barber raises his flag before he waits, and a customer that lowers it *)
(* posts next.                                                               *)
LEMMA SleepPreserved ==
    ASSUME TypeOK, SleepSeen, [Next]_vars
    PROVE  SleepSeen'
<1> USE DEF SleepSeen, shop, sems, Goto
<1>1. ASSUME UNCHANGED <<sleeping, sems, pc, bpc>> PROVE SleepSeen'
  BY <1>1
<1>2. ASSUME NEW c \in Customers, Create(c) PROVE SleepSeen'
  BY <1>2 DEF Create, TypeOK
<1>3. ASSUME NEW c \in Customers, Customer(c) PROVE SleepSeen'
  <2>1. CASE Wake(c)
    BY <2>1 DEF Wake, TypeOK
  <2>2. CASE Call(c)
    BY <2>2 DEF Call, Called, TypeOK
  <2>3. CASE \/ Enter(c) \/ LookAgain(c) \/ LookAtBarber(c) \/ Wait(c) \/ Rise(c)
             \/ GetHairCut(c) \/ LeaveChair(c) \/ Leave(c) \/ CountOut(c)
    <3>1. UNCHANGED <<sleeping, sem_b, bpc>>
      BY <2>3 DEF Enter, LookAgain, LookAtBarber, Wait, Rise, GetHairCut, LeaveChair,
                  Leave, CountOut
    <3>2. \A d \in Customers : pc[d] = "call" => pc'[d] = "call"
      BY <2>3 DEF Enter, LookAgain, LookAtBarber, Wait, Rise, GetHairCut, LeaveChair,
                  Leave, CountOut, TypeOK
    <3> QED
      BY <3>1, <3>2
  <2> QED
    BY <1>3, <2>1, <2>2, <2>3 DEF Customer
<1>4. CASE BarberStep
  BY <1>4 DEF BarberStep, TakeChair, LookForCustomer, Doze, Woken, GiveChair, SetTime,
              CallCustomer, CutHair
<1> QED
  BY <1>1, <1>2, <1>3, <1>4 DEF Next, CountLoad, CountStore, Over, vars

-----------------------------------------------------------------------------
(* The invariant holds of every behaviour. *)
THEOREM BarberInvariance == Spec => []IInv
<1>1. IInv /\ [Next]_vars => IInv'
  BY TypePreserved, ChairPreserved, SleepPreserved DEF IInv
<1> QED
  BY InitEstablishes, <1>1, PTL DEF Spec

(* Every variable keeps its type: no semaphore is lowered below zero. *)
THEOREM BarberTypeCorrect == Spec => []TypeOK
<1>1. IInv => TypeOK
  BY DEF IInv
<1> QED
  BY BarberInvariance, <1>1, PTL

(* Never two customers in the chair, however many there are and however far  *)
(* off the count of them is.                                                 *)
THEOREM AlwaysOneChair == Spec => []OneChair
<1>1. IInv => OneChair
  BY DEF IInv
<1> QED
  BY BarberInvariance, <1>1, PTL

(* The barber is not left asleep with his flag down and nobody on the way.   *)
THEOREM AlwaysSleepSeen == Spec => []SleepSeen
<1>1. IInv => SleepSeen
  BY DEF IInv
<1> QED
  BY BarberInvariance, <1>1, PTL

(* The length of a haircut is changed only while the barber has the chair,   *)
(* when nobody sits in it and nobody is called to it.                        *)
THEOREM AlwaysSameDuration == Spec => SameDuration
<1>1. IInv /\ [Next]_vars => [cut_time' # cut_time => InChair = {} /\ sem_c = 0]_vars
  <2> SUFFICES ASSUME IInv, Next, cut_time' # cut_time
               PROVE  InChair = {} /\ sem_c = 0
    OBVIOUS
  <2>1. bpc = "time"
    BY DEF Next, CountLoad, CountStore, Create, Customer, Enter, LookAgain, LookAtBarber,
           Wake, Call, Wait, GetHairCut, LeaveChair, Rise, Leave, CountOut, BarberStep,
           TakeChair, LookForCustomer, Doze, Woken, GiveChair, SetTime, CallCustomer,
           CutHair, Over, vars, shop
  <2>2. sem_c = 0 /\ Cardinality(InChair) = 0
    BY <2>1, InChairFinite DEF IInv, TypeOK, OneChair
  <2> QED
    BY <2>2, InChairFinite, FS_EmptySet
<1> QED
  BY BarberInvariance, <1>1, PTL DEF Spec, SameDuration
=============================================================================
