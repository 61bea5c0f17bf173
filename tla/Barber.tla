------------------------------- MODULE Barber -------------------------------
(* The first barbershop, con4/barber.c: a barber thread, a thread that makes *)
(* a customer thread every few seconds, three semaphores, and a count of     *)
(* customers, a sleeping flag and a haircut time shared without a lock.      *)
(* customers++ and customers-- are a load and a store.                       *)
EXTENDS Integers, FiniteSets

CONSTANTS Customers,  \* names of customer threads, used again after an exit
          Seats,      \* seats
          Times,      \* the lengths a haircut may have
          Arrivals    \* bound: customers that come before the day is over

ASSUME CustomersAssumption == IsFiniteSet(Customers)
ASSUME SeatsAssumption == Seats \in Nat
ASSUME TimesAssumption == Times # {}
ASSUME ArrivalsAssumption == Arrivals \in Nat

VARIABLES customers, sleeping, cut_time,
          sem_s, sem_c, sem_b,
          creator,   \* where customer_create is, and what it has loaded
          pc, seen,  \* where each customer is, and what it has loaded
          bpc,       \* where the barber is
          came       \* customers that have come

sems == <<sem_s, sem_c, sem_b>>
shop == <<customers, sleeping, cut_time>>
vars == <<shop, sems, creator, pc, seen, bpc, came>>

Init ==
    /\ customers = 0 /\ sleeping = 1 /\ cut_time = 0
    /\ sem_s = 1 /\ sem_c = 0 /\ sem_b = 0
    /\ creator = [at |-> "load", seen |-> 0]
    /\ pc = [c \in Customers |-> "none"] /\ seen = [c \in Customers |-> 0]
    /\ bpc = "seat"
    /\ came = 0

Goto(c, l) == pc' = [pc EXCEPT ![c] = l]

-----------------------------------------------------------------------------
(* customer_create *)

CountLoad ==
    /\ creator.at = "load" /\ came < Arrivals
    /\ came' = came + 1
    /\ creator' = [at |-> "store", seen |-> customers]
    /\ UNCHANGED <<shop, sems, pc, seen, bpc>>

CountStore ==
    /\ creator.at = "store"
    /\ customers' = creator.seen + 1
    /\ creator' = [creator EXCEPT !.at = "create"]
    /\ UNCHANGED <<sleeping, cut_time, sems, pc, seen, bpc, came>>

Create(c) ==
    /\ creator.at = "create" /\ pc[c] = "none"
    /\ creator' = [creator EXCEPT !.at = "load"]
    /\ Goto(c, "enter")
    /\ UNCHANGED <<shop, sems, seen, bpc, came>>

-----------------------------------------------------------------------------
(* customer: the count is looked at again before the customer gives up, and  *)
(* one that finds a seat the second time leaves without being counted out.   *)

Enter(c) ==
    /\ pc[c] = "enter"
    /\ Goto(c, IF customers <= Seats THEN "look" ELSE "full")
    /\ UNCHANGED <<shop, sems, creator, seen, bpc, came>>

LookAgain(c) ==
    /\ pc[c] = "full"
    /\ Goto(c, IF customers > Seats THEN "leave" ELSE "none")
    /\ UNCHANGED <<shop, sems, creator, seen, bpc, came>>

LookAtBarber(c) ==
    /\ pc[c] = "look"
    /\ Goto(c, IF sleeping = 1 THEN "wake" ELSE "wait")
    /\ UNCHANGED <<shop, sems, creator, seen, bpc, came>>

Wake(c) ==
    /\ pc[c] = "wake"
    /\ sleeping' = 0
    /\ Goto(c, "call")
    /\ UNCHANGED <<customers, cut_time, sems, creator, seen, bpc, came>>

(* Fault: the flag is lowered and nobody is called. *)
Called_Not == sem_b
Called == sem_b + 1

Call(c) ==
    /\ pc[c] = "call"
    /\ sem_b' = Called
    /\ Goto(c, "wait")
    /\ UNCHANGED <<shop, sem_s, sem_c, creator, seen, bpc, came>>

Wait(c) ==
    /\ pc[c] = "wait" /\ sem_c > 0
    /\ sem_c' = sem_c - 1
    /\ Goto(c, "chair")
    /\ UNCHANGED <<shop, sem_s, sem_b, creator, seen, bpc, came>>

(* get_hair_cut: sleep(cut_time), and the count goes down. *)
GetHairCut(c) ==
    /\ pc[c] = "chair"
    /\ seen' = [seen EXCEPT ![c] = customers]
    /\ Goto(c, "cut")
    /\ UNCHANGED <<shop, sems, creator, bpc, came>>

LeaveChair(c) ==
    /\ pc[c] = "cut"
    /\ customers' = seen[c] - 1
    /\ Goto(c, "rise")
    /\ UNCHANGED <<sleeping, cut_time, sems, creator, seen, bpc, came>>

Rise(c) ==
    /\ pc[c] = "rise"
    /\ sem_s' = sem_s + 1
    /\ Goto(c, "none")
    /\ UNCHANGED <<shop, sem_c, sem_b, creator, seen, bpc, came>>

Leave(c) ==
    /\ pc[c] = "leave"
    /\ seen' = [seen EXCEPT ![c] = customers]
    /\ Goto(c, "left")
    /\ UNCHANGED <<shop, sems, creator, bpc, came>>

CountOut(c) ==
    /\ pc[c] = "left"
    /\ customers' = seen[c] - 1
    /\ Goto(c, "none")
    /\ UNCHANGED <<sleeping, cut_time, sems, creator, seen, bpc, came>>

-----------------------------------------------------------------------------
(* barber *)

(* Fault: the barber does not wait for the chair. *)
ChairFree_Ignored == TRUE
ChairFree == sem_s > 0

TakeChair ==
    /\ bpc = "seat" /\ ChairFree
    /\ sem_s' = sem_s - 1
    /\ bpc' = "look"
    /\ UNCHANGED <<shop, sem_c, sem_b, creator, pc, seen, came>>

LookForCustomer ==
    /\ bpc = "look"
    /\ bpc' = IF customers = 0 THEN "doze" ELSE "time"
    /\ UNCHANGED <<shop, sems, creator, pc, seen, came>>

Doze ==
    /\ bpc = "doze"
    /\ sleeping' = 1
    /\ bpc' = "asleep"
    /\ UNCHANGED <<customers, cut_time, sems, creator, pc, seen, came>>

Woken ==
    /\ bpc = "asleep" /\ sem_b > 0
    /\ sem_b' = sem_b - 1
    /\ bpc' = "woken"
    /\ UNCHANGED <<shop, sem_s, sem_c, creator, pc, seen, came>>

(* Fault: the chair is not given back to nobody. *)
GivenBack_Kept == sem_s
GivenBack == sem_s + 1

GiveChair ==
    /\ bpc = "woken"
    /\ sem_s' = GivenBack
    /\ bpc' = "seat"
    /\ UNCHANGED <<shop, sem_c, sem_b, creator, pc, seen, came>>

SetTime ==
    /\ bpc = "time"
    /\ cut_time' \in Times
    /\ bpc' = "next"
    /\ UNCHANGED <<customers, sleeping, sems, creator, pc, seen, came>>

CallCustomer ==
    /\ bpc = "next"
    /\ sem_c' = sem_c + 1
    /\ bpc' = "cutting"
    /\ UNCHANGED <<shop, sem_s, sem_b, creator, pc, seen, came>>

CutHair ==
    /\ bpc = "cutting"
    /\ bpc' = "seat"
    /\ UNCHANGED <<shop, sems, creator, pc, seen, came>>

-----------------------------------------------------------------------------
Customer(c) == \/ Enter(c) \/ LookAgain(c) \/ LookAtBarber(c) \/ Wake(c) \/ Call(c)
               \/ Wait(c) \/ GetHairCut(c) \/ LeaveChair(c) \/ Rise(c)
               \/ Leave(c) \/ CountOut(c)

BarberStep == \/ TakeChair \/ LookForCustomer \/ Doze \/ Woken \/ GiveChair
              \/ SetTime \/ CallCustomer \/ CutHair

(* Nobody comes any more. *)
Over == came = Arrivals /\ creator.at = "load" /\ UNCHANGED vars

Next == \/ CountLoad \/ CountStore
        \/ \E c \in Customers : Create(c) \/ Customer(c)
        \/ BarberStep \/ Over

Spec == Init /\ [][Next]_vars

-----------------------------------------------------------------------------
CustomerLabels == {"none", "enter", "full", "look", "wake", "call", "wait", "chair",
                   "cut", "rise", "leave", "left"}
BarberLabels == {"seat", "look", "doze", "asleep", "woken", "time", "next", "cutting"}

TypeOK ==
    /\ customers \in Int /\ sleeping \in {0, 1} /\ cut_time \in Times \cup {0}
    /\ sem_s \in Nat /\ sem_c \in Nat /\ sem_b \in Nat
    /\ creator \in [at : {"load", "store", "create"}, seen : Int]
    /\ pc \in [Customers -> CustomerLabels] /\ seen \in [Customers -> Int]
    /\ bpc \in BarberLabels
    /\ came \in 0 .. Arrivals

InChair == {c \in Customers : pc[c] \in {"chair", "cut", "rise"}}

(* sem_s, the barber, a call of sem_c and the customer in the chair pass one *)
(* chair among them: however wrong the count of customers becomes, there is  *)
(* never more than one customer in it, and never a call left for a second.   *)
OneChair ==
    sem_s + sem_c + Cardinality(InChair)
        + (IF bpc \in {"look", "doze", "asleep", "woken", "time", "next"} THEN 1 ELSE 0) = 1

(* con4/README.md, cut_hair and get_hair_cut last the same: the time that a  *)
(* customer in the chair has still to sleep for is not overwritten by the    *)
(* next haircut's.                                                           *)
SameDuration == [][cut_time' # cut_time => InChair = {} /\ sem_c = 0]_vars

(* The barber is not asleep without knowing: while he waits to be woken his  *)
(* flag is up or a customer is on the way to wake him.                       *)
SleepSeen ==
    bpc = "asleep" =>
        \/ sleeping = 1 \/ sem_b > 0
        \/ \E c \in Customers : pc[c] = "call"
=============================================================================
