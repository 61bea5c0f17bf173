----------------------------- MODULE BarberShop -----------------------------
(* The barbershop of con4/c4/c4.c: a barber thread and any number of         *)
(* customer threads, the mutex wait_seats around the count of free chairs    *)
(* and two semaphores, customerSem to call the barber and barberSem to call  *)
(* a customer to the barber's chair.  One action per semaphore or mutex call *)
(* and per access to the count.                                              *)
EXTENDS Integers, FiniteSets

CONSTANTS Customers,  \* the customer threads
          Seats,      \* NUM_OF_SEATS
          Barber, Nobody

ASSUME CustomersAssumption == IsFiniteSet(Customers)
ASSUME SeatsAssumption == Seats \in Nat \ {0}
ASSUME OthersAssumption ==
    Barber \notin Customers /\ Nobody \notin Customers /\ Barber # Nobody

VARIABLES available_wait_seats, barberSem, customerSem,
          wait_seats,   \* the thread that holds the mutex
          pc, bpc       \* where the customers and the barber are

sems == <<barberSem, customerSem>>
vars == <<available_wait_seats, sems, wait_seats, pc, bpc>>

Init ==
    /\ available_wait_seats = Seats
    /\ barberSem = 0 /\ customerSem = 0
    /\ wait_seats = Nobody
    /\ pc = [c \in Customers |-> "outside"] /\ bpc = "look"

Goto(c, l) == pc' = [pc EXCEPT ![c] = l]

(* Fault: threads walk in on each other. *)
MutexFree_Ignored == TRUE
MutexFree == wait_seats = Nobody

-----------------------------------------------------------------------------
(* get_hair_cut, the customer's loop. *)

Enter(c) ==
    /\ pc[c] = "outside" /\ MutexFree
    /\ wait_seats' = c
    /\ Goto(c, "door")
    /\ UNCHANGED <<available_wait_seats, sems, bpc>>

FindSeat(c) ==
    /\ pc[c] = "door" /\ available_wait_seats > 0
    /\ Goto(c, "found")
    /\ UNCHANGED <<available_wait_seats, sems, wait_seats, bpc>>

TakeSeat(c) ==
    /\ pc[c] = "found"
    /\ available_wait_seats' = available_wait_seats - 1
    /\ Goto(c, "seated")
    /\ UNCHANGED <<sems, wait_seats, bpc>>

CallBarber(c) ==
    /\ pc[c] = "seated"
    /\ customerSem' = customerSem + 1
    /\ Goto(c, "called")
    /\ UNCHANGED <<available_wait_seats, barberSem, wait_seats, bpc>>

Wait(c) ==
    /\ pc[c] = "called"
    /\ wait_seats' = Nobody
    /\ Goto(c, "waiting")
    /\ UNCHANGED <<available_wait_seats, sems, bpc>>

GetHairCut(c) ==
    /\ pc[c] = "waiting" /\ barberSem > 0
    /\ barberSem' = barberSem - 1
    /\ Goto(c, "chair")
    /\ UNCHANGED <<available_wait_seats, customerSem, wait_seats, bpc>>

Leave(c) ==
    /\ pc[c] = "chair"
    /\ Goto(c, "outside")
    /\ UNCHANGED <<available_wait_seats, sems, wait_seats, bpc>>

TurnAway(c) ==
    /\ pc[c] = "door" /\ available_wait_seats <= 0
    /\ wait_seats' = Nobody
    /\ Goto(c, "outside")
    /\ UNCHANGED <<available_wait_seats, sems, bpc>>

-----------------------------------------------------------------------------
(* cut_hair, the barber's loop. *)

(* The count is read without the mutex. *)
LookIn ==
    /\ bpc = "look"
    /\ bpc' = IF available_wait_seats <= Seats THEN "ready" ELSE "look"
    /\ UNCHANGED <<available_wait_seats, sems, wait_seats, pc>>

TakeCustomer ==
    /\ bpc = "ready" /\ customerSem > 0
    /\ customerSem' = customerSem - 1
    /\ bpc' = "fetch"
    /\ UNCHANGED <<available_wait_seats, barberSem, wait_seats, pc>>

BarberLock ==
    /\ bpc = "fetch" /\ MutexFree
    /\ wait_seats' = Barber
    /\ bpc' = "locked"
    /\ UNCHANGED <<available_wait_seats, sems, pc>>

(* Fault: the chair is never given back. *)
SeatsAfter_Kept == available_wait_seats
SeatsAfter == available_wait_seats + 1

FreeSeat ==
    /\ bpc = "locked"
    /\ available_wait_seats' = SeatsAfter
    /\ bpc' = "freed"
    /\ UNCHANGED <<sems, wait_seats, pc>>

(* Fault: the customer in turn is not called. *)
Called_Nobody == 0
Called == 1

CallCustomer ==
    /\ bpc = "freed"
    /\ barberSem' = barberSem + Called
    /\ bpc' = "posted"
    /\ UNCHANGED <<available_wait_seats, customerSem, wait_seats, pc>>

BarberUnlock ==
    /\ bpc = "posted"
    /\ wait_seats' = Nobody
    /\ bpc' = "cutting"
    /\ UNCHANGED <<available_wait_seats, sems, pc>>

CutHair ==
    /\ bpc = "cutting"
    /\ bpc' = "look"
    /\ UNCHANGED <<available_wait_seats, sems, wait_seats, pc>>

-----------------------------------------------------------------------------
Customer(c) == \/ Enter(c) \/ FindSeat(c) \/ TakeSeat(c) \/ CallBarber(c)
               \/ Wait(c) \/ GetHairCut(c) \/ Leave(c) \/ TurnAway(c)

BarberStep == \/ LookIn \/ TakeCustomer \/ BarberLock \/ FreeSeat
              \/ CallCustomer \/ BarberUnlock \/ CutHair

Next == BarberStep \/ \E c \in Customers : Customer(c)

(* Threads run on.  The mutex, won by customers again and again, is won by   *)
(* the barber too: whoever gives it up sleeps before coming back.            *)
Fairness == /\ SF_vars(BarberStep)
            /\ \A c \in Customers : WF_vars(Customer(c))

Spec == Init /\ [][Next]_vars /\ Fairness

-----------------------------------------------------------------------------
CustomerLabels == {"outside", "door", "found", "seated", "called", "waiting", "chair"}
BarberLabels == {"look", "ready", "fetch", "locked", "freed", "posted", "cutting"}

TypeOK ==
    /\ available_wait_seats \in 0 .. Seats
    /\ barberSem \in Nat /\ customerSem \in Nat
    /\ wait_seats \in Customers \cup {Barber, Nobody}
    /\ pc \in [Customers -> CustomerLabels]
    /\ bpc \in BarberLabels

In(labels) == {c \in Customers : pc[c] \in labels}
BarberIn(labels) == IF bpc \in labels THEN 1 ELSE 0

(* Every taken chair stands for one customer the barber has still to fetch:  *)
(* no interleaving of the threads leaks a chair or gives one away twice.     *)
SeatsExact ==
    Seats - available_wait_seats =
        customerSem + Cardinality(In({"seated"})) + BarberIn({"fetch", "locked"})

(* Every customer who sat down and waits will be called exactly once: the    *)
(* haircuts called, asked for or being prepared are as many as the waiting.  *)
HaircutsExact ==
    Cardinality(In({"called", "waiting"})) =
        barberSem + customerSem + BarberIn({"fetch", "locked", "freed"})

(* A customer is turned away only when as many others wait as there are      *)
(* chairs.                                                                   *)
TurnedAwayOnlyWhenFull ==
    [][\A c \in Customers : TurnAway(c) =>
         Cardinality(In({"seated", "called", "waiting"})) >= Seats]_vars

(* While somebody waits, somebody gets to the barber's chair: the calls of   *)
(* barber and customers never miss each other.                               *)
WaitingIsServed ==
    (In({"waiting"}) # {}) ~> (In({"chair"}) # {})
=============================================================================
