------------------------------- MODULE Clook -------------------------------
(* The C-LOOK I/O scheduler of hw2/look-iosched.c, run by any number of      *)
(* block devices.  Each device has its queue, under the device's queue_lock; *)
(* currSector, the sector last dispatched, is one variable for all of them.  *)
(* look_add_request is modelled one loop iteration at a time, since another  *)
(* device may move currSector in between.  The block layer (submitting,      *)
(* merging, asking for the next request) is external.                        *)
EXTENDS Integers, SequencesExt

CONSTANTS Devices,    \* request queues that use the scheduler
          Requests,   \* struct requests the block layer allocates from
          Sectors,    \* a device has sectors 0 .. Sectors - 1
          NoRequest

ASSUME SectorsAssumption == Sectors \in Nat \ {0}
ASSUME RequestsAssumption == IsFiniteSet(Requests) /\ NoRequest \notin Requests

VARIABLES queue,      \* nd->queue of each device
          pos, len,   \* blk_rq_pos, blk_rq_sectors of each request
          currSector,
          adding, at, \* the request look_add_request places, its cursor
          owed        \* times a sector was asked for and not dispatched (ghost)

vars == <<queue, pos, len, currSector, adding, at, owed>>

(* currSector starts at (sector_t)-1, above every sector. *)
NoSector == Sectors

Queued(d) == ToSet(queue[d])
Idle == {r \in Requests : \A d \in Devices : r \notin Queued(d) /\ r # adding[d]}
Covers(r, s) == s \in pos[r] .. pos[r] + len[r] - 1

Init ==
    /\ queue = [d \in Devices |-> <<>>]
    /\ pos = [r \in Requests |-> 0] /\ len = [r \in Requests |-> 0]
    /\ currSector = NoSector
    /\ adding = [d \in Devices |-> NoRequest] /\ at = [d \in Devices |-> 0]
    /\ owed = [d \in Devices |-> [s \in 0 .. Sectors - 1 |-> 0]]

(* The block layer takes queue_lock and calls look_add_request. *)
AddRequest(d, r, s) ==
    /\ adding[d] = NoRequest
    /\ r \in Idle
    /\ pos' = [pos EXCEPT ![r] = s] /\ len' = [len EXCEPT ![r] = 1]
    /\ adding' = [adding EXCEPT ![d] = r] /\ at' = [at EXCEPT ![d] = 1]
    /\ owed' = [owed EXCEPT ![d][s] = @ + 1]
    /\ UNCHANGED <<queue, currSector>>

(* The walk stops at a queued request at sector c to put sector s before it. *)
(* Fault: a request behind the head passes those ahead of it.                *)
StopsBefore_AnyLower(s, c) == IF s < currSector THEN s > c \/ c > currSector
                                                ELSE s > c
(* Fault: a request ahead of the head is kept behind those of the next sweep. *)
StopsBefore_OneSweep(s, c) == IF s < currSector THEN s > c
                                                ELSE c > currSector /\ s > c
StopsBefore(s, c) == IF s < currSector THEN s > c \/ c > currSector
                                       ELSE c > currSector /\ s > c

Stopped(d) ==
    at[d] <= Len(queue[d]) => StopsBefore(pos[adding[d]], pos[queue[d][at[d]]])

WalkOn(d) ==
    /\ adding[d] # NoRequest /\ ~ Stopped(d)
    /\ at' = [at EXCEPT ![d] = @ + 1]
    /\ UNCHANGED <<queue, pos, len, currSector, adding, owed>>

Insert(d) ==
    /\ adding[d] # NoRequest /\ Stopped(d)
    /\ queue' = [queue EXCEPT ![d] = InsertAt(@, at[d], adding[d])]
    /\ adding' = [adding EXCEPT ![d] = NoRequest] /\ at' = [at EXCEPT ![d] = 0]
    /\ UNCHANGED <<pos, len, currSector, owed>>

(* The driver asks for a request; what it gets is off its hands and ours. *)
(* Fault: the request handed over stays in the queue.                     *)
Popped_Kept(q) == q
Popped(q) == Tail(q)

Dispatch(d) ==
    /\ adding[d] = NoRequest
    /\ queue[d] # <<>>
    /\ LET r == Head(queue[d])
       IN /\ queue' = [queue EXCEPT ![d] = Popped(@)]
          /\ currSector' = pos[r]
          /\ owed' = [owed EXCEPT ![d] = [s \in DOMAIN @ |->
                        IF Covers(r, s) THEN @[s] - 1 ELSE @[s]]]
          /\ pos' = [pos EXCEPT ![r] = 0] /\ len' = [len EXCEPT ![r] = 0]
    /\ UNCHANGED <<adding, at>>

(* The block layer joined next, which begins where rq ends, to rq: the       *)
(* scheduler drops one of them.  Fault: it drops the one that goes on.       *)
Dropped_Other(rq, next) == rq
Dropped(rq, next) == next

MergedRequests(d, rq, next) ==
    /\ adding[d] = NoRequest
    /\ pos[rq] + len[rq] = pos[next]
    /\ \E i \in DOMAIN queue[d] :
         /\ queue[d][i] = Dropped(rq, next)
         /\ queue' = [queue EXCEPT ![d] = RemoveAt(@, i)]
    /\ len' = [len EXCEPT ![rq] = @ + len[next], ![next] = 0]
    /\ pos' = [pos EXCEPT ![next] = 0]
    /\ UNCHANGED <<currSector, adding, at, owed>>

Next == \E d \in Devices :
    \/ \E r \in Requests, s \in 0 .. Sectors - 1 : AddRequest(d, r, s)
    \/ WalkOn(d) \/ Insert(d)
    \/ Dispatch(d)
    \/ \E rq, next \in Queued(d) : MergedRequests(d, rq, next)

(* A walk under queue_lock runs to its end, and a driver with requests       *)
(* waiting keeps asking for them however many more are added: SF, for adding *)
(* a request holds queue_lock for a moment only.                             *)
Fairness == \A d \in Devices :
    WF_vars(WalkOn(d) \/ Insert(d)) /\ SF_vars(Dispatch(d))

Spec == Init /\ [][Next]_vars /\ Fairness

-----------------------------------------------------------------------------
TypeOK ==
    /\ queue \in [Devices -> Seq(Requests)]
    /\ pos \in [Requests -> 0 .. Sectors - 1]
    /\ len \in [Requests -> 0 .. Sectors]
    /\ currSector \in 0 .. Sectors
    /\ adding \in [Devices -> Requests \cup {NoRequest}]
    /\ at \in [Devices -> 0 .. Cardinality(Requests) + 1]
    /\ owed \in [Devices -> [0 .. Sectors - 1 -> Nat]]
    /\ \A d \in Devices :
         /\ IsInjective(queue[d])
         /\ \A r \in Queued(d) : len[r] > 0

(* However requests are added, merged and dispatched, every sector the block *)
(* layer asked for is waiting exactly as often as it was asked for: merging  *)
(* and inserting in the middle of the list lose and repeat nothing.          *)
NothingLost ==
    \A d \in Devices : \A s \in 0 .. Sectors - 1 :
        owed[d][s] = Cardinality({r \in Queued(d) \cup ({adding[d]} \ {NoRequest}) :
                                    Covers(r, s)})

(* The queue is one C-LOOK sweep: down from currSector, then down from the   *)
(* other end.                                                                *)
Falls(q) == \A i, j \in DOMAIN q : i < j => pos[q[i]] >= pos[q[j]]
Swept(d) == \E k \in 0 .. Len(queue[d]) :
    LET below == SubSeq(queue[d], 1, k)
        above == SubSeq(queue[d], k + 1, Len(queue[d]))
    IN /\ Falls(below) /\ \A r \in ToSet(below) : pos[r] <= currSector
       /\ Falls(above) /\ \A r \in ToSet(above) : pos[r] >= currSector

(* A lone device's queue stays one sweep through every insertion, dispatch   *)
(* and merge, unless a request waits at currSector itself.                   *)
SweepKept ==
    [][\A d \in Devices :
         Swept(d) /\ (\A r \in Queued(d) : pos[r] # currSector) => Swept(d)']_vars

(* "...until it reaches all the element in the queue": every request is      *)
(* dispatched, or merged into one that is, though others keep coming in      *)
(* ahead of it.                                                              *)
EveryRequestServed ==
    \A d \in Devices : \A r \in Requests : (r \in Queued(d)) ~> (r \notin Queued(d))
=============================================================================
