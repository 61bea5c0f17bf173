-------------------------------- MODULE Osurd --------------------------------
(* One device of the encrypted RAM disk of hw3/osurd.c: opening and closing, *)
(* the timer that takes the medium away after a while without users, and the *)
(* three ways of serving I/O.  Threads open, use and close the device; the   *)
(* timer handler and the request function run beside them.  An action is a   *)
(* stretch between two points where somebody else can get in: bd_mutex,      *)
(* dev->lock (also the queue's lock), or an access made without dev->lock.   *)
(* The kernel around the driver (bd_mutex, the timer, the queue) is external.*)
EXTENDS Integers, Sequences, FiniteSets, Functions

CONSTANTS Threads,   \* openers; fewer than a short can count
          Nobody, Driver, \* no holder of a lock, the request function
          Sectors,   \* the capacity, in the chunks a transfer moves at once
          Extents,   \* the requests considered: the first chunk of each and
                     \* the lengths of its segments
          Modes,     \* the request_mode parameters considered
          Kinds,     \* cmd_type of the requests made: "fs" or "other"
          Blank,     \* what memset leaves in a sector
          Gibberish, \* what it decrypts to
          Stray      \* what lies in memory behind a segment

ASSUME ThreadsAssumption ==
    /\ IsFiniteSet(Threads)
    /\ {Nobody, Driver, Gibberish, Stray} \cap Threads = {}
    /\ Nobody # Driver
ASSUME SectorsAssumption == Sectors \in Nat \ {0}
ASSUME ExtentsAssumption == Extents \subseteq Nat \X (Seq(Nat \ {0}) \ {<<>>})
ASSUME BlankAssumption == \A v \in Threads \cup {Stray} : Blank # <<v>>
ASSUME ModesAssumption == Modes \subseteq {"RM_SIMPLE", "RM_FULL", "RM_NOQUEUE"}

VARIABLES request_mode,
          users, media_change, data,
          lock,         \* the holder of dev->lock
          timer,        \* dev->timer is armed
          handler,      \* osurd_invalidate was called and has not returned
          bd_mutex,     \* the block layer's, around open and release
          pc,           \* where each thread is
          io,           \* the request or bio each thread waits for
          queue, req,   \* requests not fetched, osurd_request's local
          content,      \* what each sector should read as (ghost)
          mislaid       \* sectors that unequal segments got wrong (ghost)

ghosts == <<content, mislaid>>
media == <<users, media_change, data, ghosts>>
timers == <<timer, handler>>
requests == <<io, queue, req>>
vars == <<request_mode, media, lock, timers, bd_mutex, pc, requests>>

Chunks == 0 .. Sectors - 1
NoIO == [write |-> FALSE, kind |-> "none", first |-> 0, segs |-> <<>>,
         seg |-> 0, sector |-> 0, place |-> 0, moved |-> 0, wiped |-> FALSE]

(* A thread writes its own name; encryption is undone by decryption only.    *)
Encrypt(v) == <<v>>
Decrypt(c) == IF c = Blank THEN Gibberish ELSE c[1]

Init ==
    /\ request_mode \in Modes
    /\ users = 0 /\ media_change = FALSE
    /\ data = [s \in Chunks |-> Blank] /\ content = [s \in Chunks |-> Gibberish]
    /\ mislaid = {}
    /\ lock = Nobody /\ timer = FALSE /\ handler = FALSE /\ bd_mutex = Nobody
    /\ pc = [t \in Threads |-> "closed"]
    /\ io = [t \in Threads |-> NoIO] /\ queue = {} /\ req = Nobody

Goto(t, l) == pc' = [pc EXCEPT ![t] = l]
Locked(who) == lock = Nobody /\ lock' = who
Unlocked == lock' = Nobody

-----------------------------------------------------------------------------
(* osurd_open, called with bd_mutex held. *)

Open(t) ==
    /\ pc[t] = "closed" /\ bd_mutex = Nobody
    /\ bd_mutex' = t
    /\ Goto(t, "opening")
    /\ UNCHANGED <<request_mode, media, lock, timers, requests>>

(* del_timer_sync waits for a handler under way. *)
(* Fault: it does not.                            *)
TimerQuiet_Unawaited == TRUE
TimerQuiet == ~ handler

DelTimer(t) ==
    /\ pc[t] = "opening" /\ TimerQuiet
    /\ timer' = FALSE
    /\ Goto(t, "stopped")
    /\ UNCHANGED <<request_mode, media, lock, handler, bd_mutex, requests>>

(* The first user looks for a media change. *)
OpenLock(t) ==
    /\ pc[t] = "stopped" /\ Locked(t)
    /\ Goto(t, IF users = 0 /\ media_change THEN "revalidate" ELSE "count")
    /\ UNCHANGED <<request_mode, media, timers, bd_mutex, requests>>

(* osurd_revalidate, which takes no lock of its own. *)
Revalidate(t) ==
    /\ pc[t] = "revalidate"
    /\ media_change' = FALSE
    /\ Goto(t, IF media_change THEN "erase" ELSE "count")
    /\ UNCHANGED <<request_mode, users, data, ghosts, lock, timers, bd_mutex, requests>>

(* Fault: the old medium's data stays. *)
Erased_Not == data
Erased == [s \in Chunks |-> Blank]

Erase(t) ==
    /\ pc[t] = "erase"
    /\ data' = Erased
    /\ Goto(t, "count")
    /\ UNCHANGED <<request_mode, users, media_change, ghosts, lock, timers, bd_mutex, requests>>

(* Fault: users++ is forgotten. *)
OneMore_Not == users
OneMore == users + 1

Count(t) ==
    /\ pc[t] = "count" /\ lock = t
    /\ users' = OneMore
    /\ Unlocked
    /\ bd_mutex' = Nobody
    /\ Goto(t, "open")
    /\ UNCHANGED <<request_mode, media_change, data, ghosts, timers, requests>>

(* BLKRRPART: the block layer has the device revalidated while it is open. *)
Rescan(t) ==
    /\ pc[t] = "open" /\ io[t] = NoIO /\ bd_mutex = Nobody
    /\ bd_mutex' = t
    /\ Goto(t, "revalidate")
    /\ UNCHANGED <<request_mode, media, lock, timers, requests>>

RescanDone(t) ==
    /\ pc[t] = "count" /\ lock # t
    /\ bd_mutex' = Nobody
    /\ Goto(t, "open")
    /\ UNCHANGED <<request_mode, media, lock, timers, requests>>

(* osurd_release *)
Close(t) ==
    /\ pc[t] = "open" /\ io[t] = NoIO /\ bd_mutex = Nobody
    /\ bd_mutex' = t
    /\ Goto(t, "closing")
    /\ UNCHANGED <<request_mode, media, lock, timers, requests>>

Release(t) ==
    /\ pc[t] = "closing" /\ lock = Nobody
    /\ users' = users - 1
    /\ timer' = (timer \/ users' = 0)
    /\ bd_mutex' = Nobody
    /\ Goto(t, "closed")
    /\ UNCHANGED <<request_mode, media_change, data, ghosts, lock, handler, requests>>

-----------------------------------------------------------------------------
(* The timer: INVALIDATE_DELAY after the last release, osurd_invalidate. *)

Fire ==
    /\ timer
    /\ timer' = FALSE /\ handler' = TRUE
    /\ UNCHANGED <<request_mode, media, lock, bd_mutex, pc, requests>>

Invalidate ==
    /\ handler /\ lock = Nobody
    /\ IF users # 0 THEN UNCHANGED <<media_change, ghosts>>
       ELSE /\ media_change' = TRUE
            /\ content' = [s \in Chunks |-> Gibberish] /\ mislaid' = {}
    /\ handler' = FALSE
    /\ UNCHANGED <<request_mode, users, data, lock, timer, bd_mutex, pc, requests>>

-----------------------------------------------------------------------------
(* I/O.  The queue is under dev->lock; osurd_make_request has neither.  A    *)
(* request is one bio: first is where what has not been ended of it begins,  *)
(* segs the lengths of the segments that has.  A transfer goes through them  *)
(* one by one: seg is the one in hand, sector where the driver puts it,      *)
(* place where it belongs (ghost), moved how much of it has been moved.      *)

Whole(write, kind, first, segs) ==
    [write |-> write, kind |-> kind, first |-> first, segs |-> segs,
     seg |-> 1, sector |-> first, place |-> first, moved |-> 0, wiped |-> FALSE]

Covered(first, segs) ==
    {s \in Chunks : first <= s /\ s < first + SumFunction(segs)}

(* osurd_xfer_bio takes every segment to be as long as the first one. *)
Uneven(segs) == request_mode # "RM_SIMPLE" /\ \E k \in DOMAIN segs : segs[k] # Head(segs)

Submit(t, write, kind, first, segs) ==
    /\ pc[t] = "open" /\ io[t] = NoIO
    /\ first + SumFunction(segs) <= Sectors
    /\ IF request_mode = "RM_NOQUEUE" THEN kind = "fs" /\ UNCHANGED queue
       ELSE lock = Nobody /\ queue' = queue \cup {t}
    /\ io' = [io EXCEPT ![t] = Whole(write, kind, first, segs)]
    /\ mislaid' = IF write /\ kind = "fs" /\ Uneven(segs)
                  THEN mislaid \cup Covered(first, segs) ELSE mislaid
    /\ UNCHANGED <<request_mode, users, media_change, data, content, lock, timers,
                   bd_mutex, pc, req>>

(* osurd_request and osurd_full_request begin, the queue's lock being held. *)
Fetch ==
    /\ Locked(Driver)
    /\ \E t \in queue : req' = t /\ queue' = queue \ {t}
    /\ UNCHANGED <<request_mode, media, timers, bd_mutex, pc, io>>

(* The simple function has the first segment moved before it ends it, the    *)
(* others all that are left.                                                 *)
Piece(t) == Head(io[t].segs)
Pass(t) == IF request_mode = "RM_SIMPLE" THEN 1 ELSE Len(io[t].segs)
Transferring(t) == /\ io[t] # NoIO /\ io[t].kind = "fs"
                   /\ request_mode = "RM_NOQUEUE" \/ req = t
                   /\ io[t].seg <= Pass(t)

NextSegment(r) ==
    [r EXCEPT !.seg = @ + 1, !.sector = @ + Head(r.segs), !.place = @ + r.segs[r.seg],
              !.moved = 0, !.wiped = FALSE]
NextChunk(r) == IF r.moved + 1 = Head(r.segs) THEN NextSegment(r)
                ELSE [r EXCEPT !.moved = @ + 1, !.wiped = FALSE]

(* osurd_transfer moves nothing of a segment that would end beyond the disk. *)
InRange(t) == io[t].sector + Piece(t) <= Sectors
Moving(t) == Transferring(t) /\ InRange(t)
At(t) == io[t].sector + io[t].moved

Refuse(t) ==
    /\ Transferring(t) /\ ~ InRange(t)
    /\ io' = [io EXCEPT ![t] = NextSegment(io[t])]
    /\ UNCHANGED <<request_mode, media, lock, timers, bd_mutex, pc, queue, req>>

(* A chunk written is first cleared, then encrypted into place: the thread's *)
(* own, or what lies behind a segment that is shorter than was thought.      *)
Wipe(t) ==
    /\ Moving(t) /\ io[t].write /\ ~ io[t].wiped
    /\ data' = [data EXCEPT ![At(t)] = Blank]
    /\ io' = [io EXCEPT ![t].wiped = TRUE]
    /\ UNCHANGED <<request_mode, users, media_change, ghosts, lock, timers,
                   bd_mutex, pc, queue, req>>

Own(t) == io[t].moved < io[t].segs[io[t].seg]
Belongs(t) == Own(t) /\ io[t].sector = io[t].place

WriteChunk(t) ==
    /\ Moving(t) /\ io[t].wiped
    /\ data' = [data EXCEPT ![At(t)] = Encrypt(IF Own(t) THEN t ELSE Stray)]
    /\ content' = IF Belongs(t) THEN [content EXCEPT ![At(t)] = t] ELSE content
    /\ mislaid' = IF Belongs(t) THEN mislaid \ {At(t)}
                  ELSE IF Uneven(io[t].segs) THEN mislaid \cup {At(t)} ELSE mislaid
    /\ io' = [io EXCEPT ![t] = NextChunk(io[t])]
    /\ UNCHANGED <<request_mode, users, media_change, lock, timers, bd_mutex, pc,
                   queue, req>>

(* What a reader gets is left out. *)
ReadSegment(t) ==
    /\ Moving(t) /\ ~ io[t].write
    /\ io' = [io EXCEPT ![t] = NextSegment(io[t])]
    /\ UNCHANGED <<request_mode, media, lock, timers, bd_mutex, pc, queue, req>>

(* After a request's end the next is fetched.  osurd_full_request loses what *)
(* it fetches and goes on with the request it ended.                         *)
FetchNext_Discarded ==
    /\ UNCHANGED <<req, lock>>
    /\ IF queue = {} THEN UNCHANGED queue ELSE \E u \in queue : queue' = queue \ {u}
FetchNext ==
    IF queue = {} THEN req' = Nobody /\ Unlocked /\ UNCHANGED queue
    ELSE \E u \in queue : req' = u /\ queue' = queue \ {u} /\ UNCHANGED lock

(* A request of another kind is ended without being moved, and looked at     *)
(* again.                                                                    *)
AfterRequest(t) ==
    IF io[t].kind = "other" THEN UNCHANGED <<lock, queue, req>>
    ELSE IF request_mode = "RM_FULL" THEN FetchNext_Discarded ELSE FetchNext

(* The first segment is ended; what is left is a request again. *)
EndSegment(t) ==
    /\ req = t /\ io[t] # NoIO
    /\ io[t].kind = "fs" => io[t].seg > Pass(t)
    /\ IF io[t].kind = "other" \/ Len(io[t].segs) = 1
       THEN io' = [io EXCEPT ![t] = NoIO] /\ AfterRequest(t)
       ELSE /\ io' = [io EXCEPT ![t] = Whole(@.write, @.kind, @.first + Piece(t), Tail(@.segs))]
            /\ UNCHANGED <<lock, queue, req>>
    /\ UNCHANGED <<request_mode, media, timers, bd_mutex, pc>>

EndBio(t) ==
    /\ request_mode = "RM_NOQUEUE"
    /\ io[t] # NoIO /\ io[t].seg > Pass(t)
    /\ io' = [io EXCEPT ![t] = NoIO]
    /\ UNCHANGED <<request_mode, media, lock, timers, bd_mutex, pc, queue, req>>

-----------------------------------------------------------------------------
Call(t) ==
    \/ Open(t) \/ Rescan(t) \/ Close(t)
    \/ \E write \in BOOLEAN, kind \in Kinds, extent \in Extents :
         Submit(t, write, kind, extent[1], extent[2])

Finish(t) == \/ DelTimer(t) \/ OpenLock(t) \/ Revalidate(t) \/ Erase(t) \/ Count(t)
             \/ RescanDone(t) \/ Release(t)

Transfer(t) == \/ Wipe(t) \/ WriteChunk(t) \/ ReadSegment(t) \/ Refuse(t)
               \/ EndSegment(t) \/ EndBio(t)

Next == \/ \E t \in Threads : Call(t) \/ Finish(t) \/ Transfer(t)
        \/ Fetch \/ Fire \/ Invalidate

(* Threads and the handler run on, and get a spinlock that is free again and *)
(* again; a queue with requests is run.                                      *)
Fairness == /\ \A t \in Threads : SF_vars(Finish(t)) /\ WF_vars(Transfer(t))
            /\ SF_vars(Fetch) /\ SF_vars(Invalidate)

Spec == Init /\ [][Next]_vars /\ Fairness

-----------------------------------------------------------------------------
Labels == {"closed", "opening", "stopped", "revalidate", "erase", "count", "open",
           "closing"}

Requests == [write : BOOLEAN, kind : Kinds \cup {"none"}, first : Nat, segs : Seq(Nat),
             seg : Nat, sector : Nat, place : Nat, moved : Nat, wiped : BOOLEAN]

TypeOK ==
    /\ request_mode \in Modes
    /\ users \in Nat /\ media_change \in BOOLEAN
    /\ data \in [Chunks -> {Blank} \cup {Encrypt(v) : v \in Threads \cup {Stray}}]
    /\ content \in [Chunks -> Threads \cup {Gibberish}] /\ mislaid \subseteq Chunks
    /\ lock \in Threads \cup {Nobody, Driver}
    /\ timer \in BOOLEAN /\ handler \in BOOLEAN
    /\ bd_mutex \in Threads \cup {Nobody}
    /\ pc \in [Threads -> Labels]
    /\ io \in [Threads -> Requests]
    /\ queue \subseteq Threads /\ req \in Threads \cup {Nobody}

(* Whoever has stopped the timer and may use the device is never met by it:  *)
(* osurd_invalidate's sanity check cannot fail and osurd_release never adds  *)
(* a timer that is pending, however opens, closes and expiries overlap.      *)
TimerStopped ==
    (\E t \in Threads : pc[t] \notin {"closed", "opening"}) => ~ timer /\ ~ handler

(* A user reads what was last written since the medium was last taken away,  *)
(* and nothing of what was on it before.  Only two kinds of sectors may read *)
(* as anything else: those being written, and those that bios with segments  *)
(* of unequal length got wrong, in the modes that use osurd_xfer_bio.        *)
BeingWritten(s) == \E t \in Threads : io[t].wiped /\ At(t) = s
ReadsAsWritten ==
    users > 0 =>
        \A s \in Chunks \ mislaid : BeingWritten(s) \/ Decrypt(data[s]) = content[s]

(* "Do each segment independently": when nothing is under way, each sector   *)
(* written holds what its segment had for it, and no other was touched.      *)
SegmentsInPlace == (\A t \in Threads : io[t] = NoIO) => mislaid = {}

(* Every open and close returns and every request made is answered.          *)
CallsReturn ==
    \A t \in Threads :
        /\ (pc[t] \notin {"closed", "open"}) ~> (pc[t] \in {"closed", "open"})
        /\ (io[t] # NoIO) ~> (io[t] = NoIO)

(* "Skip non-fs request", "Smarter request function": a request function     *)
(* works on a request the queue gave it and has not got back.                *)
WorksOnItsRequest == req # Nobody => io[req] # NoIO
=============================================================================
