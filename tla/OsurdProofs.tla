----------------------------- MODULE OsurdProofs -----------------------------
(* Proofs about Osurd, for any number of threads and sectors, every request  *)
(* mode and requests of any segments: the timer never meets a user, and      *)
(* users read what was written since the medium was last taken away, but for *)
(* what unequal segments got wrong.  Then about OsurdModule, for any number  *)
(* of devices: users find what they use, and unloading leaves nothing behind.*)
EXTENDS OsurdModule, FiniteSetTheorems, TLAPS

(* bd_mutex is held around every open, rescan and release. *)
MutexHeld ==
    \A t \in Threads :
        bd_mutex = t <=> pc[t] \in {"opening", "stopped", "revalidate", "erase",
                                     "count", "closing"}

(* dev->lock is held by a thread only while it looks for a media change.     *)
LockHeld == \A t \in Threads : lock = t => pc[t] \in {"revalidate", "erase", "count"}

(* dev->users counts the threads that got in; a rescan does not hold the     *)
(* lock.                                                                     *)
Using(t) == \/ pc[t] \in {"open", "closing"}
            \/ pc[t] \in {"revalidate", "erase", "count"} /\ lock # t
UsersExact == users = Cardinality({t \in Threads : Using(t)})

(* A medium taken away is examined before anybody is let in. *)
ChangeUnused ==
    media_change => \A t \in Threads : \/ pc[t] \in {"closed", "opening", "stopped"}
                                       \/ pc[t] = "revalidate" /\ lock = t
FirstUser ==
    \A t \in Threads :
        /\ pc[t] \in {"revalidate", "erase"} /\ lock = t => users = 0
        /\ pc[t] = "erase" => lock = t /\ ~ media_change

Unexamined == media_change \/ \E t \in Threads : pc[t] = "erase"
ContentLost == Unexamined => \A s \in Chunks : content[s] = Gibberish

(* Only an open device is read or written.  What is left of a request has    *)
(* segments, and the driver is in one of them or done with all; where they   *)
(* are of one length it puts each where it belongs.                          *)
WellFormed(r) ==
    /\ r.segs \in Seq(Nat \ {0}) /\ r.segs # <<>>
    /\ r.seg \in 1 .. Len(r.segs) + 1
    /\ r.moved < Head(r.segs)
    /\ ~ Uneven(r.segs) => r.place = r.sector
IoOpen == \A t \in Threads : io[t] # NoIO => pc[t] = "open" /\ WellFormed(io[t])
IoWiped ==
    \A t \in Threads : io[t].wiped =>
        /\ io[t].kind = "fs" /\ io[t].write
        /\ io[t].seg <= Pass(t) /\ InRange(t)

DataKept ==
    ~ Unexamined =>
        \A s \in Chunks \ mislaid : BeingWritten(s) \/ Decrypt(data[s]) = content[s]

OpenKept == MutexHeld /\ LockHeld /\ UsersExact /\ TimerStopped /\ ChangeUnused /\ FirstUser
IoKept == IoOpen /\ IoWiped
Core == TypeOK /\ OpenKept /\ IoKept /\ ContentLost /\ DataKept

(* The request function runs under dev->lock. *)
DriverLock == req # Nobody => lock = Driver

IInv == Core /\ DriverLock

-----------------------------------------------------------------------------
LEMMA UsersFinite ==
    ASSUME NEW S \in SUBSET Threads
    PROVE  IsFiniteSet(S) /\ Cardinality(S) \in Nat
BY ThreadsAssumption, FS_Subset, FS_CardinalityType

(* With users at 0 nobody is in. *)
LEMMA NoUsers ==
    ASSUME UsersExact, users = 0
    PROVE  \A t \in Threads : ~ Using(t)
<1> DEFINE U == {t \in Threads : Using(t)}
<1>1. IsFiniteSet(U) /\ Cardinality(U) = 0
  BY UsersFinite DEF UsersExact
<1>2. U = {}
  BY <1>1, FS_EmptySet
<1> QED
  BY <1>2

(* A changed medium has no users. *)
LEMMA ChangeNoUsers ==
    ASSUME UsersExact, ChangeUnused, media_change
    PROVE  users = 0
<1>1. {t \in Threads : Using(t)} = {}
  BY DEF ChangeUnused, Using
<1> QED
  BY <1>1, FS_EmptySet DEF UsersExact

LEMMA InitIInv == Init => IInv
<1> SUFFICES ASSUME Init PROVE IInv
  OBVIOUS
<1> USE ThreadsAssumption, SectorsAssumption DEF Init
<1>1. TypeOK
  <2>1. NoIO \in Requests
    BY DEF NoIO, Requests, Chunks
  <2> QED
    BY <2>1 DEF TypeOK, Labels
<1>2. UsersExact
  <2>1. {t \in Threads : Using(t)} = {}
    BY DEF Using
  <2> QED
    BY <2>1, FS_EmptySet DEF UsersExact
<1>3. OpenKept
  BY <1>2 DEF OpenKept, MutexHeld, LockHeld, TimerStopped, ChangeUnused, FirstUser
<1>4. IoKept
  BY DEF IoKept, IoOpen, IoWiped, NoIO
<1>5. ContentLost /\ DataKept
  BY DEF ContentLost, DataKept, Unexamined, Decrypt
<1>6. DriverLock
  BY DEF DriverLock
<1> QED
  BY <1>1, <1>3, <1>4, <1>5, <1>6 DEF IInv, Core

(* Steps that move no thread in or out. *)
LEMMA KeptFrame ==
    ASSUME OpenKept, UNCHANGED <<users, media_change, timers, bd_mutex, pc>>,
           \A t \in Threads : lock' = t <=> lock = t
    PROVE  OpenKept'
<1>1. {t \in Threads : Using(t)}' = {t \in Threads : Using(t)}
  BY DEF Using
<1>2. UsersExact'
  BY <1>1 DEF OpenKept, UsersExact
<1> QED
  BY <1>2 DEF OpenKept, MutexHeld, LockHeld, TimerStopped, ChangeUnused, FirstUser, timers

LEMMA IoFrame ==
    ASSUME IoKept, UNCHANGED <<request_mode, io>>,
           \A t \in Threads : io[t] # NoIO => pc'[t] = "open"
    PROVE  IoKept'
BY DEF IoKept, IoOpen, IoWiped, WellFormed, Uneven, Pass, InRange, Piece

LEMMA DataFrame ==
    ASSUME ContentLost, DataKept, UNCHANGED <<io, data, ghosts>>,
           Unexamined' <=> Unexamined
    PROVE  ContentLost' /\ DataKept'
BY DEF ContentLost, DataKept, BeingWritten, At, ghosts

(* A thread at label l goes on to label m, neither of them "erase". *)
LEMMA SameExamined ==
    ASSUME TypeOK, NEW t \in Threads, NEW m, pc[t] # "erase", m # "erase",
           Goto(t, m), UNCHANGED media_change
    PROVE  Unexamined' <=> Unexamined
BY DEF TypeOK, Goto, Unexamined

(* Users before and after a step of thread t. *)
LEMMA UsersSame ==
    ASSUME UsersExact, UNCHANGED users, \A t \in Threads : Using(t)' <=> Using(t)
    PROVE  UsersExact'
<1>1. {t \in Threads : Using(t)}' = {t \in Threads : Using(t)}
  OBVIOUS
<1> QED
  BY <1>1 DEF UsersExact

LEMMA UsersMore ==
    ASSUME UsersExact, NEW t \in Threads, users' = users + 1, ~ Using(t), Using(t)',
           \A u \in Threads \ {t} : Using(u)' <=> Using(u)
    PROVE  UsersExact'
<1> DEFINE U == {u \in Threads : Using(u)}
           V == {u \in Threads : Using(u)'}
<1>1. V = U \cup {t} /\ t \notin U
  OBVIOUS
<1>2. IsFiniteSet(U)
  BY UsersFinite
<1>3. Cardinality(V) = Cardinality(U) + 1
  BY <1>1, <1>2, FS_AddElement
<1> QED
  BY <1>3 DEF UsersExact

LEMMA UsersFewer ==
    ASSUME UsersExact, NEW t \in Threads, users' = users - 1, Using(t), ~ Using(t)',
           \A u \in Threads \ {t} : Using(u)' <=> Using(u)
    PROVE  UsersExact' /\ users' \in Nat
<1> DEFINE U == {u \in Threads : Using(u)}
           V == {u \in Threads : Using(u)'}
<1>1. V = U \ {t} /\ t \in U
  OBVIOUS
<1>2. IsFiniteSet(U) /\ IsFiniteSet(V) /\ Cardinality(V) \in Nat /\ Cardinality(U) \in Nat
  BY UsersFinite
<1>3. Cardinality(V) = Cardinality(U) - 1
  BY <1>1, <1>2, FS_RemoveElement
<1> QED
  BY <1>2, <1>3 DEF UsersExact

-----------------------------------------------------------------------------
(* osurd_open, osurd_release and the rescan. *)

LEMMA OpenInv == ASSUME IInv, NEW t \in Threads, Open(t) PROVE Core'
<1> USE DEF IInv, Core, OpenKept
<1>1. TypeOK'
  BY DEF TypeOK, Open, Goto, Labels, media, timers, requests, ghosts
<1>2. UsersExact'
  BY UsersSame DEF TypeOK, Open, Goto, Using, media
<1>3. OpenKept'
  BY <1>2, ThreadsAssumption
  DEF Open, Goto, TypeOK, MutexHeld, LockHeld, TimerStopped, ChangeUnused, FirstUser, media, timers
<1>4. IoKept'
  BY IoFrame DEF Open, Goto, TypeOK, IoKept, IoOpen, requests
<1>5. ContentLost' /\ DataKept'
  BY SameExamined, DataFrame DEF Open, media, requests
<1> QED
  BY <1>1, <1>3, <1>4, <1>5

LEMMA DelTimerInv == ASSUME IInv, NEW t \in Threads, DelTimer(t) PROVE Core'
<1> USE DEF IInv, Core, OpenKept
<1>1. TypeOK'
  BY DEF TypeOK, DelTimer, Goto, Labels, media, requests, ghosts
<1>2. UsersExact'
  BY UsersSame DEF TypeOK, DelTimer, Goto, Using, media
<1>3. OpenKept'
  BY <1>2 DEF DelTimer, TimerQuiet, Goto, TypeOK, MutexHeld, LockHeld, TimerStopped, ChangeUnused,
              FirstUser, media
<1>4. IoKept'
  BY IoFrame DEF DelTimer, Goto, TypeOK, IoKept, IoOpen, requests
<1>5. ContentLost' /\ DataKept'
  BY SameExamined, DataFrame DEF DelTimer, media, requests
<1> QED
  BY <1>1, <1>3, <1>4, <1>5

LEMMA OpenLockInv == ASSUME IInv, NEW t \in Threads, OpenLock(t) PROVE Core'
<1> USE DEF IInv, Core, OpenKept
<1>1. TypeOK'
  BY DEF TypeOK, OpenLock, Locked, Goto, Labels, media, timers, requests, ghosts
<1>2. UsersExact'
  BY UsersSame, ThreadsAssumption DEF TypeOK, OpenLock, Locked, Goto, Using, media
<1>3. OpenKept'
  BY <1>2, ChangeNoUsers, ThreadsAssumption
  DEF OpenLock, Locked, Goto, TypeOK, MutexHeld, LockHeld, TimerStopped, ChangeUnused, FirstUser,
      media, timers
<1>4. IoKept'
  BY IoFrame DEF OpenLock, Goto, TypeOK, IoKept, IoOpen, requests
<1>5. ContentLost' /\ DataKept'
  BY SameExamined, DataFrame DEF OpenLock, media, requests
<1> QED
  BY <1>1, <1>3, <1>4, <1>5

LEMMA RevalidateInv == ASSUME IInv, NEW t \in Threads, Revalidate(t) PROVE Core'
<1> USE DEF IInv, Core, OpenKept
<1>1. TypeOK'
  BY DEF TypeOK, Revalidate, Goto, Labels, timers, requests, ghosts
<1>2. UsersExact'
  BY UsersSame DEF TypeOK, Revalidate, Goto, Using, ChangeUnused
<1>3. OpenKept'
  BY <1>2 DEF Revalidate, Goto, TypeOK, MutexHeld, LockHeld, TimerStopped, ChangeUnused, FirstUser,
              timers
<1>4. IoKept'
  BY IoFrame DEF Revalidate, Goto, TypeOK, IoKept, IoOpen, requests
<1>5. Unexamined' <=> Unexamined
  BY DEF Revalidate, Goto, TypeOK, Unexamined
<1>6. ContentLost' /\ DataKept'
  BY <1>5, DataFrame DEF Revalidate, requests
<1> QED
  BY <1>1, <1>3, <1>4, <1>6

LEMMA EraseInv == ASSUME IInv, NEW t \in Threads, Erase(t) PROVE Core'
<1> USE DEF IInv, Core, OpenKept
<1>1. TypeOK'
  BY DEF TypeOK, Erase, Erased, Goto, Labels, timers, requests, ghosts
<1>2. UsersExact'
  BY UsersSame DEF TypeOK, Erase, Goto, Using
<1>3. OpenKept'
  BY <1>2 DEF Erase, Goto, TypeOK, MutexHeld, LockHeld, TimerStopped, ChangeUnused, FirstUser,
              timers
<1>4. IoKept'
  BY IoFrame DEF Erase, Goto, TypeOK, IoKept, IoOpen, requests
<1>5. \A s \in Chunks : content'[s] = Gibberish /\ Decrypt(data'[s]) = Gibberish
  BY DEF Erase, Erased, Decrypt, ContentLost, Unexamined, ghosts
<1>6. ContentLost' /\ DataKept'
  BY <1>5 DEF ContentLost, DataKept, Erase
<1> QED
  BY <1>1, <1>3, <1>4, <1>6

LEMMA CountInv == ASSUME IInv, NEW t \in Threads, Count(t) PROVE Core'
<1> USE DEF IInv, Core, OpenKept
<1>1. TypeOK'
  BY DEF TypeOK, Count, OneMore, Unlocked, Goto, Labels, timers, requests, ghosts
<1>2. ~ Using(t) /\ Using(t)' /\ \A u \in Threads \ {t} : Using(u)' <=> Using(u)
  BY ThreadsAssumption DEF Count, Unlocked, Goto, TypeOK, Using
<1>3. UsersExact'
  BY <1>2, UsersMore DEF Count, OneMore
<1>4. OpenKept'
  BY <1>3, ThreadsAssumption
  DEF Count, Unlocked, Goto, TypeOK, MutexHeld, LockHeld, TimerStopped, ChangeUnused, FirstUser,
      timers
<1>5. IoKept'
  BY IoFrame DEF Count, Goto, TypeOK, IoKept, IoOpen, requests
<1>6. ContentLost' /\ DataKept'
  BY SameExamined, DataFrame DEF Count, requests
<1> QED
  BY <1>1, <1>4, <1>5, <1>6

LEMMA RescanDoneInv == ASSUME IInv, NEW t \in Threads, RescanDone(t) PROVE Core'
<1> USE DEF IInv, Core, OpenKept
<1>1. TypeOK'
  BY DEF TypeOK, RescanDone, Goto, Labels, media, timers, requests, ghosts
<1>2. UsersExact'
  BY UsersSame DEF TypeOK, RescanDone, Goto, Using, media
<1>3. OpenKept'
  BY <1>2, ThreadsAssumption
  DEF RescanDone, Goto, TypeOK, MutexHeld, LockHeld, TimerStopped, ChangeUnused, FirstUser, media,
      timers
<1>4. IoKept'
  BY IoFrame DEF RescanDone, Goto, TypeOK, IoKept, IoOpen, requests
<1>5. ContentLost' /\ DataKept'
  BY SameExamined, DataFrame DEF RescanDone, media, requests
<1> QED
  BY <1>1, <1>3, <1>4, <1>5

LEMMA RescanInv == ASSUME IInv, NEW t \in Threads, Rescan(t) PROVE Core'
<1> USE DEF IInv, Core, OpenKept
<1>1. TypeOK'
  BY DEF TypeOK, Rescan, Goto, Labels, media, timers, requests, ghosts
<1>2. UsersExact'
  BY UsersSame DEF TypeOK, Rescan, Goto, Using, LockHeld, media
<1>3. OpenKept'
  BY <1>2, ThreadsAssumption
  DEF Rescan, Goto, TypeOK, MutexHeld, LockHeld, TimerStopped, ChangeUnused, FirstUser, media, timers
<1>4. IoKept'
  BY IoFrame DEF Rescan, Goto, TypeOK, IoKept, IoOpen, requests
<1>5. ContentLost' /\ DataKept'
  BY SameExamined, DataFrame DEF Rescan, media, requests
<1> QED
  BY <1>1, <1>3, <1>4, <1>5

LEMMA CloseInv == ASSUME IInv, NEW t \in Threads, Close(t) PROVE Core'
<1> USE DEF IInv, Core, OpenKept
<1>1. TypeOK'
  BY DEF TypeOK, Close, Goto, Labels, media, timers, requests, ghosts
<1>2. UsersExact'
  BY UsersSame DEF TypeOK, Close, Goto, Using, media
<1>3. OpenKept'
  BY <1>2, ThreadsAssumption
  DEF Close, Goto, TypeOK, MutexHeld, LockHeld, TimerStopped, ChangeUnused, FirstUser, media, timers
<1>4. IoKept'
  BY IoFrame DEF Close, Goto, TypeOK, IoKept, IoOpen, requests
<1>5. ContentLost' /\ DataKept'
  BY SameExamined, DataFrame DEF Close, media, requests
<1> QED
  BY <1>1, <1>3, <1>4, <1>5

LEMMA ReleaseInv == ASSUME IInv, NEW t \in Threads, Release(t) PROVE Core'
<1> USE DEF IInv, Core, OpenKept
<1>1. Using(t) /\ ~ Using(t)' /\ \A u \in Threads \ {t} : Using(u)' <=> Using(u)
  BY DEF Release, Goto, TypeOK, Using
<1>2. UsersExact' /\ users' \in Nat
  BY <1>1, UsersFewer DEF Release
<1>3. TypeOK'
  BY <1>2 DEF TypeOK, Release, Goto, Labels, requests, ghosts
<1>4. users' = 0 => \A u \in Threads : ~ Using(u)'
  <2> DEFINE V == {u \in Threads : Using(u)'}
  <2>1. IsFiniteSet(V) /\ users' = Cardinality(V)
    BY <1>2, UsersFinite DEF UsersExact
  <2>2. users' = 0 => V = {}
    BY <2>1, FS_EmptySet
  <2> QED
    BY <2>2
<1>5. TimerStopped'
  BY <1>4, ThreadsAssumption DEF Release, Goto, TypeOK, TimerStopped, Using, MutexHeld, Labels
<1>6. OpenKept'
  BY <1>2, <1>5, ThreadsAssumption
  DEF Release, Goto, TypeOK, MutexHeld, LockHeld, ChangeUnused, FirstUser
<1>7. IoKept'
  BY IoFrame DEF Release, Goto, TypeOK, IoKept, IoOpen, requests
<1>8. ContentLost' /\ DataKept'
  BY SameExamined, DataFrame DEF Release, requests
<1> QED
  BY <1>3, <1>6, <1>7, <1>8

-----------------------------------------------------------------------------
(* The timer. *)

LEMMA FireInv == ASSUME IInv, Fire PROVE Core'
<1> USE DEF IInv, Core, OpenKept
<1>1. TypeOK'
  BY DEF TypeOK, Fire, media, requests, ghosts
<1>2. UsersExact'
  BY UsersSame DEF Fire, Using, media
<1>3. OpenKept'
  BY <1>2 DEF Fire, MutexHeld, LockHeld, TimerStopped, ChangeUnused, FirstUser, media
<1>4. IoKept'
  BY IoFrame DEF Fire, IoKept, IoOpen, requests
<1>5. ContentLost' /\ DataKept'
  BY DataFrame DEF Fire, Unexamined, media, requests
<1> QED
  BY <1>1, <1>3, <1>4, <1>5

LEMMA InvalidateInv == ASSUME IInv, Invalidate PROVE Core'
<1> USE DEF IInv, Core, OpenKept
<1>1. \A t \in Threads : pc[t] \in {"closed", "opening"}
  BY DEF Invalidate, TimerStopped
<1>2. TypeOK'
  BY DEF TypeOK, Invalidate, requests, ghosts
<1>3. UsersExact'
  BY UsersSame DEF Invalidate, Using
<1>4. OpenKept'
  BY <1>1, <1>3 DEF Invalidate, MutexHeld, LockHeld, TimerStopped, ChangeUnused, FirstUser
<1>5. IoKept'
  BY IoFrame DEF Invalidate, IoKept, IoOpen, requests
<1>6. ContentLost' /\ DataKept'
  <2>1. CASE users # 0
    BY <2>1, DataFrame DEF Invalidate, Unexamined, requests
  <2>2. CASE users = 0
    BY <2>2 DEF Invalidate, ContentLost, DataKept, Unexamined
  <2> QED
    BY <2>1, <2>2
<1> QED
  BY <1>2, <1>4, <1>5, <1>6

-----------------------------------------------------------------------------
(* I/O: who has the device open, and whether it was examined, stays.         *)

(* An open device is examined. *)
LEMMA OpenExamined ==
    ASSUME OpenKept, NEW t \in Threads, pc[t] = "open"
    PROVE  ~ Unexamined
<1>1. users # 0
  BY NoUsers DEF OpenKept, Using
<1> QED
  BY <1>1 DEF OpenKept, ChangeUnused, FirstUser, Unexamined

(* A request that is made, goes on or ends, while nothing is written.        *)
LEMMA RequestFrame ==
    ASSUME IInv, NEW t \in Threads, NEW r \in Requests, io' = [io EXCEPT ![t] = r],
           ~ io[t].wiped, ~ r.wiped, r # NoIO => pc[t] = "open" /\ WellFormed(r),
           UNCHANGED <<request_mode, users, media_change, data, content, timers, bd_mutex, pc>>,
           mislaid \subseteq mislaid', mislaid' \subseteq Chunks,
           lock' \in {lock, Nobody}, lock' = lock \/ lock \notin Threads,
           queue' \subseteq Threads, req' \in Threads \cup {Nobody}
    PROVE  Core'
<1> USE DEF IInv, Core
<1>1. TypeOK'
  BY DEF TypeOK, timers
<1>2. OpenKept'
  BY KeptFrame, ThreadsAssumption
<1>3. \A q : WellFormed(q)' <=> WellFormed(q)
  BY DEF WellFormed, Uneven
<1>4. \A u \in Threads : io'[u] = IF u = t THEN r ELSE io[u]
  BY DEF TypeOK
<1>5. IoKept'
  BY <1>3, <1>4 DEF IoKept, IoOpen, IoWiped, Pass, InRange, Piece
<1>6. \A s \in Chunks : BeingWritten(s) => BeingWritten(s)'
  BY <1>4 DEF BeingWritten, At
<1>7. ContentLost' /\ DataKept'
  BY <1>6 DEF ContentLost, DataKept, Unexamined
<1> QED
  BY <1>1, <1>2, <1>5, <1>7

(* The lengths of segments, as the steps use them. *)
LEMMA Segments ==
    ASSUME NEW s \in Seq(Nat \ {0}), s # <<>>
    PROVE  /\ Len(s) \in Nat \ {0} /\ DOMAIN s = 1 .. Len(s)
           /\ Head(s) = s[1] /\ \A k \in 1 .. Len(s) : s[k] \in Nat \ {0}
           /\ Len(s) # 1 => Tail(s) \in Seq(Nat \ {0}) /\ Tail(s) # <<>>
<1>1. Len(s) \in Nat \ {0} /\ DOMAIN s = 1 .. Len(s)
  OBVIOUS
<1>2. Head(s) = s[1] /\ \A k \in 1 .. Len(s) : s[k] \in Nat \ {0}
  BY <1>1
<1>3. ASSUME Len(s) # 1 PROVE Tail(s) \in Seq(Nat \ {0}) /\ Tail(s) # <<>>
  BY <1>1, <1>3
<1> QED
  BY <1>1, <1>2, <1>3

LEMMA WholeFormed ==
    ASSUME NEW write \in BOOLEAN, NEW kind \in Kinds \cup {"none"}, NEW first \in Nat,
           NEW segs \in Seq(Nat \ {0}), segs # <<>>
    PROVE  LET r == Whole(write, kind, first, segs)
           IN  r \in Requests /\ ~ r.wiped /\ WellFormed(r)
<1>1. Len(segs) \in Nat \ {0} /\ Head(segs) \in Nat \ {0}
  BY Segments
<1>2. segs \in Seq(Nat)
  BY Segments
<1> QED
  BY <1>1, <1>2 DEF Whole, Requests, WellFormed

LEMMA SubmitInv ==
    ASSUME IInv, NEW t \in Threads, NEW write \in BOOLEAN, NEW kind \in Kinds,
           NEW extent \in Extents, Submit(t, write, kind, extent[1], extent[2])
    PROVE  Core'
<1> DEFINE r == Whole(write, kind, extent[1], extent[2])
<1>1. extent[1] \in Nat /\ extent[2] \in Seq(Nat \ {0}) /\ extent[2] # <<>>
  BY ExtentsAssumption
<1>2. r \in Requests /\ ~ r.wiped /\ WellFormed(r)
  BY <1>1, WholeFormed
<1>3. io' = [io EXCEPT ![t] = r] /\ pc[t] = "open" /\ ~ io[t].wiped
  BY DEF Submit, NoIO
<1>4. mislaid \subseteq mislaid' /\ mislaid' \subseteq Chunks
  BY DEF Submit, Covered, IInv, Core, TypeOK
<1>5. queue' \subseteq Threads /\ req' \in Threads \cup {Nobody}
  BY DEF Submit, IInv, Core, TypeOK
<1> QED
  BY <1>2, <1>3, <1>4, <1>5, RequestFrame DEF Submit

LEMMA FetchInv == ASSUME IInv, Fetch PROVE Core'
<1> USE DEF IInv, Core
<1>1. TypeOK'
  BY DEF TypeOK, Fetch, Locked, media, ghosts, timers
<1>2. OpenKept'
  BY KeptFrame, ThreadsAssumption DEF Fetch, Locked, media, TypeOK
<1>3. IoKept'
  BY IoFrame DEF Fetch, IoKept, IoOpen
<1>4. ContentLost' /\ DataKept'
  BY DataFrame DEF Fetch, Unexamined, media, ghosts
<1> QED
  BY <1>1, <1>2, <1>3, <1>4

(* A segment that is moved lies within the request, a chunk within the disk. *)
LEMMA Within ==
    ASSUME TypeOK, IoOpen, NEW t \in Threads, Transferring(t)
    PROVE  /\ io[t] \in Requests /\ io[t] # NoIO /\ pc[t] = "open" /\ WellFormed(io[t])
           /\ io[t].seg \in 1 .. Len(io[t].segs) /\ Head(io[t].segs) \in Nat \ {0}
           /\ io[t].segs[io[t].seg] \in Nat \ {0}
           /\ ~ Uneven(io[t].segs) => io[t].segs[io[t].seg] = Head(io[t].segs)
<1> DEFINE r == io[t]
<1>1. r \in Requests /\ r # NoIO /\ pc[t] = "open" /\ WellFormed(r) /\ r.seg <= Pass(t)
  BY DEF TypeOK, Transferring, IoOpen
<1>2. /\ Len(r.segs) \in Nat \ {0} /\ DOMAIN r.segs = 1 .. Len(r.segs)
      /\ Head(r.segs) = r.segs[1] /\ \A k \in 1 .. Len(r.segs) : r.segs[k] \in Nat \ {0}
  BY <1>1, Segments DEF WellFormed
<1>3. r.seg \in Nat /\ 1 <= r.seg
  BY <1>1, <1>2 DEF WellFormed
<1>4. r.seg <= Len(r.segs) /\ (request_mode = "RM_SIMPLE" => r.seg = 1)
  BY <1>1, <1>2, <1>3 DEF Pass
<1>5. r.seg \in 1 .. Len(r.segs)
  BY <1>2, <1>3, <1>4
<1> QED
  BY <1>1, <1>2, <1>4, <1>5 DEF Uneven

LEMMA MovingBounds ==
    ASSUME TypeOK, IoOpen, NEW t \in Threads, Moving(t)
    PROVE  At(t) \in Chunks
<1>1. io[t].sector \in Nat /\ io[t].moved \in Nat /\ io[t].moved < Head(io[t].segs)
      /\ Head(io[t].segs) \in Nat
  BY Within DEF Moving, Requests, WellFormed
<1>2. io[t].sector + Head(io[t].segs) <= Sectors
  BY DEF Moving, InRange, Piece
<1> QED
  BY <1>1, <1>2, SectorsAssumption DEF At, Chunks

(* Going on to the next segment or chunk. *)
LEMMA NextSegmentOf ==
    ASSUME NEW q \in Requests, WellFormed(q), q.seg \in 1 .. Len(q.segs),
           NEW l \in Nat \ {0}, l = Head(q.segs),
           NEW k \in Nat \ {0}, k = q.segs[q.seg], ~ Uneven(q.segs) => k = l
    PROVE  LET r == NextSegment(q) IN r \in Requests /\ ~ r.wiped /\ WellFormed(r)
<1> DEFINE r == NextSegment(q)
<1>1. q.sector \in Nat /\ q.place \in Nat /\ q.seg \in Nat /\ Len(q.segs) \in Nat
  BY DEF Requests
<1>2. /\ q.sector + l \in Nat /\ q.place + k \in Nat
      /\ q.seg + 1 \in Nat /\ q.seg + 1 \in 1 .. Len(q.segs) + 1
  <2>1. \A a, b \in Nat : a + b \in Nat
    OBVIOUS
  <2>2. \A a, b \in Nat : a \in 1 .. b => a + 1 \in 1 .. b + 1
    OBVIOUS
  <2> QED
    BY <1>1, <2>1, <2>2
<1>3. r = [q EXCEPT !.seg = q.seg + 1, !.sector = q.sector + l, !.place = q.place + k,
                    !.moved = 0, !.wiped = FALSE]
  BY DEF NextSegment, Requests
<1>4. r \in Requests
  <2>1. \A a, b, c \in Nat :
          [q EXCEPT !.seg = a, !.sector = b, !.place = c, !.moved = 0, !.wiped = FALSE]
            \in Requests
    BY DEF Requests
  <2> HIDE DEF r
  <2> QED
    BY <1>2, <1>3, <2>1, Zenon
<1>5. /\ r.segs = q.segs /\ r.seg = q.seg + 1 /\ r.moved = 0 /\ r.wiped = FALSE
      /\ r.sector = q.sector + l /\ r.place = q.place + k
  BY <1>3 DEF Requests
<1>6. ~ Uneven(r.segs) => r.place = r.sector
  BY <1>5 DEF WellFormed
<1>7. r.moved < Head(r.segs)
  BY <1>5
<1>8. WellFormed(r)
  BY <1>2, <1>5, <1>6, <1>7 DEF WellFormed
<1> QED
  BY <1>4, <1>5, <1>8

LEMMA NextSegmentFormed ==
    ASSUME TypeOK, IoOpen, NEW t \in Threads, Transferring(t)
    PROVE  LET r == NextSegment(io[t]) IN r \in Requests /\ ~ r.wiped /\ WellFormed(r)
BY Within, NextSegmentOf

LEMMA NextChunkFormed ==
    ASSUME TypeOK, IoOpen, NEW t \in Threads, Transferring(t)
    PROVE  LET r == NextChunk(io[t]) IN r \in Requests /\ ~ r.wiped /\ WellFormed(r)
<1> DEFINE q == io[t]
           r == [q EXCEPT !.moved = @ + 1, !.wiped = FALSE]
<1>1. CASE q.moved + 1 = Head(q.segs)
  BY <1>1, NextSegmentFormed DEF NextChunk
<1>2. CASE q.moved + 1 # Head(q.segs)
  <2>1. q \in Requests /\ WellFormed(q) /\ Head(q.segs) \in Nat
    BY Within
  <2>2. /\ r.segs = q.segs /\ r.seg = q.seg /\ r.moved = q.moved + 1 /\ r.wiped = FALSE
        /\ r.sector = q.sector /\ r.place = q.place
    BY <2>1 DEF Requests
  <2>3. q.moved \in Nat /\ r \in Requests
    <3>1. q.moved \in Nat /\ q.moved + 1 \in Nat
      BY <2>1 DEF Requests
    <3> QED
      BY <2>1, <3>1 DEF Requests
  <2>4. WellFormed(r)
    BY <1>2, <2>1, <2>2, <2>3 DEF WellFormed
  <2> QED
    BY <1>2, <2>2, <2>3, <2>4 DEF NextChunk
<1> QED
  BY <1>1, <1>2

(* A segment read, or not moved at all. *)
LEMMA NextInv ==
    ASSUME IInv, NEW t \in Threads, ReadSegment(t) \/ Refuse(t)
    PROVE  Core'
<1> DEFINE r == NextSegment(io[t])
<1>1. TypeOK /\ IoOpen /\ Transferring(t)
  BY DEF IInv, Core, IoKept, Refuse, ReadSegment, Moving
<1>2. r \in Requests /\ ~ r.wiped /\ WellFormed(r) /\ pc[t] = "open"
  BY <1>1, NextSegmentFormed, Within
<1>3. ~ io[t].wiped
  BY DEF IInv, Core, IoKept, IoWiped, Refuse, ReadSegment
<1>4. /\ io' = [io EXCEPT ![t] = r]
      /\ UNCHANGED <<request_mode, media, lock, timers, bd_mutex, pc, queue, req>>
  BY DEF Refuse, ReadSegment
<1>5. mislaid' \subseteq Chunks /\ queue' \subseteq Threads /\ req' \in Threads \cup {Nobody}
  BY <1>1, <1>4 DEF TypeOK, media, ghosts
<1> QED
  BY <1>2, <1>3, <1>4, <1>5, RequestFrame DEF media, ghosts

LEMMA WipeInv == ASSUME IInv, NEW t \in Threads, Wipe(t) PROVE Core'
<1> DEFINE r == [io[t] EXCEPT !.wiped = TRUE]
<1> USE DEF IInv, Core
<1>1. /\ io[t] \in Requests /\ At(t) \in Chunks /\ io[t] # NoIO /\ pc[t] = "open"
      /\ WellFormed(io[t]) /\ Moving(t) /\ Transferring(t)
  BY MovingBounds, Within DEF Wipe, Moving, IoKept
<1>2. /\ r \in Requests /\ r.wiped /\ r.segs = io[t].segs /\ r.seg = io[t].seg
      /\ r.moved = io[t].moved /\ r.sector = io[t].sector /\ r.place = io[t].place
      /\ r.kind = io[t].kind /\ r.write = io[t].write
  BY <1>1 DEF Requests
<1>3. \A u \in Threads : io'[u] = IF u = t THEN r ELSE io[u]
  BY DEF TypeOK, Wipe
<1>4. TypeOK'
  BY <1>1, <1>2 DEF TypeOK, Wipe, timers, ghosts
<1>5. OpenKept'
  BY KeptFrame DEF Wipe
<1>6. IoKept'
  <2>1. \A q : WellFormed(q)' <=> WellFormed(q)
    BY DEF WellFormed, Uneven, Wipe
  <2>2. WellFormed(r)
    BY <1>1, <1>2 DEF WellFormed
  <2>3. IoOpen'
    BY <1>1, <1>3, <2>1, <2>2 DEF Wipe, IoKept, IoOpen
  <2>4. IoWiped'
    BY <1>1, <1>2, <1>3
       DEF Wipe, Moving, Transferring, IoKept, IoWiped, Pass, InRange, Piece
  <2> QED
    BY <2>3, <2>4 DEF IoKept
<1>7. ASSUME NEW s \in Chunks, BeingWritten(s) \/ s = At(t) PROVE BeingWritten(s)'
  <2>1. io'[t].wiped /\ At(t)' = At(t)
    BY <1>2, <1>3 DEF At
  <2>2. \A u \in Threads \ {t} : io'[u] = io[u] /\ At(u)' = At(u)
    BY <1>3 DEF At
  <2> QED
    BY <1>7, <2>1, <2>2 DEF BeingWritten
<1>8. \A s \in Chunks : s # At(t) => data'[s] = data[s]
  BY <1>1 DEF TypeOK, Wipe
<1>9. ContentLost' /\ DataKept'
  BY <1>7, <1>8 DEF Wipe, ContentLost, DataKept, Unexamined, Decrypt, ghosts
<1> QED
  BY <1>4, <1>5, <1>6, <1>9

(* What goes where it does not belong is of a write with unequal segments.   *)
LEMMA WriteChunkInv == ASSUME IInv, NEW t \in Threads, WriteChunk(t) PROVE Core'
<1> DEFINE r == NextChunk(io[t])
           v == IF Own(t) THEN t ELSE Stray
<1> USE DEF IInv, Core
<1>1. /\ At(t) \in Chunks /\ Moving(t) /\ Transferring(t) /\ pc[t] = "open"
      /\ io[t] \in Requests /\ WellFormed(io[t])
      /\ io[t].segs[io[t].seg] \in Nat \ {0} /\ Head(io[t].segs) \in Nat
      /\ (~ Uneven(io[t].segs) => io[t].segs[io[t].seg] = Head(io[t].segs))
  BY MovingBounds, Within DEF WriteChunk, Moving, IoKept
<1>2. r \in Requests /\ ~ r.wiped /\ WellFormed(r) /\ io' = [io EXCEPT ![t] = r]
  BY <1>1, NextChunkFormed DEF WriteChunk, IoKept
<1>3. \A u \in Threads : io'[u] = IF u = t THEN r ELSE io[u]
  BY <1>2 DEF TypeOK
<1>4. ~ Belongs(t) => Uneven(io[t].segs)
  BY <1>1 DEF Belongs, Own, WellFormed
<1>5. data' = [data EXCEPT ![At(t)] = Encrypt(v)] /\ v \in Threads \cup {Stray}
  BY DEF WriteChunk
<1>6. content' \in [Chunks -> Threads \cup {Gibberish}] /\ mislaid' \subseteq Chunks
  BY <1>1 DEF TypeOK, WriteChunk
<1>7. TypeOK'
  BY <1>1, <1>2, <1>5, <1>6 DEF TypeOK, WriteChunk, timers
<1>8. OpenKept'
  BY KeptFrame DEF WriteChunk
<1>9. IoKept'
  <2>1. \A q : WellFormed(q)' <=> WellFormed(q)
    BY DEF WellFormed, Uneven, WriteChunk
  <2> QED
    BY <1>1, <1>2, <1>3, <2>1
       DEF WriteChunk, IoKept, IoOpen, IoWiped, Pass, InRange, Piece
<1>10. \A s \in Chunks : BeingWritten(s) /\ s # At(t) => BeingWritten(s)'
  BY <1>3 DEF BeingWritten, At
<1>11. \A s \in Chunks : s # At(t) =>
         data'[s] = data[s] /\ content'[s] = content[s] /\ (s \in mislaid' <=> s \in mislaid)
  BY <1>5 DEF TypeOK, WriteChunk
<1>12. ~ Unexamined /\ (Unexamined' <=> Unexamined)
  BY <1>1, OpenExamined DEF WriteChunk, Unexamined
<1>13. At(t) \notin mislaid' => Decrypt(data'[At(t)]) = content'[At(t)]
  <2>1. CASE Belongs(t)
    <3>1. data'[At(t)] = Encrypt(t) /\ content'[At(t)] = t
      BY <1>1, <1>5, <2>1 DEF TypeOK, WriteChunk, Belongs
    <3>2. Decrypt(Encrypt(t)) = t
      BY BlankAssumption DEF Decrypt, Encrypt
    <3> QED
      BY <3>1, <3>2
  <2>2. CASE ~ Belongs(t)
    BY <1>4, <2>2 DEF WriteChunk
  <2> QED
    BY <2>1, <2>2
<1>14. ASSUME NEW s \in Chunks, s \notin mislaid'
       PROVE  BeingWritten(s)' \/ Decrypt(data'[s]) = content'[s]
  <2>1. CASE s = At(t)
    BY <1>13, <1>14, <2>1
  <2>2. CASE s # At(t)
    BY <1>10, <1>11, <1>12, <1>14, <2>2 DEF DataKept
  <2> QED
    BY <2>1, <2>2
<1>15. ContentLost' /\ DataKept'
  BY <1>12, <1>14 DEF ContentLost, DataKept, Decrypt
<1> QED
  BY <1>7, <1>8, <1>9, <1>15

(* FetchNext keeps the types and leaves dev->lock with its holder or free. *)
LEMMA FetchNextType ==
    ASSUME TypeOK, DriverLock, req # Nobody, FetchNext \/ FetchNext_Discarded
    PROVE  /\ queue' \subseteq Threads /\ req' \in Threads \cup {Nobody}
           /\ lock' \in {lock, Nobody} /\ (req' # Nobody => lock' = Driver)
BY DEF TypeOK, DriverLock, FetchNext, FetchNext_Discarded, Unlocked

(* Before a segment is ended it has been moved. *)
LEMMA PassedNotWiped ==
    ASSUME IInv, NEW t \in Threads, io[t] # NoIO, io[t].kind = "fs" => io[t].seg > Pass(t)
    PROVE  io[t] \in Requests /\ WellFormed(io[t]) /\ pc[t] = "open" /\ ~ io[t].wiped
<1>1. io[t] \in Requests /\ WellFormed(io[t]) /\ pc[t] = "open"
  BY DEF IInv, Core, TypeOK, IoKept, IoOpen
<1>2. Pass(t) \in Nat /\ io[t].seg \in Nat
  BY <1>1, Segments DEF WellFormed, Pass, Requests
<1> QED
  BY <1>1, <1>2 DEF IInv, Core, IoKept, IoWiped

LEMMA NoIOType == NoIO \in Requests /\ ~ NoIO.wiped
BY DEF NoIO, Requests

LEMMA EndSegmentInv ==
    ASSUME IInv, NEW t \in Threads, EndSegment(t)
    PROVE  Core' /\ DriverLock'
<1> DEFINE q == io[t]
           r == Whole(q.write, q.kind, q.first + Piece(t), Tail(q.segs))
<1>1. q \in Requests /\ WellFormed(q) /\ pc[t] = "open" /\ ~ q.wiped /\ req = t /\ q # NoIO
  BY PassedNotWiped DEF EndSegment
<1>2. lock = Driver /\ lock \notin Threads /\ req # Nobody
  BY <1>1, ThreadsAssumption DEF IInv, DriverLock
<1>3. /\ UNCHANGED <<request_mode, users, media_change, data, content, timers, bd_mutex, pc>>
      /\ mislaid' = mislaid /\ mislaid \subseteq Chunks
  BY DEF EndSegment, media, ghosts, IInv, Core, TypeOK
<1>4. CASE q.kind = "other" \/ Len(q.segs) = 1
  <2>1. io' = [io EXCEPT ![t] = NoIO] /\ AfterRequest(t)
    BY <1>4 DEF EndSegment
  <2>2. /\ queue' \subseteq Threads /\ req' \in Threads \cup {Nobody}
        /\ lock' \in {lock, Nobody} /\ (req' # Nobody => lock' = Driver)
    BY <1>2, <2>1, FetchNextType DEF AfterRequest, IInv, Core, TypeOK
  <2>3. Core'
    BY <1>1, <1>2, <1>3, <2>1, <2>2, NoIOType, RequestFrame
  <2> QED
    BY <2>2, <2>3 DEF DriverLock
<1>5. CASE ~ (q.kind = "other" \/ Len(q.segs) = 1)
  <2>1. io' = [io EXCEPT ![t] = r] /\ UNCHANGED <<lock, queue, req>>
    BY <1>5 DEF EndSegment, IInv, Core, TypeOK
  <2>2. /\ Tail(q.segs) \in Seq(Nat \ {0}) /\ Tail(q.segs) # <<>>
        /\ Piece(t) \in Nat
    <3>1. q.segs \in Seq(Nat \ {0}) /\ q.segs # <<>> /\ Len(q.segs) # 1
      BY <1>1, <1>5 DEF WellFormed
    <3>2. Tail(q.segs) \in Seq(Nat \ {0}) /\ Tail(q.segs) # <<>>
      BY <3>1, Segments
    <3>3. Head(q.segs) = q.segs[1] /\ q.segs[1] \in Nat
      BY <3>1, Segments
    <3> QED
      BY <3>2, <3>3 DEF Piece
  <2>3. q.write \in BOOLEAN /\ q.kind \in Kinds \cup {"none"} /\ q.first \in Nat
    BY <1>1 DEF Requests
  <2>4. q.first + Piece(t) \in Nat
    BY <2>2, <2>3
  <2>5. r \in Requests /\ ~ r.wiped /\ WellFormed(r)
    BY <2>2, <2>3, <2>4, WholeFormed
  <2>6. queue' \subseteq Threads /\ req' \in Threads \cup {Nobody}
    BY <2>1 DEF IInv, Core, TypeOK
  <2>7. Core'
    BY <1>1, <1>2, <1>3, <2>1, <2>5, <2>6, RequestFrame
  <2> QED
    BY <2>1, <2>7 DEF DriverLock, IInv
<1> QED
  BY <1>4, <1>5

LEMMA EndBioInv == ASSUME IInv, NEW t \in Threads, EndBio(t) PROVE Core'
<1>1. ~ io[t].wiped
  BY PassedNotWiped DEF EndBio
<1>2. io' = [io EXCEPT ![t] = NoIO]
      /\ UNCHANGED <<request_mode, media, lock, timers, bd_mutex, pc, queue, req>>
  BY DEF EndBio
<1>3. mislaid' \subseteq Chunks /\ queue' \subseteq Threads /\ req' \in Threads \cup {Nobody}
  BY <1>2 DEF IInv, Core, TypeOK, media, ghosts
<1> QED
  BY <1>1, <1>2, <1>3, NoIOType, RequestFrame DEF media, ghosts

-----------------------------------------------------------------------------
(* The other steps leave the request function and dev->lock apart. *)
LEMMA CallFinishDriver ==
    ASSUME IInv, NEW t \in Threads,
           \/ Call(t) \/ Finish(t)
           \/ Wipe(t) \/ WriteChunk(t) \/ ReadSegment(t) \/ Refuse(t) \/ EndBio(t)
    PROVE  DriverLock'
<1> USE ThreadsAssumption DEF IInv, DriverLock
<1>1. CASE Call(t)
  BY <1>1 DEF Call, Open, Rescan, Close, Submit, requests
<1>2. CASE Finish(t)
  BY <1>2 DEF Finish, DelTimer, OpenLock, Locked, Revalidate, Erase, Count, Unlocked,
              RescanDone, Release, requests
<1>3. CASE Wipe(t) \/ WriteChunk(t) \/ ReadSegment(t) \/ Refuse(t) \/ EndBio(t)
  BY <1>3 DEF Wipe, WriteChunk, ReadSegment, Refuse, EndBio
<1> QED
  BY <1>1, <1>2, <1>3

LEMMA CallInv == ASSUME IInv, NEW t \in Threads, Call(t) PROVE Core'
<1>1. CASE Open(t)
  BY <1>1, OpenInv
<1>2. CASE Rescan(t)
  BY <1>2, RescanInv
<1>3. CASE Close(t)
  BY <1>3, CloseInv
<1>4. CASE \E write \in BOOLEAN, kind \in Kinds, extent \in Extents :
             Submit(t, write, kind, extent[1], extent[2])
  BY <1>4, SubmitInv
<1> QED
  BY <1>1, <1>2, <1>3, <1>4 DEF Call

LEMMA FinishInv == ASSUME IInv, NEW t \in Threads, Finish(t) PROVE Core'
<1>1. CASE DelTimer(t)
  BY <1>1, DelTimerInv
<1>2. CASE OpenLock(t)
  BY <1>2, OpenLockInv
<1>3. CASE Revalidate(t)
  BY <1>3, RevalidateInv
<1>4. CASE Erase(t)
  BY <1>4, EraseInv
<1>5. CASE Count(t)
  BY <1>5, CountInv
<1>6. CASE RescanDone(t)
  BY <1>6, RescanDoneInv
<1>7. CASE Release(t)
  BY <1>7, ReleaseInv
<1> QED
  BY <1>1, <1>2, <1>3, <1>4, <1>5, <1>6, <1>7 DEF Finish

LEMMA NextIInv == IInv /\ [Next]_vars => IInv'
<1> SUFFICES ASSUME IInv, [Next]_vars PROVE IInv'
  OBVIOUS
<1>1. ASSUME NEW t \in Threads, Call(t) PROVE IInv'
  BY <1>1, CallInv, CallFinishDriver DEF IInv
<1>2. ASSUME NEW t \in Threads, Finish(t) PROVE IInv'
  BY <1>2, FinishInv, CallFinishDriver DEF IInv
<1>3. ASSUME NEW t \in Threads, Transfer(t) PROVE IInv'
  <2>1. CASE Wipe(t)
    BY <2>1, WipeInv, CallFinishDriver DEF IInv
  <2>2. CASE WriteChunk(t)
    BY <2>2, WriteChunkInv, CallFinishDriver DEF IInv
  <2>3. CASE ReadSegment(t) \/ Refuse(t)
    BY <2>3, NextInv, CallFinishDriver DEF IInv
  <2>4. CASE EndSegment(t)
    BY <2>4, EndSegmentInv DEF IInv
  <2>5. CASE EndBio(t)
    BY <2>5, EndBioInv, CallFinishDriver DEF IInv
  <2> QED
    BY <1>3, <2>1, <2>2, <2>3, <2>4, <2>5 DEF Transfer
<1>4. CASE Fetch
  BY <1>4, FetchInv DEF IInv, DriverLock, Fetch, Locked
<1>5. CASE Fire
  BY <1>5, FireInv DEF IInv, DriverLock, Fire, requests
<1>6. CASE Invalidate
  BY <1>6, InvalidateInv DEF IInv, DriverLock, Invalidate, requests
<1>7. CASE UNCHANGED vars
  <2>1. OpenKept'
    BY <1>7, KeptFrame DEF IInv, Core, vars, media, timers
  <2>2. (TypeOK /\ IoKept /\ ContentLost /\ DataKept /\ DriverLock)'
    BY <1>7 DEF IInv, Core, TypeOK, IoKept, IoOpen, IoWiped, WellFormed, Uneven, Pass,
                InRange, Piece, ghosts, ContentLost, DataKept,
                Unexamined, BeingWritten, At, DriverLock, vars, media, timers, requests
  <2> QED
    BY <2>1, <2>2 DEF IInv, Core
<1> QED
  BY <1>1, <1>2, <1>3, <1>4, <1>5, <1>6, <1>7 DEF Next

-----------------------------------------------------------------------------
(* The inductive invariant: who holds the locks and is counted as a user,    *)
(* where the medium can be changed or erased, and what the sectors hold.     *)
THEOREM OsurdInvariance == Spec => []IInv
<1>1. Init => IInv
  BY InitIInv
<1> QED
  BY <1>1, NextIInv, PTL DEF Spec

(* Every variable keeps its type; dev->users never goes below zero.          *)
THEOREM OsurdTypeCorrect == Spec => []TypeOK
<1>1. IInv => TypeOK
  BY DEF IInv, Core
<1> QED
  BY <1>1, OsurdInvariance, PTL

(* The sanity check of osurd_invalidate never fails and no pending timer is  *)
(* added, for any number of openers.                                         *)
THEOREM TimerAlwaysStopped == Spec => []TimerStopped
<1>1. IInv => TimerStopped
  BY DEF IInv, Core, OpenKept
<1> QED
  BY <1>1, OsurdInvariance, PTL

LEMMA ReadsFollow == IInv => ReadsAsWritten
<1> SUFFICES ASSUME IInv, users > 0 PROVE ~ Unexamined
  BY DEF IInv, Core, DataKept, ReadsAsWritten
<1>1. users # 0
  BY DEF IInv, Core, TypeOK
<1>2. ~ media_change
  BY <1>1, ChangeNoUsers DEF IInv, Core, OpenKept
<1> QED
  BY <1>1, <1>2 DEF IInv, Core, OpenKept, FirstUser, Unexamined

(* Users read what was written since the medium was last taken away, in      *)
(* every request mode, but for sectors that unequal segments got wrong: those *)
(* that the others touch always hold what was written to them.               *)
THEOREM AlwaysReadsAsWritten == Spec => []ReadsAsWritten
BY ReadsFollow, OsurdInvariance, PTL

-----------------------------------------------------------------------------
(* Loading and unloading around the device, for any number of devices and    *)
(* every way of setting them up.                                             *)

Held == {"allocate", "setup", "loaded", "timer", "release", "finish"}
Stages == Held \cup {"out", "register", "failed", "unloaded"}

ModuleType ==
    /\ stage \in Stages /\ which \in Indices
    /\ dev \in [Indices -> [data : Nat, timer : BOOLEAN, queue : BOOLEAN, gd : BOOLEAN]]
    /\ ours \in Indices
    /\ stage \in {"out", "register", "allocate", "loaded"} => which = 0

(* What osurd_init has got by each stage, and osurd_exit has yet to give up. *)
HeldByStage ==
    /\ stage = "register" \/ stage \in Held => tfm
    /\ Devices <=> stage \in Held \ {"allocate"}
    /\ stage = "unloaded" => ~ tfm /\ ~ registered

(* Before the loop of osurd_init there is nothing, in it nothing of the      *)
(* devices to come.                                                          *)
NotYet(i) == \/ stage \in {"out", "register", "allocate", "failed"}
             \/ stage = "setup" /\ i >= which
(* The loop of osurd_exit has released the devices before this one.          *)
Released(i) == \/ stage \in {"timer", "release"} /\ i < which
               \/ stage \in {"finish", "unloaded"}
DevicesByStage ==
    \A i \in Indices : NotYet(i) \/ Released(i) => ~ dev[i].gd /\ ~ dev[i].queue

(* vmalloc hands out the first free place: while devices are set up those    *)
(* in use are the first.                                                     *)
HeapCompact == stage = "setup" => \E k \in 0 .. which : heap = 1 .. k

(* What is in use belongs to a device that osurd_exit has yet to release, and *)
(* a disk that can be opened has its memory.                                 *)
HeapOwned ==
    /\ \A a \in heap : \E i \in Indices : dev[i].data = a /\ ~ NotYet(i) /\ ~ Released(i)
    /\ stage \in {"setup", "loaded"} => \A i \in Indices : dev[i].gd => dev[i].data \in heap

(* Only a device that can be opened has users, and once its timer was        *)
(* stopped for good nothing starts it again.                                 *)
Stopped == \/ stage \in {"out", "register", "allocate", "failed", "finish", "unloaded"}
           \/ stage = "timer" /\ ours < which
           \/ stage = "release" /\ ours <= which
UsersByStage ==
    /\ (\E t \in Threads : pc[t] # "closed") => CanOpen
    /\ Stopped => ~ timer /\ ~ handler

ModuleInv == /\ IInv /\ ModuleType /\ HeldByStage /\ DevicesByStage
             /\ HeapCompact /\ HeapOwned /\ UsersByStage

LEMMA ModuleInitInv == ModuleInit => ModuleInv
<1> SUFFICES ASSUME ModuleInit PROVE ModuleInv
  OBVIOUS
<1>1. IInv
  BY InitIInv DEF ModuleInit
<1>2. ModuleType /\ HeldByStage /\ DevicesByStage /\ HeapCompact /\ HeapOwned
  BY DevicesAssumption
     DEF ModuleInit, ModuleType, HeldByStage, DevicesByStage, HeapCompact, HeapOwned,
         Stages, Held, Indices, NotSetUp, NULL
<1>3. UsersByStage
  BY DEF ModuleInit, Init, UsersByStage
<1> QED
  BY <1>1, <1>2, <1>3 DEF ModuleInv

(* Without users nobody arms the timer, and only an armed one fires. *)
LEMMA TimerNeedsUser ==
    ASSUME TypeOK, Next, \A t \in Threads : pc[t] = "closed"
    PROVE  (timer' => timer) /\ (handler' => handler \/ timer)
<1>1. ASSUME NEW t \in Threads, Call(t) \/ Transfer(t) PROVE UNCHANGED timers
  BY <1>1 DEF Call, Open, Rescan, Close, Submit, Transfer, Wipe, WriteChunk, ReadSegment,
              Refuse, EndSegment, EndBio, timers
<1>2. ASSUME NEW t \in Threads, Finish(t) PROVE FALSE
  BY <1>2 DEF Finish, DelTimer, OpenLock, Revalidate, Erase, Count, RescanDone, Release
<1>3. CASE Fetch \/ Fire \/ Invalidate
  BY <1>3 DEF Fetch, Fire, Invalidate, timers
<1> QED
  BY <1>1, <1>2, <1>3 DEF Next, timers

(* A step of the device or a thread, while it is there to be used. *)
LEMMA DiskInv == ASSUME ModuleInv, Disk PROVE ModuleInv'
<1>1. IInv'
  BY NextIInv DEF ModuleInv, Disk
<1>2. (ModuleType /\ HeldByStage /\ DevicesByStage /\ HeapCompact /\ HeapOwned)'
  BY DEF ModuleInv, Disk, module, ModuleType, HeldByStage, DevicesByStage, HeapCompact,
         HeapOwned, NotYet, Released
<1>3. UsersByStage'
  <2>1. CanOpen' <=> CanOpen
    BY DEF Disk, module, CanOpen
  <2>2. Stopped' <=> Stopped
    BY DEF Disk, module, Stopped
  <2>3. (\E t \in Threads : pc'[t] # "closed") => CanOpen
    BY DEF ModuleInv, UsersByStage, Disk
  <2>4. ASSUME Stopped PROVE ~ timer' /\ ~ handler'
    <3>1. \A t \in Threads : pc[t] = "closed"
      BY <2>4 DEF ModuleInv, UsersByStage, Stopped, CanOpen
    <3> QED
      BY <2>4, <3>1, TimerNeedsUser DEF ModuleInv, IInv, Core, UsersByStage, Disk
  <2> QED
    BY <2>1, <2>2, <2>3, <2>4 DEF UsersByStage
<1> QED
  BY <1>1, <1>2, <1>3 DEF ModuleInv

(* The place vmalloc finds is the next one. *)
LEMMA PlaceNext ==
    ASSUME ModuleInv, stage = "setup", NEW k \in 0 .. which, heap = 1 .. k
    PROVE  Place = k + 1
<1>1. k + 1 \in 1 .. ndevices /\ k + 1 \notin heap /\ \A b \in 1 .. k : b \in heap
  BY DevicesAssumption DEF ModuleInv, ModuleType, Indices
<1>2. \A a \in 1 .. ndevices :
        a \notin heap /\ (\A b \in 1 .. a - 1 : b \in heap) => a = k + 1
  BY DevicesAssumption
<1> QED
  BY <1>1, <1>2 DEF Place

(* osurd_init up to its loop. *)
LEMMA InitStepsInv ==
    ASSUME ModuleInv, AllocCipher \/ Register \/ Allocate, UNCHANGED vars
    PROVE  ModuleInv'
<1>0. IInv'
  BY NextIInv DEF ModuleInv
<1>1. stage \in {"out", "register", "allocate"}
      /\ stage' \in {"register", "allocate", "setup", "failed"}
      /\ UNCHANGED <<which, dev, heap, ours>>
  BY DEF AllocCipher, Register, Allocate
<1>2. which = 0 /\ heap = {} /\ \A i \in Indices : NotYet(i)
  BY <1>1 DEF ModuleInv, ModuleType, HeapOwned, NotYet
<1>3. ModuleType' /\ HeapCompact' /\ HeapOwned' /\ DevicesByStage'
  <2>1. HeapCompact'
    BY <1>1, <1>2 DEF HeapCompact
  <2>2. \A i \in Indices : ~ dev[i].gd /\ ~ dev[i].queue
    BY <1>2 DEF ModuleInv, DevicesByStage
  <2> QED
    BY <1>1, <1>2, <2>1, <2>2
       DEF ModuleInv, ModuleType, Stages, Held, DevicesByStage, HeapOwned
<1>4. HeldByStage'
  BY DEF ModuleInv, HeldByStage, Held, AllocCipher, Register, Allocate
<1>5. UsersByStage'
  <2>1. Stopped /\ ~ CanOpen
    BY <1>1 DEF Stopped, CanOpen
  <2> QED
    BY <2>1 DEF ModuleInv, UsersByStage, vars, timers
<1> QED
  BY <1>0, <1>3, <1>4, <1>5 DEF ModuleInv

(* setup_device, whatever it fails to get. *)
LEMMA SetUpInv ==
    ASSUME ModuleInv, NEW missing \in {"nothing", "memory", "queue", "disk"},
           SetUp(missing), UNCHANGED vars
    PROVE  ModuleInv'
<1> USE DevicesAssumption DEF ModuleInv, Indices
<1>0. IInv'
  BY NextIInv
<1>1. stage = "setup" /\ stage' \in {"setup", "loaded"}
      /\ (stage' = "setup" => which' = which + 1) /\ (stage' = "loaded" => which' = 0)
      /\ UNCHANGED <<tfm, registered, Devices, ours>>
  BY DEF SetUp
<1>2. which' \in Indices /\ which \in Indices
  BY DEF SetUp, ModuleType
<1>3. PICK k \in 0 .. which : heap = 1 .. k
  BY <1>1 DEF HeapCompact
<1>4. Place = k + 1
  BY <1>1, <1>3, PlaceNext
<1>5. heap' = heap \/ heap' = 1 .. k + 1
  <2>1. 1 .. k + 1 = (1 .. k) \cup {k + 1}
    BY <1>2
  <2> QED
    BY <1>3, <1>4, <2>1 DEF SetUp, Kept
<1>6. /\ \A i \in Indices \ {which} : dev'[i] = dev[i]
      /\ dev'[which].gd => dev'[which].data \in heap'
      /\ heap' # heap => heap' = heap \cup {dev'[which].data}
      /\ dev'[which] \in [data : Nat, timer : BOOLEAN, queue : BOOLEAN, gd : BOOLEAN]
  <2>1. dev \in [Indices -> [data : Nat, timer : BOOLEAN, queue : BOOLEAN, gd : BOOLEAN]]
    BY DEF ModuleType
  <2>2. \A i \in Indices \ {which} : dev'[i] = dev[i]
    BY <1>2, <2>1 DEF SetUp
  <2>3. CASE missing = "memory"
    <3>1. dev'[which] = NotSetUp /\ heap' = heap
      BY <1>2, <2>1, <2>3 DEF SetUp, Kept
    <3> QED
      BY <2>2, <3>1 DEF NotSetUp, NULL
  <2>4. CASE missing # "memory"
    <3>1. PICK queued \in BOOLEAN, added \in BOOLEAN :
            /\ added <=> missing = "nothing"
            /\ dev'[which] = [data |-> Place, timer |-> TRUE, queue |-> queued,
                              gd |-> added]
      <4>1. (missing # "queue") \in BOOLEAN /\ (missing = "nothing") \in BOOLEAN
        OBVIOUS
      <4> QED
        BY <1>2, <2>1, <2>4, <4>1 DEF SetUp
    <3>2. heap' = IF missing = "nothing" THEN heap \cup {Place} ELSE heap
      BY DEF SetUp, Kept
    <3>3. Place \in Nat
      BY <1>2, <1>4
    <3>4. dev'[which] \in [data : Nat, timer : BOOLEAN, queue : BOOLEAN, gd : BOOLEAN]
      BY <3>1, <3>3
    <3>5. dev'[which].data = Place /\ dev'[which].gd = added
      BY <3>1
    <3> QED
      BY <2>2, <3>1, <3>2, <3>4, <3>5
  <2> QED
    BY <2>3, <2>4
<1>7. ModuleType'
  <2>1. DOMAIN dev' = Indices /\ dev' = [i \in Indices |-> dev'[i]]
    BY DEF SetUp, ModuleType
  <2> QED
    BY <1>1, <1>2, <1>6, <2>1 DEF ModuleType, Stages, Held
<1>8. HeldByStage'
  BY <1>1 DEF HeldByStage, Held
<1>9. DevicesByStage'
  BY <1>1, <1>2, <1>6 DEF DevicesByStage, NotYet, Released
<1>10. HeapCompact'
  <2>1. which \in Nat /\ k \in Nat /\ k <= which
    BY <1>2
  <2> QED
    BY <1>1, <1>3, <1>5, <2>1 DEF HeapCompact
<1>11. HeapOwned'
  <2>1. \A i \in Indices : ~ NotYet(i) \/ i = which => ~ NotYet(i)' /\ ~ Released(i)'
    BY <1>1, <1>2 DEF NotYet, Released
  <2>2. \A i \in Indices : i >= which => i = which \/ ~ dev'[i].gd
    BY <1>1, <1>2, <1>6 DEF DevicesByStage, NotYet
  <2>3. NotYet(which)
    BY <1>1, <1>2 DEF NotYet
  <2>4. ASSUME NEW a \in heap'
        PROVE  \E i \in Indices : dev'[i].data = a /\ ~ NotYet(i)' /\ ~ Released(i)'
    <3>1. CASE a \in heap
      BY <3>1, <1>6, <2>1, <2>3 DEF HeapOwned
    <3>2. CASE a \notin heap
      BY <3>2, <1>2, <1>6, <2>1
    <3> QED
      BY <3>1, <3>2
  <2>5. ASSUME NEW i \in Indices, dev'[i].gd PROVE dev'[i].data \in heap'
    <3>1. heap \subseteq heap'
      BY <1>3, <1>5
    <3> QED
      BY <1>1, <1>6, <2>5, <3>1 DEF HeapOwned
  <2> QED
    BY <2>4, <2>5 DEF HeapOwned
<1>12. UsersByStage'
  <2>1. CanOpen => CanOpen'
    BY <1>1, <1>2, <1>6 DEF CanOpen, DevicesByStage, NotYet, ModuleType
  <2>2. ~ Stopped'
    BY <1>1 DEF Stopped
  <2> QED
    BY <2>1, <2>2 DEF UsersByStage, vars
<1> QED
  BY <1>0, <1>7, <1>8, <1>9, <1>10, <1>11, <1>12

(* osurd_exit begins when nobody uses the device, and meets no user after.   *)
LEMMA UnloadInv == ASSUME ModuleInv, Unload, UNCHANGED vars PROVE ModuleInv'
<1> USE DEF ModuleInv
<1>0. IInv'
  BY NextIInv
<1>1. which = 0 /\ stage = "loaded" /\ stage' = "timer"
      /\ UNCHANGED <<which, tfm, registered, Devices, dev, heap, ours>>
  BY DEF Unload, ModuleType
<1>2. ModuleType' /\ HeldByStage' /\ HeapCompact'
  BY <1>1 DEF ModuleType, HeldByStage, HeapCompact, Stages, Held
<1>3. DevicesByStage' /\ HeapOwned'
  BY <1>1 DEF DevicesByStage, HeapOwned, NotYet, Released, Indices
<1>4. UsersByStage'
  BY <1>1 DEF Unload, UsersByStage, Stopped, vars, timers, ModuleType, Indices
<1> QED
  BY <1>0, <1>2, <1>3, <1>4

(* del_timer_sync in osurd_exit, of this device's timer or another's. *)
LEMMA ExitTimerInv == ASSUME ModuleInv, ExitTimer PROVE ModuleInv'
<1> USE DEF ModuleInv
<1>1. stage = "timer" /\ stage' = "release"
      /\ UNCHANGED <<which, tfm, registered, Devices, dev, heap, ours>>
      /\ UNCHANGED <<request_mode, media, lock, handler, bd_mutex, pc, requests>>
      /\ (timer' => timer) /\ timer' \in BOOLEAN
      /\ (which = ours => ~ timer' /\ ~ handler')
  BY DEF ExitTimer, TimerQuiet, IInv, Core, TypeOK
<1>2. \A t \in Threads : pc[t] = "closed"
  BY <1>1 DEF UsersByStage, CanOpen
<1>3. IInv'
  <2>1. {t \in Threads : Using(t)}' = {t \in Threads : Using(t)}
    BY <1>1 DEF Using
  <2>2. OpenKept'
    BY <1>1, <1>2, <2>1
       DEF IInv, Core, OpenKept, MutexHeld, LockHeld, UsersExact, TimerStopped, ChangeUnused,
           FirstUser, media
  <2>3. (TypeOK /\ IoKept /\ ContentLost /\ DataKept /\ DriverLock)'
    BY <1>1 DEF IInv, Core, TypeOK, IoKept, IoOpen, IoWiped, WellFormed, Uneven, Pass,
                InRange, Piece, ghosts, ContentLost, DataKept,
                Unexamined, BeingWritten, At, DriverLock, media, requests
  <2> QED
    BY <2>2, <2>3 DEF IInv, Core
<1>4. ModuleType' /\ HeldByStage' /\ HeapCompact'
  BY <1>1 DEF ModuleType, HeldByStage, HeapCompact, Stages, Held
<1>5. DevicesByStage' /\ HeapOwned'
  BY <1>1 DEF DevicesByStage, HeapOwned, NotYet, Released
<1>6. UsersByStage'
  BY <1>1, <1>2 DEF UsersByStage, Stopped, ModuleType, Indices
<1> QED
  BY <1>3, <1>4, <1>5, <1>6

(* The end of a round of osurd_exit's loop. *)
LEMMA ReleaseDeviceInv == ASSUME ModuleInv, ReleaseDevice, UNCHANGED vars PROVE ModuleInv'
<1> USE DevicesAssumption DEF ModuleInv, Indices
<1>0. IInv'
  BY NextIInv
<1>1. stage = "release" /\ which \in Indices
      /\ UNCHANGED <<tfm, registered, Devices, ours>>
      /\ heap' = heap \ {dev[which].data}
      /\ \/ which + 1 < ndevices /\ which' = which + 1 /\ stage' = "timer"
         \/ which + 1 = ndevices /\ which' = which /\ stage' = "finish"
  BY DEF ReleaseDevice, Freed, ModuleType
<1>2. /\ \A i \in Indices : dev'[i].data = dev[i].data
      /\ \A i \in Indices \ {which} : dev'[i] = dev[i]
      /\ ~ dev'[which].gd /\ ~ dev'[which].queue
      /\ dev' \in [Indices -> [data : Nat, timer : BOOLEAN, queue : BOOLEAN, gd : BOOLEAN]]
  BY <1>1 DEF ReleaseDevice, ModuleType
<1>3. ModuleType' /\ HeldByStage' /\ HeapCompact'
  BY <1>1, <1>2 DEF ModuleType, HeldByStage, HeapCompact, Stages, Held
<1>4. \A i \in Indices : Released(i)' <=> Released(i) \/ i = which
  BY <1>1 DEF Released
<1>5. DevicesByStage'
  BY <1>1, <1>2, <1>4 DEF DevicesByStage, NotYet
<1>6. HeapOwned'
  BY <1>1, <1>2, <1>4 DEF HeapOwned, NotYet
<1>7. UsersByStage'
  BY <1>1 DEF UsersByStage, CanOpen, Stopped, vars, timers, ModuleType
<1> QED
  BY <1>0, <1>3, <1>5, <1>6, <1>7

(* The last of osurd_exit. *)
LEMMA ExitFinishInv == ASSUME ModuleInv, ExitFinish, UNCHANGED vars PROVE ModuleInv'
<1> USE DEF ModuleInv
<1>0. IInv'
  BY NextIInv
<1>1. stage = "finish" /\ stage' = "unloaded" /\ UNCHANGED <<which, dev, heap, ours>>
  BY DEF ExitFinish
<1>2. ModuleType' /\ HeldByStage' /\ HeapCompact'
  BY <1>1 DEF ModuleType, HeldByStage, HeapCompact, Stages, Held, ExitFinish
<1>3. DevicesByStage' /\ HeapOwned'
  BY <1>1 DEF DevicesByStage, HeapOwned, NotYet, Released
<1>4. UsersByStage'
  BY <1>1 DEF UsersByStage, CanOpen, Stopped, vars, timers
<1> QED
  BY <1>0, <1>2, <1>3, <1>4

LEMMA ModuleFrame == ASSUME ModuleInv, UNCHANGED <<vars, module>> PROVE ModuleInv'
<1>1. IInv'
  BY NextIInv DEF ModuleInv
<1>2. (ModuleType /\ HeldByStage /\ DevicesByStage /\ HeapCompact /\ HeapOwned)'
  BY DEF ModuleInv, module, ModuleType, HeldByStage, DevicesByStage, HeapCompact,
         HeapOwned, NotYet, Released
<1>3. UsersByStage'
  BY DEF ModuleInv, UsersByStage, CanOpen, Stopped, vars, module, timers
<1> QED
  BY <1>1, <1>2, <1>3 DEF ModuleInv

(* The invariant holds of loading, use and unloading together. *)
THEOREM ModuleInvariance == ModuleSpec => []ModuleInv
<1>1. ModuleInv /\ [ModuleNext]_<<vars, module>> => ModuleInv'
  <2> SUFFICES ASSUME ModuleInv, [ModuleNext]_<<vars, module>> PROVE ModuleInv'
    OBVIOUS
  <2>1. CASE Disk
    BY <2>1, DiskInv
  <2>2. CASE LoadOrUnload
    BY <2>2, InitStepsInv, SetUpInv, UnloadInv, ExitTimerInv, ReleaseDeviceInv,
       ExitFinishInv, ModuleFrame DEF LoadOrUnload, ExitSpins
  <2>3. CASE UNCHANGED <<vars, module>>
    BY <2>3, ModuleFrame
  <2> QED
    BY <2>1, <2>2, <2>3 DEF ModuleNext, Over
<1> QED
  BY ModuleInitInv, <1>1, PTL DEF ModuleSpec

(* Whoever uses the device finds its memory and the cipher, and the timer    *)
(* finds the device, for any number of devices and users.                    *)
THEOREM AlwaysAlive == ModuleSpec => []DeviceAlive
<1>1. ModuleInv => DeviceAlive
  <2> SUFFICES ASSUME ModuleInv PROVE DeviceAlive
    OBVIOUS
  <2>1. ASSUME NEW t \in Threads, pc[t] # "closed" PROVE tfm /\ dev[ours].data \in heap
    BY <2>1 DEF ModuleInv, UsersByStage, CanOpen, HeapOwned, HeldByStage, Held, ModuleType
  <2>2. ASSUME timer \/ handler PROVE Devices
    BY <2>2 DEF ModuleInv, UsersByStage, Stopped, HeldByStage, ModuleType, Stages, Held
  <2> QED
    BY <2>1, <2>2 DEF DeviceAlive
<1> QED
  BY <1>1, ModuleInvariance, PTL

(* osurd_exit leaves nothing behind, also of devices set up in part. *)
THEOREM AlwaysNothingLeft == ModuleSpec => []NothingLeft
<1>1. ModuleInv => NothingLeft
  BY DEF ModuleInv, NothingLeft, HeapOwned, HeldByStage, DevicesByStage, Released, Held
<1> QED
  BY <1>1, ModuleInvariance, PTL

(* What was proved of the device alone holds around loading and unloading.   *)
THEOREM ModuleKeepsDisk ==
    ModuleSpec => [](TypeOK /\ TimerStopped /\ ReadsAsWritten)
<1>1. ModuleInv => TypeOK /\ TimerStopped /\ ReadsAsWritten
  BY ReadsFollow DEF ModuleInv, IInv, Core, OpenKept
<1> QED
  BY <1>1, ModuleInvariance, PTL
=============================================================================
