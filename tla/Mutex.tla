-------------------------------- MODULE Mutex --------------------------------
(* mutex_sum, the pthread mutex that the threads of con1/pc.c, and those of  *)
(* con2/dining_problem.c, work under.                                        *)
CONSTANT Nobody

VARIABLES mutex_sum, \* the thread that holds it
          pc

Goto(t, l) == pc' = [pc EXCEPT ![t] = l]

(* Fault: threads walk in on each other. *)
MutexFree_Ignored == TRUE
MutexFree == mutex_sum = Nobody

Lock(t, from, to) ==
    /\ pc[t] = from /\ MutexFree
    /\ mutex_sum' = t
    /\ Goto(t, to)
=============================================================================
