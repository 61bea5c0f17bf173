----------------------------- MODULE OsurdModule -----------------------------
(* Loading and unloading the driver of hw3/osurd.c around the use of one of  *)
(* its devices: osurd_init and osurd_exit with every way setting a device up *)
(* can fail, beside the open, close, timer and I/O of Osurd.  The module     *)
(* loader, which does not let a used module go, and vmalloc are external.    *)
EXTENDS Osurd

CONSTANT ndevices  \* devices to set up

ASSUME DevicesAssumption == ndevices \in Nat \ {0}

VARIABLES stage,      \* where loading or unloading is
          which,      \* i of osurd_init and osurd_exit
          tfm, registered, Devices, \* held: the cipher, the major, the array
          osurd_major, \* the parameter: 0, or a number to be registered
          dev,        \* what setup_device left in each device
          heap,       \* where vmalloc's memory is in use
          ours        \* the device that Osurd describes

module == <<stage, which, tfm, registered, Devices, osurd_major, dev, heap, ours>>

Indices == 0 .. ndevices - 1
NULL == 0
NotSetUp == [data |-> NULL, timer |-> FALSE, queue |-> FALSE, gd |-> FALSE]

ModuleInit ==
    /\ Init
    /\ stage = "out" /\ which = 0
    /\ tfm = FALSE /\ registered = FALSE /\ Devices = FALSE
    /\ osurd_major \in {0, 1}
    /\ dev = [i \in Indices |-> NotSetUp]
    /\ heap = {} /\ ours \in Indices

-----------------------------------------------------------------------------
(* osurd_init *)

AllocCipher ==
    /\ stage = "out"
    /\ \/ tfm' = TRUE /\ stage' = "register"
       \/ UNCHANGED tfm /\ stage' = "failed"
    /\ UNCHANGED <<which, registered, Devices, osurd_major, ours, dev, heap>>

(* register_blkdev returns the number it chose, or 0 when it was given one,  *)
(* which osurd_init takes for a failure.                                     *)
Register ==
    /\ stage = "register"
    /\ \/ registered' = TRUE /\ stage' = IF osurd_major = 0 THEN "allocate" ELSE "failed"
       \/ UNCHANGED registered /\ stage' = "failed"
    /\ UNCHANGED <<which, tfm, Devices, osurd_major, ours, dev, heap>>

Allocate ==
    /\ stage = "allocate"
    /\ \/ Devices' = TRUE /\ stage' = "setup" /\ UNCHANGED registered
       \/ registered' = FALSE /\ stage' = "failed" /\ UNCHANGED Devices
    /\ UNCHANGED <<which, tfm, osurd_major, ours, dev, heap>>

(* setup_device, with what it fails to get.  The memory it gives back stays  *)
(* in dev->data, and may be another device's the next time.                  *)
Place == CHOOSE a \in 1 .. ndevices :
            a \notin heap /\ \A b \in 1 .. a - 1 : b \in heap

(* Fault: the memory is given back although the device is in order. *)
Kept_Never(missing) == heap
Kept(missing) == IF missing = "nothing" THEN heap \cup {Place} ELSE heap

SetUp(missing) ==
    /\ stage = "setup"
    /\ dev' = [dev EXCEPT ![which] =
                 IF missing = "memory" THEN NotSetUp
                 ELSE [data |-> Place, timer |-> TRUE,
                       queue |-> missing # "queue", gd |-> missing = "nothing"]]
    /\ heap' = Kept(missing)
    /\ IF which + 1 < ndevices THEN which' = which + 1 /\ UNCHANGED stage
       ELSE which' = 0 /\ stage' = "loaded"
    /\ UNCHANGED <<tfm, registered, Devices, osurd_major, ours>>

-----------------------------------------------------------------------------
(* osurd_exit.  Opening a device holds the module, and once it is going      *)
(* nobody opens one.                                                         *)

Unload ==
    /\ stage = "loaded" /\ \A t \in Threads : pc[t] = "closed"
    /\ stage' = "timer"
    /\ UNCHANGED <<which, tfm, registered, Devices, osurd_major, ours, dev, heap>>

(* del_timer_sync waits for the handler. *)
ExitTimer ==
    /\ stage = "timer" /\ dev[which].timer
    /\ IF which # ours THEN UNCHANGED timer
       ELSE TimerQuiet /\ timer' = FALSE
    /\ stage' = "release"
    /\ UNCHANGED <<which, tfm, registered, Devices, osurd_major, dev, heap, ours>>
    /\ UNCHANGED <<request_mode, media, lock, handler, bd_mutex, pc, requests>>

(* On a timer that was never set up, it waits for a timer base for ever. *)
ExitSpins ==
    /\ stage = "timer" /\ ~ dev[which].timer
    /\ UNCHANGED module

(* Fault: the memory of the disk is forgotten. *)
Freed_Not == heap
Freed == heap \ {dev[which].data}

ReleaseDevice ==
    /\ stage = "release"
    /\ dev' = [dev EXCEPT ![which].gd = FALSE, ![which].queue = FALSE]
    /\ heap' = Freed
    /\ IF which + 1 < ndevices THEN which' = which + 1 /\ stage' = "timer"
       ELSE UNCHANGED which /\ stage' = "finish"
    /\ UNCHANGED <<tfm, registered, Devices, osurd_major, ours>>

ExitFinish ==
    /\ stage = "finish"
    /\ registered' = FALSE /\ tfm' = FALSE /\ Devices' = FALSE
    /\ stage' = "unloaded"
    /\ UNCHANGED <<which, osurd_major, ours, dev, heap>>

-----------------------------------------------------------------------------
CanOpen == dev[ours].gd /\ stage \in {"setup", "loaded"}

Disk == /\ Next
        /\ \A t \in Threads : pc[t] = "closed" /\ pc'[t] # "closed" => CanOpen
        /\ UNCHANGED module

LoadOrUnload ==
    \/ /\ \/ AllocCipher \/ Register \/ Allocate \/ Unload
          \/ \E missing \in {"nothing", "memory", "queue", "disk"} : SetUp(missing)
          \/ ExitSpins \/ ReleaseDevice \/ ExitFinish
       /\ UNCHANGED vars
    \/ ExitTimer

Over == stage \in {"failed", "unloaded"} /\ UNCHANGED <<vars, module>>

ModuleNext == Disk \/ LoadOrUnload \/ Over

ModuleSpec == ModuleInit /\ [][ModuleNext]_<<vars, module>> /\ Fairness

-----------------------------------------------------------------------------
(* Whoever uses the device finds its memory and the cipher in place, and the *)
(* timer, which outlives the last user, finds the device: however setting up *)
(* the devices failed and whenever the module is unloaded.                   *)
DeviceAlive ==
    /\ (\E t \in Threads : pc[t] # "closed") => tfm /\ dev[ours].data \in heap
    /\ timer \/ handler => Devices

(* osurd_exit gives back all that loading took, also for the devices that    *)
(* were set up in part.                                                      *)
NothingLeft ==
    stage = "unloaded" =>
        /\ heap = {} /\ ~ tfm /\ ~ registered /\ ~ Devices
        /\ \A i \in Indices : ~ dev[i].gd /\ ~ dev[i].queue

(* "Free the virtual memory allocated earlier for the disk": what osurd_exit *)
(* frees is allocated, and to this device.                                   *)
FreesItsOwn ==
    stage = "release" /\ dev[which].data # NULL =>
        /\ dev[which].data \in heap
        /\ \A i \in Indices \ {which} : dev[i].gd => dev[i].data # dev[which].data
=============================================================================
