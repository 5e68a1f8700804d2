--------------------------- MODULE PlatformDevice ---------------------------
(***************************************************************************)
(* Platform devices and the manager of a module (support/platform/src/fwk) *)
(* : drivers add devices to a manager and remove them, users find a device *)
(* by its number and put it back.  A device is its driver's thread as well.*)
(* The manager's list is under a spin lock, so that adding, unlinking and  *)
(* finding are steps; a put is not under it.                               *)
(***************************************************************************)
EXTENDS PlatformObject, FiniteSets

CONSTANTS
    Devices,    \* PlatformDevice objects
    Users,      \* threads that call a controller by its number
    NumberOf,   \* the number each driver reads from its configuration
    Keepers,    \* users that never put back what they found
    Overlap     \* TRUE: a put lowers the count and reads it in two steps

CONSTANT None
ASSUME PlatformAssumption ==
    None \notin Devices /\ Users \cap Devices = {} /\ Keepers \subseteq Users /\ Overlap \in BOOLEAN
        /\ DOMAIN NumberOf = Devices /\ IsFiniteSet(Users)

VARIABLES
    object,   \* count, semaphore and state of each device
    memory,   \* whether the driver has the device in memory
    devices,  \* the manager's list, which is searched for what matches
    pc,       \* where each driver and each user is
    held      \* the device each user has found

vars == <<object, memory, devices, pc, held>>

Init ==
    /\ object = [d \in Devices |-> [Inited EXCEPT !.ready = FALSE]]
    /\ memory = [d \in Devices |-> FALSE]
    /\ devices = {}
    /\ pc = [t \in Devices \cup Users |-> "idle"]
    /\ held = [u \in Users |-> None]

Goto(t, label) == pc' = [pc EXCEPT ![t] = label]

SameNumber(d) == {e \in devices : NumberOf[e] = NumberOf[d]}

\* Mutant of Add: the device keeps the semaphore of an earlier life.
AddKeepsPost(d) ==
    /\ pc[d] = "idle"
    /\ IF SameNumber(d) = {}
       THEN /\ object' = [object EXCEPT ![d] = Got([Inited EXCEPT !.released = object[d].released])]
            /\ devices' = devices \cup {d}
            /\ memory' = [memory EXCEPT ![d] = TRUE]
            /\ Goto(d, "added")
       ELSE /\ object' = [object EXCEPT ![d] = PutBack(Got(Inited))]
            /\ UNCHANGED <<devices, memory, pc>>
    /\ UNCHANGED held

\* PlatformDeviceAdd and PlatformManagerAddDevice; a device whose number is
\* taken is put back, and its driver fails.
Add(d) ==
    /\ pc[d] = "idle"
    /\ IF SameNumber(d) = {}
       THEN /\ object' = [object EXCEPT ![d] = Got(Inited)]
            /\ devices' = devices \cup {d}
            /\ memory' = [memory EXCEPT ![d] = TRUE]
            /\ Goto(d, "added")
       ELSE /\ object' = [object EXCEPT ![d] = PutBack(Got(Inited))]
            /\ UNCHANGED <<devices, memory, pc>>
    /\ UNCHANGED held

\* PlatformDeviceDel as far as PlatformManagerDelDevice unlinks the device.
Unlink(d) ==
    /\ pc[d] = "added"
    /\ devices' = devices \ {d}
    /\ Goto(d, "put")
    /\ UNCHANGED <<object, memory, held>>

\* HdfSRefRelease by thread t, which goes on to label.
Release(t, d, label) ==
    IF ~Overlap
    THEN /\ object' = [object EXCEPT ![d] = PutBack(@)]
         /\ Goto(t, label)
    ELSE IF pc[t] = "put"
    THEN /\ object' = [object EXCEPT ![d].refs = @ - 1]
         /\ Goto(t, "read")
    ELSE /\ object' = [object EXCEPT ![d] = IF @.refs = 0 THEN LastPut(@) ELSE @]
         /\ Goto(t, label)

PutByDriver(d) ==
    /\ pc[d] \in {"put", "read"}
    /\ Release(d, d, "waiting")
    /\ UNCHANGED <<memory, devices, held>>

\* Mutant of Uninit: it does not wait.
UninitAtOnce(d) ==
    /\ pc[d] = "waiting"
    /\ object' = [object EXCEPT ![d] = [@ EXCEPT !.ready = FALSE]]
    /\ memory' = [memory EXCEPT ![d] = FALSE]
    /\ Goto(d, "idle")
    /\ UNCHANGED <<devices, held>>

\* PlatformDeviceUninit; then the driver frees the device.
Uninit(d) ==
    /\ pc[d] = "waiting" /\ MayEnd(object[d])
    /\ object' = [object EXCEPT ![d] = Ended(@)]
    /\ memory' = [memory EXCEPT ![d] = FALSE]
    /\ Goto(d, "idle")
    /\ UNCHANGED <<devices, held>>

-----------------------------------------------------------------------------
\* Mutant of Find: every device is taken, and the last returned.
FindTakesAll(u, d) ==
    /\ pc[u] = "idle" /\ d \in devices
    /\ object' = [e \in Devices |-> IF e \in devices THEN Got(object[e]) ELSE object[e]]
    /\ held' = [held EXCEPT ![u] = d]
    /\ Goto(u, "using")
    /\ UNCHANGED <<memory, devices>>

\* PlatformManagerFindDevice takes every match; numbers being unique, one.
Find(u, d) ==
    /\ pc[u] = "idle" /\ d \in devices
    /\ object' = [e \in Devices |-> IF e \in SameNumber(d) THEN Got(object[e]) ELSE object[e]]
    /\ held' = [held EXCEPT ![u] = d]
    /\ Goto(u, "using")
    /\ UNCHANGED <<memory, devices>>

\* The user's call on the device ends, and with it what GpioGetCntlr, MmcOpen
\* and the like have found is put back, or it is kept.
EndCall(u) ==
    /\ pc[u] = "using" /\ u \notin Keepers
    /\ Goto(u, "put")
    /\ UNCHANGED <<object, memory, devices, held>>

Put(u) ==
    /\ u \in Users /\ pc[u] \in {"put", "read"}
    /\ Release(u, held[u], "idle")
    /\ held' = [held EXCEPT ![u] = IF pc'[u] = "idle" THEN None ELSE @]
    /\ UNCHANGED <<memory, devices>>

DriverStep(d) == PutByDriver(d) \/ Uninit(d)
UserStep(u)   == EndCall(u) \/ Put(u)

Next ==
    \/ \E d \in Devices : Add(d) \/ Unlink(d) \/ DriverStep(d)
    \/ \E u \in Users : UserStep(u) \/ \E d \in Devices : Find(u, d)

Spec == Init /\ [][Next]_vars

\* A removal goes on, and the calls of users end.
FairSpec ==
    /\ Spec
    /\ \A d \in Devices : WF_vars(DriverStep(d))
    /\ \A u \in Users : WF_vars(UserStep(u))

-----------------------------------------------------------------------------
TypeOK ==
    /\ object \in [Devices -> PlatformObjects]
    /\ memory \in [Devices -> BOOLEAN]
    /\ devices \subseteq Devices
    /\ pc \in [Devices \cup Users -> {"idle", "added", "put", "read", "waiting", "using"}]
    /\ held \in [Users -> Devices \cup {None}]

(* "make sure no reference anymore before exit" (platform_device.c:91): a   *)
(* device that somebody has found is not freed, and its count and semaphore *)
(* are not touched afterwards, however often its number is added, repeated  *)
(* and removed.                                                             *)
FreedUnreferenced == \A u \in Users : held[u] # None => memory[held[u]]

\* Who has a unit of the device: users, and its driver for the manager.
Units(d) == {u \in Users : held[u] = d} \cup {t \in {d} : pc[t] \in {"added", "put"}}

(* A device in memory has one unit for its place in the manager and one for *)
(* each user, and its semaphore is posted exactly when there is none left:  *)
(* no wake-up is lost, and none is left over from an earlier life.          *)
PostedWhenUnused ==
    \A d \in Devices :
        memory[d] => /\ object[d].refs = Cardinality(Units(d))
                     /\ object[d].released = IF Units(d) = {} THEN 1 ELSE 0

(* A removal ends, as users put back what they have found. *)
RemovalEnds == \A d \in Devices : pc[d] = "put" ~> pc[d] = "idle"
=============================================================================
