------------------------- MODULE PowerStateToken -------------------------
(***************************************************************************)
(* The power state token of one device (core/host/src/power_state_token.c) *)
(* and the reference count it is built on (utils/src/hdf_sref.c).          *)
(*                                                                         *)
(* Driver threads call HdfPmAcquireDevice and HdfPmReleaseDevice; the      *)
(* system calls PowerStateChange when the whole machine sleeps or wakes.   *)
(* No lock protects the token: every read or write of a shared field is a  *)
(* step of its own, so the calls of several threads interleave exactly     *)
(* where the C code lets them.                                             *)
(***************************************************************************)
EXTENDS Integers, FiniteSets

CONSTANTS
    Threads,     \* the driver threads that use the token
    Balanced     \* TRUE: a thread releases only what it acquired, and the
                 \* power mode is changed only while the token is not in use

ASSUME ThreadsAssumption == IsFiniteSet(Threads)
ASSUME DisciplineAssumption == Balanced \in BOOLEAN

VARIABLES
    refs,        \* wakeRef.refs, an atomic int32_t
    psmState,    \* what the token believes the device's state to be
    mode,        \* who controls the device's power
    pc,          \* where each thread is inside the token
    sysEvent,    \* an event PowerStateChange has decided to deliver, or none
    device,      \* the last callback the driver's power listener received
    holds,       \* the threads whose acquire has returned and is not released
    overlapped   \* history: two threads have been inside the token at one time

vars == <<refs, psmState, mode, pc, sysEvent, device, holds, overlapped>>

Modes      == {"sys", "dynamic"}
SysEvents  == {"suspend", "resume", "dozeSuspend", "dozeResume"}
InAcquire  == {"inc", "incRead", "first", "resume", "setActive"}
InRelease  == {"count", "dec", "decRead", "last", "suspend", "setInactive"}

At(S) == {t \in Threads : pc[t] \in S}

-----------------------------------------------------------------------------
Init ==
    /\ refs = 0
    /\ psmState = "IDLE"
    /\ mode = "sys"
    /\ pc = [t \in Threads |-> "idle"]
    /\ sysEvent = "none"
    /\ device = "none"
    /\ holds = {}
    /\ overlapped = FALSE

\* No driver thread is inside the token.
Free == At(InAcquire \cup InRelease) = {}

\* Driver thread t enters the token.
Enter(t) ==
    /\ pc[t] = "idle"
    /\ overlapped' = (overlapped \/ ~Free)

Goto(t, label) == pc' = [pc EXCEPT ![t] = label]

\* The acquire of thread t returns to its caller.
AcquireReturns(t) == Goto(t, "idle") /\ holds' = holds \cup {t}

(* HdfPmSetMode *)
SetMode(m) ==
    /\ Balanced => holds = {} /\ Free /\ sysEvent = "none"
    /\ mode' = m
    /\ UNCHANGED <<refs, psmState, pc, sysEvent, device, holds, overlapped>>

(* PowerStateTokenAcquireWakeLock: nothing happens outside dynamic control. *)
AcquireWakeLock(t) ==
    /\ Enter(t) /\ t \notin holds
    /\ mode = "dynamic"
    /\ Goto(t, "inc")
    /\ UNCHANGED <<refs, psmState, mode, sysEvent, device, holds>>

(* HdfSRefAcquire, first half: OsalAtomicInc. *)
AtomicInc(t) ==
    /\ pc[t] = "inc"
    /\ refs' = refs + 1
    /\ Goto(t, "incRead")
    /\ UNCHANGED <<psmState, mode, sysEvent, device, holds, overlapped>>

\* Mutant of ReadAfterInc: compares with the count before the increment.
ReadAfterIncStale(t) ==
    /\ pc[t] = "incRead"
    /\ IF refs - 1 = 1
       THEN Goto(t, "first") /\ UNCHANGED holds
       ELSE AcquireReturns(t)
    /\ UNCHANGED <<refs, psmState, mode, sysEvent, device, overlapped>>

(* HdfSRefAcquire, second half: the count is read again and compared to 1. *)
ReadAfterInc(t) ==
    /\ pc[t] = "incRead"
    /\ IF refs = 1
       THEN Goto(t, "first") /\ UNCHANGED holds
       ELSE AcquireReturns(t)
    /\ UNCHANGED <<refs, psmState, mode, sysEvent, device, overlapped>>

(* PowerStateTokenOnFirstAcquire, in three steps: test, callback, write. *)
FirstAcquireTest(t) ==
    /\ pc[t] = "first"
    /\ IF psmState = "ACTIVE"
       THEN AcquireReturns(t)
       ELSE Goto(t, "resume") /\ UNCHANGED holds
    /\ UNCHANGED <<refs, psmState, mode, sysEvent, device, overlapped>>

FirstAcquireResume(t) ==
    /\ pc[t] = "resume"
    /\ device' = "resume"
    /\ Goto(t, "setActive")
    /\ UNCHANGED <<refs, psmState, mode, sysEvent, holds, overlapped>>

FirstAcquireDone(t) ==
    /\ pc[t] = "setActive"
    /\ psmState' = "ACTIVE"
    /\ AcquireReturns(t)
    /\ UNCHANGED <<refs, mode, sysEvent, device, overlapped>>

(* PowerStateTokenReleaseWakeLock. *)
ReleaseWakeLock(t) ==
    /\ Enter(t) /\ (Balanced => t \in holds)
    /\ mode = "dynamic"
    /\ Goto(t, "count")
    /\ holds' = holds \ {t}
    /\ UNCHANGED <<refs, psmState, mode, sysEvent, device>>

\* Mutant of ReadBeforeDec: takes the last unit for an unbalanced release.
ReadBeforeDecOffByOne(t) ==
    /\ pc[t] = "count"
    /\ Goto(t, IF refs <= 1 THEN "last" ELSE "dec")
    /\ UNCHANGED <<refs, psmState, mode, sysEvent, device, holds, overlapped>>

(* The test that keeps the count from going negative: HdfSRefCount == 0. *)
ReadBeforeDec(t) ==
    /\ pc[t] = "count"
    /\ Goto(t, IF refs = 0 THEN "last" ELSE "dec")
    /\ UNCHANGED <<refs, psmState, mode, sysEvent, device, holds, overlapped>>

(* HdfSRefRelease, first half: OsalAtomicDec. *)
AtomicDec(t) ==
    /\ pc[t] = "dec"
    /\ refs' = refs - 1
    /\ Goto(t, "decRead")
    /\ UNCHANGED <<psmState, mode, sysEvent, device, holds, overlapped>>

\* Mutant of ReadAfterDec: compares with 1 as the acquire does.
ReadAfterDecOne(t) ==
    /\ pc[t] = "decRead"
    /\ Goto(t, IF refs = 1 THEN "last" ELSE "idle")
    /\ UNCHANGED <<refs, psmState, mode, sysEvent, device, holds, overlapped>>

(* HdfSRefRelease, second half: the count is read again and compared to 0. *)
ReadAfterDec(t) ==
    /\ pc[t] = "decRead"
    /\ Goto(t, IF refs = 0 THEN "last" ELSE "idle")
    /\ UNCHANGED <<refs, psmState, mode, sysEvent, device, holds, overlapped>>

(* PowerStateTokenOnLastRelease, in three steps: test, callback, write. *)
LastReleaseTest(t) ==
    /\ pc[t] = "last"
    /\ Goto(t, IF psmState \in {"ACTIVE", "IDLE"} THEN "suspend" ELSE "idle")
    /\ UNCHANGED <<refs, psmState, mode, sysEvent, device, holds, overlapped>>

LastReleaseSuspend(t) ==
    /\ pc[t] = "suspend"
    /\ device' = "suspend"
    /\ Goto(t, "setInactive")
    /\ UNCHANGED <<refs, psmState, mode, sysEvent, holds, overlapped>>

LastReleaseDone(t) ==
    /\ pc[t] = "setInactive"
    /\ psmState' = "INACTIVE"
    /\ Goto(t, "idle")
    /\ UNCHANGED <<refs, mode, sysEvent, device, holds, overlapped>>

(* PowerStateChange: the mode is tested, then the listener is called; a    *)
(* change of mode may fall between the two.                                *)
PowerStateChange(event) ==
    /\ sysEvent = "none"
    /\ mode = "sys"
    /\ sysEvent' = event
    /\ UNCHANGED <<refs, psmState, mode, pc, device, holds, overlapped>>

PowerStateDeliver ==
    /\ sysEvent # "none"
    /\ device' = sysEvent
    /\ sysEvent' = "none"
    /\ UNCHANGED <<refs, psmState, mode, pc, holds, overlapped>>

ThreadStep(t) ==
    \/ AcquireWakeLock(t) \/ AtomicInc(t) \/ ReadAfterInc(t)
    \/ FirstAcquireTest(t) \/ FirstAcquireResume(t) \/ FirstAcquireDone(t)
    \/ ReleaseWakeLock(t) \/ ReadBeforeDec(t) \/ AtomicDec(t) \/ ReadAfterDec(t)
    \/ LastReleaseTest(t) \/ LastReleaseSuspend(t) \/ LastReleaseDone(t)

Next ==
    \/ \E t \in Threads : ThreadStep(t)
    \/ \E m \in Modes : SetMode(m)
    \/ \E event \in SysEvents : PowerStateChange(event)
    \/ PowerStateDeliver

Spec == Init /\ [][Next]_vars

-----------------------------------------------------------------------------
TypeOK ==
    /\ refs \in Int
    /\ psmState \in {"IDLE", "ACTIVE", "INACTIVE"}
    /\ mode \in Modes
    /\ pc \in [Threads -> {"idle"} \cup InAcquire \cup InRelease]
    /\ sysEvent \in SysEvents \cup {"none"}
    /\ device \in SysEvents \cup {"none"}
    /\ holds \subseteq Threads
    /\ overlapped \in BOOLEAN

\* Threads that own one unit of the count.
Owners == holds \cup At((InAcquire \ {"inc"}) \cup {"count", "dec"})

(* No call of the token is in progress and nobody holds it. *)
Quiet == holds = {} /\ Free

(* The count of hdf_sref.c is the number of threads that hold the device,   *)
(* whatever the interleaving of the separate increments and reads.          *)
CountIsOwners == refs = Cardinality(Owners)

(* A device nobody holds has been put to sleep: two releases that overlap   *)
(* may both run OnLastRelease, or an acquire may slip between the count and *)
(* the callback, but the token is never left ACTIVE after the last release. *)
NotLeftActive == Quiet => psmState # "ACTIVE"

(* What the comment in ReleaseWakeLock promises: "Not allowed to decrease   *)
(* the ref count to negative".                                              *)
CountNotNegative == refs >= 0

(* While the driver has kept its calls from overlapping, a held device is   *)
(* awake: the state says so and the last callback its listener received is  *)
(* Resume.                                                                  *)
HeldIsActive ==
    (~overlapped /\ holds # {} /\ Free) => psmState = "ACTIVE" /\ device = "resume"

(* While the driver has kept its calls from overlapping, no thread's release*)
(* suspends the device another thread still holds.                          *)
NoSuspendWhileHeld ==
    [][~overlapped /\ device' = "suspend" /\ device # "suspend" => holds = {}]_vars
=============================================================================
