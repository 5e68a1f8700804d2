---------------------- MODULE PowerStateToken_proof ----------------------
(***************************************************************************)
(* Proofs about the power state token, for any finite set of threads.      *)
(***************************************************************************)
EXTENDS PowerStateToken, FiniteSetTheorems, TLAPS

(* A thread that holds the device is not inside a call. *)
HoldersIdle == \A t \in holds : pc[t] = "idle"

Releasing == At({"decRead", "last", "suspend", "setInactive"})

(* While the token is ACTIVE, somebody owns a unit of the count or is on    *)
(* the way to run OnLastRelease: this is what NotLeftActive rests on.       *)
ActiveHasKeeper == psmState = "ACTIVE" => Owners \cup Releasing # {}

IInv == TypeOK /\ HoldersIdle /\ CountIsOwners /\ ActiveHasKeeper

-----------------------------------------------------------------------------
(* The token starts out with its types. *)
LEMMA InitTypeOK == Init => TypeOK
<1> SUFFICES ASSUME Init PROVE TypeOK
  OBVIOUS
<1>1. overlapped \in BOOLEAN
  BY Zenon DEF Init
<1> QED
  BY <1>1, SMT DEF Init, TypeOK, Modes

(* The values of the fields stay in their types, whatever the callers do    *)
(* and however their calls interleave.                                      *)
THEOREM TypeCorrect == Spec => []TypeOK
<1>1. TypeOK /\ [Next]_vars => TypeOK'
  <2> SUFFICES ASSUME TypeOK, [Next]_vars PROVE TypeOK'
    OBVIOUS
  <2> USE DEF TypeOK
  <2>1. ASSUME NEW t \in Threads, ThreadStep(t) PROVE TypeOK'
    <3>1. overlapped' \in BOOLEAN
      BY <2>1, Zenon DEF ThreadStep, AcquireWakeLock, AtomicInc, ReadAfterInc,
         FirstAcquireTest, FirstAcquireResume, FirstAcquireDone, ReleaseWakeLock,
         ReadBeforeDec, AtomicDec, ReadAfterDec, LastReleaseTest,
         LastReleaseSuspend, LastReleaseDone, Enter
    <3> QED
      BY <2>1, <3>1, SMT DEF ThreadStep, AcquireWakeLock, AtomicInc, ReadAfterInc,
         FirstAcquireTest, FirstAcquireResume, FirstAcquireDone, ReleaseWakeLock,
         ReadBeforeDec, AtomicDec, ReadAfterDec, LastReleaseTest, LastReleaseSuspend,
         LastReleaseDone, AcquireReturns, SysEvents, InAcquire, InRelease, Goto
  <2>2. ASSUME NEW m \in Modes, SetMode(m) PROVE TypeOK'
    BY <2>2 DEF SetMode
  <2>3. ASSUME NEW e \in SysEvents, PowerStateChange(e) PROVE TypeOK'
    BY <2>3 DEF PowerStateChange
  <2>4. CASE PowerStateDeliver
    BY <2>4 DEF PowerStateDeliver
  <2>5. CASE UNCHANGED vars
    BY <2>5 DEF vars
  <2> QED
    BY <2>1, <2>2, <2>3, <2>4, <2>5 DEF Next
<1> QED
  BY InitTypeOK, <1>1, PTL DEF Spec

-----------------------------------------------------------------------------
(* The owners are finitely many, so their number is a natural number that  *)
(* is zero exactly when there are none.                                     *)
LEMMA OwnersFinite ==
  ASSUME TypeOK
  PROVE  /\ IsFiniteSet(Owners)
         /\ Cardinality(Owners) \in Nat
         /\ Cardinality(Owners) = 0 <=> Owners = {}
<1>1. Owners \subseteq Threads
  BY DEF Owners, At, TypeOK
<1>2. IsFiniteSet(Owners)
  BY <1>1, ThreadsAssumption, FS_Subset
<1> QED
  BY <1>2, FS_CardinalityType, FS_EmptySet

(* A step that neither makes nor unmakes an owner, changes no count and     *)
(* leaves the state alone or makes it inactive keeps the count right.       *)
LEMMA CountKept ==
  ASSUME CountIsOwners, refs' = refs, Owners' = Owners
  PROVE  CountIsOwners'
BY DEF CountIsOwners

(* Every step of a thread keeps the inductive invariant, provided the       *)
(* driver releases only what it acquired.                                   *)
LEMMA ThreadStepKeeps ==
  ASSUME Balanced, IInv, NEW t \in Threads, ThreadStep(t), TypeOK'
  PROVE  IInv'
<1> USE DEF IInv, Goto
<1> DEFINE OwnerAt(label) == label \in (InAcquire \ {"inc"}) \cup {"count", "dec"}
           ReleasingAt(label) == label \in {"decRead", "last", "suspend", "setInactive"}
<1>0. /\ Owners = {u \in Threads : u \in holds \/ OwnerAt(pc[u])}
      /\ Owners' = {u \in Threads : u \in holds' \/ OwnerAt(pc'[u])}
      /\ Releasing = {u \in Threads : ReleasingAt(pc[u])}
      /\ Releasing' = {u \in Threads : ReleasingAt(pc'[u])}
  BY DEF Owners, At, TypeOK, Releasing
<1> USE DEF InAcquire
<1>1. CASE AcquireWakeLock(t)
  <2>1. Owners' = Owners /\ Releasing' = Releasing
    BY <1>0, <1>1 DEF AcquireWakeLock, Enter, TypeOK
  <2> QED
    BY <1>1, <2>1, CountKept DEF AcquireWakeLock, Enter, TypeOK, HoldersIdle, ActiveHasKeeper
<1>2. CASE AtomicInc(t)
  <2>1. Owners' = Owners \cup {t} /\ t \notin Owners
    BY <1>0, <1>2 DEF AtomicInc, TypeOK, HoldersIdle
  <2>2. CountIsOwners'
    BY <1>2, <2>1, OwnersFinite, FS_AddElement DEF AtomicInc, CountIsOwners
  <2> QED
    BY <1>2, <2>1, <2>2 DEF AtomicInc, TypeOK, HoldersIdle, ActiveHasKeeper
<1>3. CASE ReadAfterInc(t)
  <2>1. Owners' = Owners /\ t \in Owners'
    BY <1>0, <1>3 DEF ReadAfterInc, AcquireReturns, TypeOK
  <2> QED
    BY <1>3, <2>1, CountKept DEF ReadAfterInc, AcquireReturns, TypeOK, HoldersIdle, ActiveHasKeeper
<1>4. CASE FirstAcquireTest(t) \/ FirstAcquireResume(t) \/ FirstAcquireDone(t)
  <2>1. Owners' = Owners /\ t \in Owners'
    BY <1>0, <1>4 DEF FirstAcquireTest, FirstAcquireResume, FirstAcquireDone, AcquireReturns, TypeOK
  <2> QED
    BY <1>4, <2>1, CountKept DEF FirstAcquireTest, FirstAcquireResume, FirstAcquireDone,
       AcquireReturns, TypeOK, HoldersIdle, ActiveHasKeeper
<1>5. CASE ReleaseWakeLock(t)
  <2>1. Owners' = Owners /\ t \in Owners'
    BY <1>0, <1>5 DEF ReleaseWakeLock, TypeOK, Enter
  <2> QED
    BY <1>5, <2>1, CountKept DEF ReleaseWakeLock, TypeOK, HoldersIdle, ActiveHasKeeper
<1>6. CASE ReadBeforeDec(t)
  <2>1. t \in Owners
    BY <1>0, <1>6 DEF ReadBeforeDec
  <2>2. refs # 0
    BY <2>1, OwnersFinite DEF CountIsOwners
  <2>3. Owners' = Owners
    BY <1>0, <1>6, <2>2 DEF ReadBeforeDec, TypeOK
  <2> QED
    BY <1>6, <2>1, <2>3, CountKept DEF ReadBeforeDec, TypeOK, HoldersIdle, ActiveHasKeeper
<1>7. CASE AtomicDec(t)
  <2>1. t \in Owners /\ Owners' = Owners \ {t} /\ t \in Releasing'
    BY <1>0, <1>7 DEF AtomicDec, TypeOK, HoldersIdle
  <2>2. CountIsOwners'
    BY <1>7, <2>1, OwnersFinite, FS_RemoveElement DEF AtomicDec, CountIsOwners
  <2> QED
    BY <1>7, <2>1, <2>2 DEF AtomicDec, TypeOK, HoldersIdle, ActiveHasKeeper
<1>8. CASE ReadAfterDec(t)
  <2>1. Owners' = Owners
    BY <1>0, <1>8 DEF ReadAfterDec, TypeOK
  <2>2. ActiveHasKeeper'
    <3>1. CASE refs = 0
      BY <1>0, <1>8, <3>1 DEF ReadAfterDec, ActiveHasKeeper, TypeOK
    <3>2. CASE refs # 0
      BY <2>1, <3>2, OwnersFinite DEF CountIsOwners, ActiveHasKeeper
    <3> QED
      BY <3>1, <3>2
  <2> QED
    BY <1>8, <2>1, <2>2, CountKept DEF ReadAfterDec, TypeOK, HoldersIdle
<1>9. CASE LastReleaseTest(t)
  <2>1. Owners' = Owners /\ (psmState = "ACTIVE" => t \in Releasing')
    BY <1>0, <1>9 DEF LastReleaseTest, TypeOK
  <2> QED
    BY <1>9, <2>1, CountKept DEF LastReleaseTest, TypeOK, HoldersIdle, ActiveHasKeeper
<1>10. CASE LastReleaseSuspend(t)
  <2>1. Owners' = Owners /\ t \in Releasing'
    BY <1>0, <1>10 DEF LastReleaseSuspend, TypeOK
  <2> QED
    BY <1>10, <2>1, CountKept DEF LastReleaseSuspend, TypeOK, HoldersIdle, ActiveHasKeeper
<1>11. CASE LastReleaseDone(t)
  <2>1. Owners' = Owners
    BY <1>0, <1>11 DEF LastReleaseDone, TypeOK
  <2> QED
    BY <1>11, <2>1, CountKept DEF LastReleaseDone, TypeOK, HoldersIdle, ActiveHasKeeper
<1> QED
  BY <1>1, <1>2, <1>3, <1>4, <1>5, <1>6, <1>7, <1>8, <1>9, <1>10, <1>11 DEF ThreadStep

(* The strengthened invariant holds in every reachable state.               *)
LEMMA Inductive ==
  ASSUME Balanced
  PROVE  Spec => []IInv
<1>1. Init => IInv
  <2> SUFFICES ASSUME Init PROVE IInv
    OBVIOUS
  <2>1. TypeOK /\ HoldersIdle /\ ActiveHasKeeper
    BY InitTypeOK DEF Init, HoldersIdle, ActiveHasKeeper
  <2>2. Owners = {}
    BY DEF Init, Owners, At, InAcquire
  <2> QED
    BY <2>1, <2>2, FS_EmptySet DEF IInv, CountIsOwners, Init
<1>2. IInv /\ TypeOK' /\ [Next]_vars => IInv'
  <2> SUFFICES ASSUME IInv, TypeOK', [Next]_vars PROVE IInv'
    OBVIOUS
  <2>1. ASSUME NEW t \in Threads, ThreadStep(t) PROVE IInv'
    BY <2>1, ThreadStepKeeps
  <2>2. ASSUME UNCHANGED <<refs, psmState, pc, holds>> PROVE IInv'
    BY <2>2 DEF IInv, HoldersIdle, CountIsOwners, ActiveHasKeeper, Owners, At, Releasing
  <2>3. ASSUME NEW m \in Modes, SetMode(m) PROVE IInv'
    BY <2>2, <2>3 DEF SetMode
  <2>4. ASSUME NEW e \in SysEvents, PowerStateChange(e) PROVE IInv'
    BY <2>2, <2>4 DEF PowerStateChange
  <2>5. CASE PowerStateDeliver
    BY <2>2, <2>5 DEF PowerStateDeliver
  <2>6. CASE UNCHANGED vars
    BY <2>2, <2>6 DEF vars
  <2> QED
    BY <2>1, <2>3, <2>4, <2>5, <2>6 DEF Next
<1> QED
  BY <1>1, <1>2, TypeCorrect, PTL DEF Spec

(* With balanced callers the count is always the number of threads that     *)
(* hold the device, so it is never negative either.                         *)
THEOREM CountIsRight ==
  ASSUME Balanced
  PROVE  Spec => [](CountIsOwners /\ CountNotNegative)
<1>1. IInv => CountIsOwners /\ CountNotNegative
  BY OwnersFinite DEF IInv, CountIsOwners, CountNotNegative
<1> QED
  BY <1>1, Inductive, PTL

(* With balanced callers the token is never left ACTIVE once every call has *)
(* returned and nobody holds the device.                                    *)
THEOREM NeverLeftActive ==
  ASSUME Balanced
  PROVE  Spec => []NotLeftActive
<1>1. IInv => NotLeftActive
  BY DEF IInv, ActiveHasKeeper, NotLeftActive, Quiet, Free, Owners, Releasing, At, InAcquire, InRelease
<1> QED
  BY <1>1, Inductive, PTL

-----------------------------------------------------------------------------
(* What holds while calls have not overlapped.  One thread at most is in a  *)
(* call; a callback of the first acquire or the last release runs only when *)
(* nobody holds the device; and an ACTIVE state has a holder, or a release  *)
(* in progress that will see to it.                                         *)
Turning == {"first", "resume", "setActive", "last", "suspend", "setInactive"}

OneInside == \A t, u \in Threads : pc[t] # "idle" /\ pc[u] # "idle" => t = u
DriverInControl == (mode = "dynamic" => sysEvent = "none") /\ (~Quiet => mode = "dynamic")
HeldIsAwake == holds # {} => psmState = "ACTIVE" /\ device = "resume"
TurnsAlone ==
    \A t \in Threads : /\ pc[t] \in Turning => holds = {}
                       /\ pc[t] = "setActive" => device = "resume"
ActiveIsHeld == psmState = "ACTIVE" => holds # {} \/ \E t \in Threads : pc[t] \in InRelease

InTurn == OneInside /\ DriverInControl /\ HeldIsAwake /\ TurnsAlone /\ ActiveIsHeld

SInv == IInv /\ (~overlapped => InTurn)

\* No thread is inside exactly when all are idle.
LEMMA FreeIsIdle ==
  /\ TypeOK => (Free <=> \A u \in Threads : pc[u] = "idle")
  /\ TypeOK' => (Free' <=> \A u \in Threads : pc'[u] = "idle")
BY DEF Free, At, InAcquire, InRelease, TypeOK

\* A thread that finds nobody but itself to own a unit is right when calls are in turn.
LEMMA NobodyElse ==
  ASSUME IInv, OneInside, NEW t \in Threads, pc[t] # "idle"
  PROVE  /\ pc[t] = "incRead" => (refs = 1 <=> holds = {})
         /\ pc[t] = "decRead" => (refs = 0 <=> holds = {})
<1>1. ASSUME pc[t] = "incRead" PROVE refs = 1 <=> holds = {}
  <2>1. Owners = holds \cup {t} /\ t \notin holds
    BY <1>1 DEF Owners, At, InAcquire, IInv, HoldersIdle, OneInside, TypeOK
  <2>2. refs = 1 => \E u : Owners = {u}
    BY OwnersFinite, FS_Singleton DEF IInv, CountIsOwners
  <2>3. Cardinality({t}) = 1
    BY FS_Singleton
  <2> QED
    BY <2>1, <2>2, <2>3 DEF IInv, CountIsOwners
<1>2. ASSUME pc[t] = "decRead" PROVE refs = 0 <=> holds = {}
  <2>1. Owners = holds
    BY <1>2 DEF Owners, At, InAcquire, IInv, OneInside, TypeOK
  <2> QED
    BY <2>1, OwnersFinite DEF IInv, CountIsOwners
<1> QED
  BY <1>1, <1>2

(* A step of the only thread inside keeps calls in turn, and its release    *)
(* suspends the device only when nobody holds it.                           *)
LEMMA ThreadInTurn ==
  ASSUME Balanced, IInv, TypeOK', InTurn, NEW t \in Threads, ThreadStep(t), pc[t] = "idle" => Free
  PROVE  InTurn' /\ (device' = "suspend" => device = "suspend" \/ holds = {})
<1> USE FreeIsIdle DEF InTurn, IInv, Goto, Turning, InRelease
<1>0. /\ \A u \in Threads \ {t} : pc[u] = "idle" /\ pc'[u] = "idle"
      /\ holds # {} => \A u \in holds : u \in Threads
  BY DEF OneInside, TypeOK, ThreadStep, AcquireWakeLock, AtomicInc, ReadAfterInc,
     FirstAcquireTest, FirstAcquireResume, FirstAcquireDone, ReleaseWakeLock,
     ReadBeforeDec, AtomicDec, ReadAfterDec, LastReleaseTest,
     LastReleaseSuspend, LastReleaseDone, AcquireReturns, Enter
<1>1. OneInside'
  BY <1>0 DEF OneInside
<1>2. CASE AcquireWakeLock(t)
  BY <1>0, <1>1, <1>2 DEF AcquireWakeLock, Enter, TypeOK, DriverInControl, HeldIsAwake,
     TurnsAlone, ActiveIsHeld, Quiet
<1>3. CASE AtomicInc(t)
  BY <1>0, <1>1, <1>3 DEF AtomicInc, TypeOK, DriverInControl, HeldIsAwake,
     TurnsAlone, ActiveIsHeld, Quiet
<1>4. CASE ReadAfterInc(t)
  BY <1>0, <1>1, <1>4, NobodyElse DEF ReadAfterInc, AcquireReturns, TypeOK, DriverInControl,
     HeldIsAwake, TurnsAlone, ActiveIsHeld, Quiet
<1>5. CASE FirstAcquireTest(t)
  BY <1>0, <1>1, <1>5 DEF FirstAcquireTest, AcquireReturns, TypeOK, DriverInControl,
     HeldIsAwake, TurnsAlone, ActiveIsHeld, Quiet
<1>6. CASE FirstAcquireResume(t)
  BY <1>0, <1>1, <1>6 DEF FirstAcquireResume, TypeOK, DriverInControl,
     HeldIsAwake, TurnsAlone, ActiveIsHeld, Quiet
<1>7. CASE FirstAcquireDone(t)
  BY <1>0, <1>1, <1>7 DEF FirstAcquireDone, AcquireReturns, TypeOK, DriverInControl,
     HeldIsAwake, TurnsAlone, ActiveIsHeld, Quiet
<1>8. CASE ReleaseWakeLock(t)
  BY <1>0, <1>1, <1>8 DEF ReleaseWakeLock, Enter, TypeOK, DriverInControl,
     HeldIsAwake, TurnsAlone, ActiveIsHeld, Quiet
<1>9. CASE ReadBeforeDec(t)
  <2>1. t \in Owners
    BY <1>9 DEF ReadBeforeDec, Owners, At
  <2>2. refs # 0
    BY <2>1, OwnersFinite DEF CountIsOwners
  <2> QED
    BY <1>0, <1>1, <1>9, <2>2 DEF ReadBeforeDec, TypeOK, DriverInControl,
       HeldIsAwake, TurnsAlone, ActiveIsHeld, Quiet
<1>10. CASE AtomicDec(t)
  BY <1>0, <1>1, <1>10 DEF AtomicDec, TypeOK, DriverInControl, HeldIsAwake,
     TurnsAlone, ActiveIsHeld, Quiet
<1>11. CASE ReadAfterDec(t)
  BY <1>0, <1>1, <1>11, NobodyElse DEF ReadAfterDec, TypeOK, DriverInControl, HeldIsAwake,
     TurnsAlone, ActiveIsHeld, Quiet
<1>12. CASE LastReleaseTest(t)
  BY <1>0, <1>1, <1>12 DEF LastReleaseTest, TypeOK, DriverInControl, HeldIsAwake,
     TurnsAlone, ActiveIsHeld, Quiet
<1>13. CASE LastReleaseSuspend(t)
  BY <1>0, <1>1, <1>13 DEF LastReleaseSuspend, TypeOK, DriverInControl, HeldIsAwake,
     TurnsAlone, ActiveIsHeld, Quiet
<1>14. CASE LastReleaseDone(t)
  BY <1>0, <1>1, <1>14 DEF LastReleaseDone, TypeOK, DriverInControl, HeldIsAwake,
     TurnsAlone, ActiveIsHeld, Quiet
<1> QED
  BY <1>2, <1>3, <1>4, <1>5, <1>6, <1>7, <1>8, <1>9, <1>10, <1>11, <1>12, <1>13, <1>14
     DEF ThreadStep

(* Both invariants together hold in every reachable state, and no step of   *)
(* calls in turn suspends a device that is held.                            *)
LEMMA InTurnStep ==
  ASSUME Balanced, SInv, IInv', [Next]_vars
  PROVE  SInv' /\ (~overlapped /\ device' = "suspend" /\ device # "suspend" => holds = {})
<1> SUFFICES ASSUME ~overlapped
             PROVE  /\ ~overlapped' => InTurn'
                    /\ device' = "suspend" => device = "suspend" \/ holds = {}
  <2>1. overlapped => overlapped'
    BY Zenon DEF Next, ThreadStep, AcquireWakeLock, AtomicInc, ReadAfterInc, FirstAcquireTest,
       FirstAcquireResume, FirstAcquireDone, ReleaseWakeLock, ReadBeforeDec, AtomicDec,
       ReadAfterDec, LastReleaseTest, LastReleaseSuspend, LastReleaseDone, Enter, SetMode,
       PowerStateChange, PowerStateDeliver, vars
  <2> QED
    BY <2>1, Zenon DEF SInv
<1>1. InTurn /\ IInv /\ TypeOK'
  BY Zenon DEF SInv, IInv
<1>2. ASSUME NEW t \in Threads, ThreadStep(t)
      PROVE  /\ ~overlapped' => InTurn'
             /\ device' = "suspend" => device = "suspend" \/ holds = {}
  <2>1. pc[t] = "idle" => AcquireWakeLock(t) \/ ReleaseWakeLock(t)
    BY <1>2 DEF ThreadStep, AtomicInc, ReadAfterInc, FirstAcquireTest, FirstAcquireResume,
       FirstAcquireDone, ReadBeforeDec, AtomicDec, ReadAfterDec, LastReleaseTest,
       LastReleaseSuspend, LastReleaseDone
  <2>2. AcquireWakeLock(t) \/ ReleaseWakeLock(t) => device' = device /\ (overlapped' \/ Free)
    BY Zenon DEF AcquireWakeLock, ReleaseWakeLock, Enter
  <2>3. CASE pc[t] = "idle" => Free
    BY <1>1, <1>2, <2>3, ThreadInTurn, Zenon
  <2>4. CASE pc[t] = "idle" /\ ~Free
    BY <2>1, <2>2, <2>4, Zenon
  <2> QED
    BY <2>3, <2>4
<1>3. ASSUME NEW m \in Modes, SetMode(m)
      PROVE  InTurn' /\ (device' = "suspend" => device = "suspend")
  <2>1. Quiet /\ sysEvent = "none" /\ UNCHANGED <<psmState, pc, sysEvent, device, holds>>
    BY <1>3, Zenon DEF SetMode, Quiet
  <2> QED
    BY <1>1, <2>1, FreeIsIdle DEF InTurn, OneInside, DriverInControl, HeldIsAwake, TurnsAlone,
       ActiveIsHeld, Quiet, Free, At, IInv
<1>4. ASSUME NEW e \in SysEvents, PowerStateChange(e) \/ PowerStateDeliver
      PROVE  InTurn' /\ (device' = "suspend" => device = "suspend" \/ holds = {})
  <2>1. /\ mode # "dynamic" /\ Quiet
        /\ UNCHANGED <<refs, psmState, mode, pc, holds>>
    BY <1>1, <1>4 DEF InTurn, DriverInControl, PowerStateChange, PowerStateDeliver, SysEvents
  <2> QED
    BY <1>1, <2>1, FreeIsIdle DEF InTurn, OneInside, DriverInControl, HeldIsAwake, TurnsAlone,
       ActiveIsHeld, Quiet, Turning, InRelease, IInv
<1>5. CASE UNCHANGED vars
  BY <1>1, <1>5 DEF vars, InTurn, OneInside, DriverInControl, HeldIsAwake, TurnsAlone,
     ActiveIsHeld, Quiet, Free, At
<1>6. SysEvents # {}
  BY DEF SysEvents
<1> QED
  BY <1>2, <1>3, <1>4, <1>5, <1>6, Zenon DEF Next

LEMMA InductiveInTurn ==
  ASSUME Balanced
  PROVE  Spec => []SInv
<1>1. Init /\ IInv => SInv
  BY DEF Init, SInv, InTurn, OneInside, DriverInControl, HeldIsAwake, TurnsAlone, ActiveIsHeld,
     Quiet, Free, At, Turning, InAcquire, InRelease
<1>2. SInv /\ IInv' /\ [Next]_vars => SInv'
  BY InTurnStep
<1> QED
  BY <1>1, <1>2, Inductive, PTL DEF Spec

(* As long as balanced calls have not overlapped, a device somebody holds   *)
(* is ACTIVE and was last resumed.                                          *)
THEOREM HeldStaysAwake ==
  ASSUME Balanced
  PROVE  Spec => []HeldIsActive
<1>1. SInv => HeldIsActive
  BY Zenon DEF SInv, InTurn, HeldIsAwake, HeldIsActive
<1> QED
  BY <1>1, InductiveInTurn, PTL

(* As long as balanced calls have not overlapped, no release suspends a     *)
(* device that somebody holds.                                              *)
THEOREM SuspendsOnlyWhenFree ==
  ASSUME Balanced
  PROVE  Spec => NoSuspendWhileHeld
<1>1. SInv /\ IInv' /\ [Next]_vars
        => [~overlapped /\ device' = "suspend" /\ device # "suspend" => holds = {}]_vars
  BY InTurnStep
<1> QED
  BY <1>1, InductiveInTurn, Inductive, PTL DEF Spec, NoSuspendWhileHeld
=============================================================================
