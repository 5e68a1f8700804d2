------------------------ MODULE PlatformDevice_proof ------------------------
(***************************************************************************)
(* Theorems about PlatformDevice, for any devices, users, numbers and      *)
(* keepers, and puts that do not overlap.                                  *)
(***************************************************************************)
EXTENDS PlatformDevice, FiniteSetTheorems, TLAPS

\* Where drivers and users are.
Labels ==
    /\ \A d \in Devices : pc[d] \in {"idle", "added", "put", "waiting"}
    /\ \A u \in Users : pc[u] \in {"idle", "using", "put"}

\* The list holds the devices that were added, no two with one number.
ListOK ==
    /\ devices = {d \in Devices : pc[d] = "added"}
    /\ \A d, e \in devices : NumberOf[d] = NumberOf[e] => d = e

\* A user inside a call has found a device, and no other user has.
HeldInCall == \A u \in Users : held[u] # None <=> pc[u] # "idle"

\* A driver frees its device when it has removed it.
FreedWhenIdle == \A d \in Devices : memory[d] <=> pc[d] # "idle"

IInv ==
    TypeOK /\ Labels /\ ListOK /\ HeldInCall /\ FreedWhenIdle /\ FreedUnreferenced /\ PostedWhenUnused

-----------------------------------------------------------------------------
LEMMA UnitsFinite == ASSUME NEW d PROVE IsFiniteSet(Units(d))
<1>1. IsFiniteSet(Users \cup {d})
  BY FS_AddElement, PlatformAssumption
<1>2. Units(d) \in SUBSET (Users \cup {d})
  BY DEF Units
<1> QED BY <1>1, <1>2, FS_Subset

LEMMA InitHolds == Init => IInv
<1> SUFFICES ASSUME Init PROVE IInv
  OBVIOUS
<1>1. TypeOK
  <2>1. \A b, c \in BOOLEAN : [[refs |-> 0, released |-> 0, ready |-> b] EXCEPT !.ready = c] \in PlatformObjects
    BY DEF PlatformObjects
  <2>2. [Inited EXCEPT !.ready = FALSE] \in PlatformObjects
    BY <2>1, Zenon DEF Inited
  <2> QED BY <2>2 DEF Init, TypeOK
<1>2. Labels /\ ListOK
  BY PlatformAssumption DEF Init, Labels, ListOK
<1>3. HeldInCall /\ FreedWhenIdle
  BY DEF Init, HeldInCall, FreedWhenIdle
<1>4. FreedUnreferenced /\ PostedWhenUnused
  BY DEF Init, FreedUnreferenced, PostedWhenUnused
<1> QED BY <1>1, <1>2, <1>3, <1>4 DEF IInv

-----------------------------------------------------------------------------
\* The count and the semaphore of a device that has the units of a set.
Counted(o, units) ==
    o.refs = Cardinality(units) /\ o.released = IF units = {} THEN 1 ELSE 0

(* A device that somebody takes: one more unit, and nothing posted.         *)
LEMMA TakeCounts ==
    ASSUME NEW o \in PlatformObjects, NEW units, NEW x, IsFiniteSet(units), units # {}, x \notin units,
           Counted(o, units)
    PROVE  Got(o) \in PlatformObjects /\ Counted(Got(o), units \cup {x})
<1>1. Cardinality(units \cup {x}) = Cardinality(units) + 1 /\ Cardinality(units) \in Nat
  BY FS_AddElement, FS_CardinalityType
<1> QED BY <1>1 DEF Got, Counted, PlatformObjects

(* What a put does to the count and to the semaphore.                       *)
LEMMA PutIs ==
    ASSUME NEW o \in PlatformObjects
    PROVE  /\ PutBack(o) \in PlatformObjects
           /\ PutBack(o).refs = o.refs - 1
           /\ PutBack(o).released = IF o.refs = 1 THEN o.released + 1 ELSE o.released
<1> DEFINE left == [o EXCEPT !.refs = @ - 1]
<1>1. left \in PlatformObjects /\ left.refs = o.refs - 1 /\ left.released = o.released
  BY DEF PlatformObjects
<1>2. \A p \in PlatformObjects, c \in BOOLEAN :
          LET q == [refs |-> p.refs, released |-> p.released + 1, ready |-> c]
          IN  q \in PlatformObjects /\ q.refs = p.refs /\ q.released = p.released + 1
  BY DEF PlatformObjects
<1>3. \A p \in PlatformObjects :
          LastPut(p) \in PlatformObjects /\ LastPut(p).refs = p.refs /\ LastPut(p).released = p.released + 1
  BY <1>2, Zenon DEF LastPut
<1>4. PutBack(o) = IF left.refs = 0 THEN LastPut(left) ELSE left
  BY Zenon DEF PutBack
<1>5. o.refs \in Int
  BY DEF PlatformObjects
<1> HIDE DEF left
<1> QED BY <1>1, <1>3, <1>4, <1>5

(* One that is put back: one unit less, and posted if it was the last.      *)
LEMMA PutCounts ==
    ASSUME NEW o \in PlatformObjects, NEW units, NEW x \in units, IsFiniteSet(units), Counted(o, units)
    PROVE  PutBack(o) \in PlatformObjects /\ Counted(PutBack(o), units \ {x})
<1>1. Cardinality(units \ {x}) = Cardinality(units) - 1 /\ Cardinality(units) \in Nat
  BY FS_RemoveElement, FS_CardinalityType
<1>2. Cardinality(units \ {x}) = 0 <=> units \ {x} = {}
  BY FS_RemoveElement, FS_EmptySet
<1>3. o.refs = Cardinality(units) /\ o.released = 0
  BY DEF Counted
<1> QED BY <1>1, <1>2, <1>3, PutIs DEF Counted

-----------------------------------------------------------------------------
USE PlatformAssumption

LEMMA GotInited ==
    Got(Inited) \in PlatformObjects /\ Got(Inited).refs = 1 /\ Got(Inited).released = 0
<1>1. \A b \in BOOLEAN : LET o == [[refs |-> 0, released |-> 0, ready |-> b] EXCEPT !.refs = @ + 1]
                        IN  o \in PlatformObjects /\ o.refs = 1 /\ o.released = 0
  BY DEF PlatformObjects
<1> QED BY <1>1, Zenon DEF Got, Inited

LEMMA AddKeeps == ASSUME IInv, NEW d \in Devices, Add(d) PROVE IInv'
<1> USE DEF IInv, TypeOK, Labels, ListOK, HeldInCall, FreedWhenIdle, FreedUnreferenced, Goto
<1>1. Units(d) = {} /\ ~memory[d] /\ d \notin devices /\ pc[d] = "idle"
  BY DEF Add, Units
<1>2. CASE SameNumber(d) = {}
  <2>1. /\ object' = [object EXCEPT ![d] = Got(Inited)] /\ devices' = devices \cup {d}
        /\ memory' = [memory EXCEPT ![d] = TRUE] /\ pc' = [pc EXCEPT ![d] = "added"] /\ held' = held
    BY <1>2 DEF Add
  <2>2. Got(Inited) \in PlatformObjects /\ Got(Inited).refs = 1 /\ Got(Inited).released = 0
    BY GotInited
  <2>3. TypeOK' /\ Labels' /\ HeldInCall' /\ FreedWhenIdle' /\ FreedUnreferenced'
    BY <1>1, <2>1, <2>2
  <2>4. ListOK'
    BY <1>1, <1>2, <2>1 DEF SameNumber
  <2>5. PostedWhenUnused'
    <3> SUFFICES ASSUME NEW e \in Devices, memory'[e]
                 PROVE  Counted(object'[e], Units(e)')
      BY DEF PostedWhenUnused, Counted
    <3>1. CASE e = d
      <4>1. Units(d)' = {d}
        BY <1>1, <2>1 DEF Units
      <4>2. Cardinality({d}) = 1 /\ object'[e] = Got(Inited)
        BY <3>1, <2>1, FS_Singleton
      <4> QED BY <3>1, <4>1, <4>2, <2>2 DEF Counted
    <3>2. CASE e # d
      <4>1. Units(e)' = Units(e)
        BY <3>2, <2>1 DEF Units
      <4> QED BY <3>2, <4>1, <2>1 DEF PostedWhenUnused, Counted
    <3> QED BY <3>1, <3>2
  <2> QED BY <2>3, <2>4, <2>5
<1>3. CASE SameNumber(d) # {}
  <2>1. /\ object' = [object EXCEPT ![d] = PutBack(Got(Inited))]
        /\ devices' = devices /\ memory' = memory /\ pc' = pc /\ held' = held
    BY <1>3 DEF Add
  <2>2. PutBack(Got(Inited)) \in PlatformObjects
    BY GotInited, PutIs
  <2>3. \A e \in Devices : Units(e)' = Units(e)
    BY <2>1 DEF Units
  <2>4. PostedWhenUnused'
    BY <1>1, <2>1, <2>3 DEF PostedWhenUnused
  <2> QED BY <2>1, <2>2, <2>4
<1> QED BY <1>2, <1>3

LEMMA UnlinkKeeps == ASSUME IInv, NEW d \in Devices, Unlink(d) PROVE IInv'
<1> USE DEF IInv, TypeOK, Labels, ListOK, HeldInCall, FreedWhenIdle, FreedUnreferenced, Goto
<1>1. TypeOK' /\ Labels' /\ ListOK' /\ HeldInCall' /\ FreedWhenIdle' /\ FreedUnreferenced'
  BY DEF Unlink
<1>2. \A e \in Devices : Units(e)' = Units(e)
  BY DEF Unlink, Units
<1>3. PostedWhenUnused'
  BY <1>2 DEF Unlink, PostedWhenUnused
<1> QED BY <1>1, <1>3

(* A put that nobody comes between, of a device in memory: what is left of  *)
(* PostedWhenUnused to show is that its units lose the thread that puts.    *)
LEMMA PutUnits ==
    ASSUME IInv, NEW d \in Devices, NEW x \in Units(d), memory[d], memory' = memory,
           object' = [object EXCEPT ![d] = PutBack(@)],
           \A e \in Devices : Units(e)' = IF e = d THEN Units(d) \ {x} ELSE Units(e)
    PROVE  PostedWhenUnused' /\ object' \in [Devices -> PlatformObjects]
<1> USE DEF IInv, TypeOK
<1>1. Counted(object[d], Units(d))
  BY DEF PostedWhenUnused, Counted
<1>2. PutBack(object[d]) \in PlatformObjects /\ Counted(PutBack(object[d]), Units(d) \ {x})
  BY <1>1, UnitsFinite, PutCounts
<1>3. object' \in [Devices -> PlatformObjects]
  BY <1>2
<1>4. ASSUME NEW e \in Devices, memory'[e]
      PROVE  Counted(object'[e], Units(e)')
  <2>1. CASE e = d
    BY <1>2, <2>1
  <2>2. CASE e # d
    BY <1>4, <2>2 DEF PostedWhenUnused, Counted
  <2> QED BY <2>1, <2>2
<1> QED BY <1>3, <1>4 DEF PostedWhenUnused, Counted

LEMMA PutByDriverKeeps == ASSUME IInv, ~Overlap, NEW d \in Devices, PutByDriver(d) PROVE IInv'
<1> USE DEF IInv, TypeOK, Labels, ListOK, HeldInCall, FreedWhenIdle, FreedUnreferenced, Goto
<1>1. /\ pc[d] = "put" /\ object' = [object EXCEPT ![d] = PutBack(@)]
      /\ pc' = [pc EXCEPT ![d] = "waiting"] /\ memory' = memory /\ devices' = devices /\ held' = held
  BY DEF PutByDriver, Release
<1>2. memory[d] /\ d \in Units(d)
  BY <1>1 DEF Units
<1>3. \A e \in Devices : Units(e)' = IF e = d THEN Units(d) \ {d} ELSE Units(e)
  BY <1>1 DEF Units
<1>4. PostedWhenUnused' /\ object' \in [Devices -> PlatformObjects]
  <2> HIDE DEF IInv, TypeOK, Labels, ListOK, HeldInCall, FreedWhenIdle, FreedUnreferenced
  <2> QED BY <1>1, <1>2, <1>3, PutUnits
<1>5. TypeOK'
  BY <1>1, <1>4
<1>6. Labels' /\ ListOK' /\ HeldInCall' /\ FreedWhenIdle' /\ FreedUnreferenced'
  BY <1>1
<1> QED BY <1>4, <1>5, <1>6

LEMMA PutKeeps == ASSUME IInv, ~Overlap, NEW u \in Users, Put(u) PROVE IInv'
<1> USE DEF IInv, TypeOK, Labels, ListOK, HeldInCall, FreedWhenIdle, FreedUnreferenced, Goto
<1>1. pc[u] = "put" /\ held[u] \in Devices /\ memory[held[u]] /\ u \in Units(held[u])
  BY DEF Put, Units
<1>2. /\ object' = [object EXCEPT ![held[u]] = PutBack(@)]
      /\ pc' = [pc EXCEPT ![u] = "idle"] /\ memory' = memory /\ devices' = devices
  BY DEF Put, Release
<1>3. pc'[u] = "idle"
  BY <1>2
<1>4. held' = [held EXCEPT ![u] = None]
  BY <1>3 DEF Put
<1>5. \A e \in Devices : Units(e)' = IF e = held[u] THEN Units(held[u]) \ {u} ELSE Units(e)
  BY <1>1, <1>2, <1>4 DEF Units
<1>6. PostedWhenUnused' /\ object' \in [Devices -> PlatformObjects]
  <2> HIDE DEF IInv, TypeOK, Labels, ListOK, HeldInCall, FreedWhenIdle, FreedUnreferenced
  <2> DEFINE d == held[u]
  <2>1. /\ d \in Devices /\ u \in Units(d) /\ memory[d] /\ memory' = memory
        /\ object' = [object EXCEPT ![d] = PutBack(@)]
        /\ \A e \in Devices : Units(e)' = IF e = d THEN Units(d) \ {u} ELSE Units(e)
    BY <1>1, <1>2, <1>5
  <2> HIDE DEF d
  <2> QED BY <2>1, PutUnits
<1>7. TypeOK'
  BY <1>2, <1>4, <1>6
<1>8. Labels' /\ ListOK' /\ HeldInCall' /\ FreedWhenIdle' /\ FreedUnreferenced'
  BY <1>1, <1>2, <1>4
<1> QED BY <1>6, <1>7, <1>8

(* The wait of a removal ends only when no user has the device.             *)
LEMMA UninitKeeps == ASSUME IInv, NEW d \in Devices, Uninit(d) PROVE IInv'
<1> USE DEF IInv, TypeOK, Labels, ListOK, HeldInCall, FreedWhenIdle, FreedUnreferenced, Goto
<1>1. /\ pc[d] = "waiting" /\ object[d].released > 0 /\ object' = [object EXCEPT ![d] = Ended(@)]
      /\ memory' = [memory EXCEPT ![d] = FALSE] /\ pc' = [pc EXCEPT ![d] = "idle"]
      /\ devices' = devices /\ held' = held
  BY DEF Uninit, MayEnd
<1>2. Units(d) = {}
  BY <1>1 DEF PostedWhenUnused
<1>3. \A u \in Users : held[u] # d
  BY <1>2 DEF Units
<1>4. Ended(object[d]) \in PlatformObjects
  <2>1. object[d] \in PlatformObjects
    OBVIOUS
  <2>2. \A c \in BOOLEAN :
          [refs |-> object[d].refs, released |-> object[d].released - 1, ready |-> c] \in PlatformObjects
    BY <1>1, <2>1 DEF PlatformObjects
  <2> QED BY <2>2, Zenon DEF Ended
<1>5. TypeOK'
  BY <1>1, <1>4
<1>6. Labels' /\ ListOK' /\ HeldInCall' /\ FreedWhenIdle' /\ FreedUnreferenced'
  BY <1>1, <1>3
<1>7. \A e \in Devices : Units(e)' = Units(e)
  BY <1>1 DEF Units
<1>8. PostedWhenUnused'
  BY <1>1, <1>7 DEF PostedWhenUnused
<1> QED BY <1>5, <1>6, <1>8

-----------------------------------------------------------------------------
(* Numbers being unique in the list, a search takes the device it returns.  *)
LEMMA FindKeeps == ASSUME IInv, NEW u \in Users, NEW d \in Devices, Find(u, d) PROVE IInv'
<1> USE DEF IInv, TypeOK, Labels, ListOK, HeldInCall, FreedWhenIdle, FreedUnreferenced, Goto
<1>1. /\ pc[u] = "idle" /\ d \in devices /\ held' = [held EXCEPT ![u] = d]
      /\ pc' = [pc EXCEPT ![u] = "using"] /\ memory' = memory /\ devices' = devices
  BY DEF Find
<1>2. SameNumber(d) = {d}
  BY <1>1 DEF SameNumber
<1>3. object' = [object EXCEPT ![d] = Got(@)]
  BY <1>2 DEF Find
<1>4. memory[d] /\ held[u] = None /\ d \in Units(d) /\ u \notin Units(d)
  BY <1>1 DEF Units
<1>5. \A e \in Devices : Units(e)' = IF e = d THEN Units(d) \cup {u} ELSE Units(e)
  BY <1>1, <1>4 DEF Units
<1>6. Counted(object[d], Units(d))
  BY <1>4 DEF PostedWhenUnused, Counted
<1>7. Got(object[d]) \in PlatformObjects /\ Counted(Got(object[d]), Units(d) \cup {u})
  BY <1>4, <1>6, UnitsFinite, TakeCounts
<1>8. TypeOK'
  BY <1>1, <1>3, <1>7
<1>9. Labels' /\ ListOK' /\ HeldInCall' /\ FreedWhenIdle' /\ FreedUnreferenced'
  BY <1>1, <1>4
<1>10. ASSUME NEW e \in Devices, memory'[e]
       PROVE  Counted(object'[e], Units(e)')
  <2>1. CASE e = d
    BY <1>3, <1>5, <1>7, <2>1
  <2>2. CASE e # d
    BY <1>1, <1>3, <1>5, <1>10, <2>2 DEF PostedWhenUnused, Counted
  <2> QED BY <2>1, <2>2
<1>11. PostedWhenUnused'
  BY <1>10 DEF PostedWhenUnused, Counted
<1> QED BY <1>8, <1>9, <1>11

LEMMA EndCallKeeps == ASSUME IInv, NEW u \in Users, EndCall(u) PROVE IInv'
<1> USE DEF IInv, TypeOK, Labels, ListOK, HeldInCall, FreedWhenIdle, FreedUnreferenced, Goto
<1>1. TypeOK' /\ Labels' /\ ListOK' /\ HeldInCall' /\ FreedWhenIdle' /\ FreedUnreferenced'
  BY DEF EndCall
<1>2. \A e \in Devices : Units(e)' = Units(e)
  BY DEF EndCall, Units
<1>3. PostedWhenUnused'
  BY <1>2 DEF EndCall, PostedWhenUnused
<1> QED BY <1>1, <1>3

LEMMA StutterKeeps == ASSUME IInv, UNCHANGED vars PROVE IInv'
BY DEF IInv, vars, TypeOK, Labels, ListOK, HeldInCall, FreedWhenIdle, FreedUnreferenced,
       PostedWhenUnused, Units

LEMMA Inductive == ASSUME ~Overlap PROVE Spec => []IInv
<1>1. Init => IInv
  BY InitHolds
<1>2. ASSUME IInv, [Next]_vars
      PROVE  IInv'
  <2>1. CASE UNCHANGED vars
    BY <1>2, <2>1, StutterKeeps
  <2>2. ASSUME NEW d \in Devices, Add(d) \/ Unlink(d) \/ DriverStep(d)
        PROVE  IInv'
    BY <1>2, <2>2, AddKeeps, UnlinkKeeps, PutByDriverKeeps, UninitKeeps DEF DriverStep
  <2>3. ASSUME NEW u \in Users, UserStep(u)
        PROVE  IInv'
    BY <1>2, <2>3, EndCallKeeps, PutKeeps DEF UserStep
  <2>4. ASSUME NEW u \in Users, NEW d \in Devices, Find(u, d)
        PROVE  IInv'
    BY <1>2, <2>4, FindKeeps
  <2> QED BY <1>2, <2>1, <2>2, <2>3, <2>4 DEF Next
<1> QED BY <1>1, <1>2, PTL DEF Spec

(* A device that a user has found is in memory, whatever the drivers and    *)
(* the other users do: the removal of it waits (platform_device.c:91).      *)
THEOREM NotFreedInUse == ASSUME ~Overlap PROVE Spec => []FreedUnreferenced
<1>1. IInv => FreedUnreferenced
  BY DEF IInv
<1> QED BY <1>1, Inductive, PTL

(* The reference count of a device in memory is the number of those who     *)
(* have it, and its semaphore is posted exactly when that is zero: a wait   *)
(* in a removal neither misses its wake-up nor takes that of an earlier     *)
(* life (platform_device.c:22, 52, 91).                                     *)
THEOREM PostedInTime == ASSUME ~Overlap PROVE Spec => []PostedWhenUnused
<1>1. IInv => PostedWhenUnused
  BY DEF IInv
<1> QED BY <1>1, Inductive, PTL

=============================================================================
