----------------------- MODULE DeviceManager_proof -----------------------
(***************************************************************************)
(* Proofs about the device manager, for every configuration of hosts and   *)
(* infos, every set of dynamic names and every bound; at the end, that it  *)
(* implements the service directory.                                       *)
(***************************************************************************)
EXTENDS DeviceDirectory, FiniteSetTheorems, TLAPS

-----------------------------------------------------------------------------
(* The configuration. *)

\* An info belongs to one host, and a dynamic one to the host of its template.
LEMMA HostOfInfo ==
  /\ \A s \in Names : HostOf(s) \in HostIds /\ Origin(s) \in Static
  /\ \A h \in HostIds : \A s \in Range(Infos[h]) : s \in Static /\ HostOf(s) = h
  /\ \A s \in Dynamic : Template[s] \in Static /\ HostOf(Template[s]) = HostOf(s)
<1>1. \A s \in Names : Origin(s) \in Static
  BY DynamicAssumption DEF Names, Origin
<1>2. \A s \in Static : \E h \in HostIds : s \in Range(Infos[h])
  BY DEF Static
<1>3. \A s \in Names : HostOf(s) \in HostIds /\ Origin(s) \in Range(Infos[HostOf(s)])
  BY <1>1, <1>2 DEF HostOf
<1>4. \A h \in HostIds : \A s \in Range(Infos[h]) : s \in Static /\ Origin(s) = s
  BY DEF Static, Origin
<1>5. \A h \in HostIds : \A s \in Range(Infos[h]) : HostOf(s) = h
  <2> SUFFICES ASSUME NEW h \in HostIds, NEW s \in Range(Infos[h]) PROVE HostOf(s) = h
    OBVIOUS
  <2>1. s \in Names /\ Origin(s) = s
    BY <1>4 DEF Names
  <2>2. HostOf(s) \in HostIds /\ s \in Range(Infos[HostOf(s)])
    BY <1>3, <2>1
  <2> QED
    BY <2>2, HostsAssumption
<1>6. \A s \in Dynamic : Template[s] \in Static /\ HostOf(Template[s]) = HostOf(s)
  BY DynamicAssumption DEF HostOf, Origin, Names
<1> QED
  BY <1>1, <1>3, <1>4, <1>5, <1>6

\* The infos of a host by position.
LEMMA InfoAt ==
  ASSUME NEW i \in 1..Len(Hosts), NEW j \in 1..Len(Infos[Hosts[i]])
  PROVE  Infos[Hosts[i]][j] \in Static /\ HostOf(Infos[Hosts[i]][j]) = Hosts[i]
<1>1. Hosts[i] \in HostIds
  BY HostsAssumption DEF HostIds, Range
<1>2. Infos[Hosts[i]][j] \in Range(Infos[Hosts[i]])
  BY <1>1, HostsAssumption DEF Range
<1> QED
  BY <1>1, <1>2, HostOfInfo

\* Identifiers are natural numbers.
LEMMA DevidNat ==
  /\ \A n \in Int : StoredDevid(n) \in Nat /\ DEVICEID(n) \in Nat
  /\ \A h, d \in Nat : MK_DEVID(h, d, 0) \in Nat
BY DEF StoredDevid, DEVICEID, MK_DEVID, DeviceIds, DevnodeIds

-----------------------------------------------------------------------------
(* Launching a node keeps the types. *)

LEMMA LaunchType ==
  ASSUME NodesTypeOK, NEW s \in Names, NEW id \in Nat, LaunchNode(s, id), nextKey <= MaxNodes
  PROVE  NodesTypeOK'
<1>1. HostOf(s) \in HostIds /\ DEVICEID(id) \in Nat
  BY HostOfInfo, DevidNat
<1>2. DOMAIN nodes' = DOMAIN nodes \cup {nextKey} /\ nextKey' = nextKey + 1
  BY DEF LaunchNode
<1>3. \A k \in DOMAIN nodes' : nodes'[k] \in NodeRecord
  BY <1>1, ParameterAssumption DEF LaunchNode, NodeRecord, NodesTypeOK
<1>4. devices' \in [HostIds -> SUBSET Nat]
  BY <1>1 DEF LaunchNode, QueryOrAddDevice, NodesTypeOK
<1>5. services' \subseteq Names \X (1..(nextKey' - 1)) /\ tokens' \subseteq 1..(nextKey' - 1)
  <2>1. 1..(nextKey - 1) \subseteq 1..(nextKey' - 1) /\ nextKey \in 1..(nextKey' - 1)
    BY <1>2, ParameterAssumption DEF NodesTypeOK
  <2>2. services' \subseteq services \cup {<<s, nextKey>>} /\ tokens' = tokens \cup {nextKey}
    BY DEF LaunchNode
  <2> QED
    BY <2>1, <2>2 DEF NodesTypeOK
<1>6. doubled' \subseteq Names
  BY DEF LaunchNode, NodesTypeOK
<1>7. DOMAIN nodes' \subseteq 1..(nextKey' - 1) /\ nextKey' \in 1..(MaxNodes + 1)
  BY <1>2, ParameterAssumption DEF NodesTypeOK
<1> QED
  BY <1>3, <1>4, <1>5, <1>6, <1>7 DEF NodesTypeOK

-----------------------------------------------------------------------------
(* Where the boot thread is, which hosts it has behind it and how many      *)
(* infos every host counts: what the types rest on.                         *)

BootInRange ==
    boot.host <= Len(Hosts) => boot.info <= Len(Infos[Hosts[boot.host]])

\* The boot thread starts a host once.
StartedBehind ==
    \A i \in 1..Len(Hosts) : Hosts[i] \in started =>
        boot.phase = "step2" \/ i < boot.host \/ (i = boot.host /\ boot.info > 0)

InfosOfStarted == \A s \in infos : HostOf(s) \in started

DynamicInfos(h) == {s \in Dynamic \cap infos : HostOf(s) = h}

\* The device count of a started host is the number of its infos.
CountsInfos ==
    \A h \in HostIds :
        devCount[h] = (IF h \in started THEN Len(Infos[h]) ELSE 0) + Cardinality(DynamicInfos(h))

BootInv == InfosTypeOK /\ BootInRange /\ StartedBehind /\ InfosOfStarted /\ CountsInfos

LEMMA LenInfos == Len(Hosts) \in Nat /\ \A i \in 1..Len(Hosts) :
                      Hosts[i] \in HostIds /\ Len(Infos[Hosts[i]]) \in Nat
BY HostsAssumption DEF HostIds, Range

LEMMA DynamicCount ==
  \A h : IsFiniteSet(DynamicInfos(h)) /\ Cardinality(DynamicInfos(h)) \in Nat
<1> TAKE h
<1>1. DynamicInfos(h) \subseteq Dynamic
  BY DEF DynamicInfos
<1> QED
  BY <1>1, DynamicAssumption, FS_Subset, FS_CardinalityType

\* The step to the next info keeps the boot thread in range.
LEMMA BootNextKeeps ==
  ASSUME BootInv, BootNext, boot.host <= Len(Hosts), started' = started, infos' = infos,
         UNCHANGED <<devId, devCount>>, preload' \in [Names -> Preloads]
  PROVE  BootInv'
<1> DEFINE last == Len(Infos[Hosts[boot.host]])
<1>1. /\ boot.host \in 1..Len(Hosts) /\ boot.info \in Nat /\ last \in Nat
      /\ boot \in [phase : {"install", "step2"}, host : Nat \ {0}, info : Nat]
  BY LenInfos DEF BootInv, InfosTypeOK
<1>2. /\ boot' \in [phase : {"install", "step2"}, host : Nat \ {0}, info : Nat]
      /\ boot'.phase = boot.phase
      /\ \/ boot'.host = boot.host /\ boot'.info = boot.info + 1 /\ boot.info < last
         \/ boot'.host = boot.host + 1 /\ boot'.info = 0
  <2>1. CASE boot.info < last
    <3>1. boot' = [boot EXCEPT !.info = boot.info + 1]
      BY <2>1 DEF BootNext
    <3> QED
      BY <1>1, <2>1, <3>1
  <2>2. CASE ~(boot.info < last)
    <3>1. boot' = [phase |-> boot.phase, host |-> boot.host + 1, info |-> 0]
      BY <2>2 DEF BootNext
    <3> QED
      BY <1>1, <3>1
  <2> QED
    BY <2>1, <2>2
<1>3. InfosTypeOK'
  BY <1>2 DEF BootInv, InfosTypeOK
<1>4. BootInRange'
  BY <1>1, <1>2, LenInfos DEF BootInRange
<1>5. StartedBehind'
  BY <1>1, <1>2, LenInfos DEF BootInv, StartedBehind
<1> QED
  BY <1>3, <1>4, <1>5 DEF BootInv, InfosOfStarted, CountsInfos, DynamicInfos

LEMMA BootInfoIsInfo ==
  ASSUME BootInv, boot.host <= Len(Hosts), boot.info > 0
  PROVE  BootInfo \in Names /\ HostOf(BootInfo) = Hosts[boot.host]
<1>1. boot.host \in 1..Len(Hosts) /\ boot.info \in 1..Len(Infos[Hosts[boot.host]])
  BY LenInfos DEF BootInv, InfosTypeOK, BootInRange
<1> QED
  BY <1>1, InfoAt DEF BootInfo, Names

LEMMA BootStepKeeps ==
  ASSUME BootInv, NEW outcome,
         \/ StartHost \/ StartHostFails \/ SkipDriver \/ StartStep2 \/ PassOver
         \/ InstallDriver(outcome) \/ LoadLeftDriver(outcome)
  PROVE  BootInv'
<1>1. CASE StartHost
  <2>0. /\ boot.host \in 1..Len(Hosts) /\ boot.info = 0 /\ boot.phase = "install"
        /\ Hosts[boot.host] \in HostIds
    BY <1>1, LenInfos DEF StartHost, Booting, BootInv, InfosTypeOK
  <2> PICK h \in HostIds : h = Hosts[boot.host]
    BY <2>0
  <2>1. /\ boot.host \in 1..Len(Hosts) /\ boot.info = 0 /\ boot.phase = "install"
        /\ h = Hosts[boot.host] /\ Len(Infos[h]) \in Nat
    BY <2>0, LenInfos
  <2>2. h \notin started
    BY <2>1 DEF BootInv, StartedBehind
  <2>3. /\ boot'.phase = "install" /\ boot'.host \in Nat \ {0} /\ boot'.info \in Nat
        /\ boot' \in [phase : {"install", "step2"}, host : Nat \ {0}, info : Nat]
        /\ boot'.host <= Len(Hosts) => boot'.info <= Len(Infos[Hosts[boot'.host]])
        /\ (boot'.host = boot.host /\ boot'.info > 0) \/ boot'.host = boot.host + 1
    <3>1. CASE boot.info < Len(Infos[h])
      <4>1. boot' = [boot EXCEPT !.info = boot.info + 1]
        BY <1>1, <3>1 DEF StartHost, BootNext
      <4> QED
        BY <2>1, <3>1, <4>1 DEF BootInv, InfosTypeOK
    <3>2. CASE ~(boot.info < Len(Infos[h]))
      <4>1. boot' = [phase |-> boot.phase, host |-> boot.host + 1, info |-> 0]
        BY <1>1, <3>2 DEF StartHost, BootNext
      <4> QED
        BY <2>1, <4>1, LenInfos DEF BootInv, InfosTypeOK
    <3> QED
      BY <3>1, <3>2
  <2>4. /\ started' = started \cup {h} /\ infos' = infos \cup Range(Infos[h])
        /\ devCount' = [devCount EXCEPT ![h] = Len(Infos[h])]
        /\ UNCHANGED <<preload, devId>>
    BY <1>1 DEF StartHost
  <2>5. InfosTypeOK'
    BY <2>1, <2>3, <2>4, HostOfInfo DEF BootInv, InfosTypeOK, Names
  <2>6. StartedBehind'
    <3> SUFFICES ASSUME NEW i \in 1..Len(Hosts), Hosts[i] \in started'
                 PROVE  i < boot'.host \/ (i = boot'.host /\ boot'.info > 0)
      BY DEF StartedBehind
    <3>1. CASE Hosts[i] \in started
      BY <2>1, <2>3, <3>1 DEF BootInv, StartedBehind
    <3>2. CASE Hosts[i] = h
      <4>1. i = boot.host
        BY <2>1, <3>2, HostsAssumption DEF IsInjective
      <4> QED
        BY <2>1, <2>3, <4>1
    <3> QED
      BY <2>4, <3>1, <3>2
  <2>7. InfosOfStarted'
    BY <2>1, <2>4, HostOfInfo DEF BootInv, InfosOfStarted
  <2>8. CountsInfos'
    <3>1. \A g : DynamicInfos(g)' = DynamicInfos(g)
      BY <2>1, <2>4, HostOfInfo, DynamicAssumption DEF DynamicInfos
    <3>2. DynamicInfos(h) = {}
      BY <2>2 DEF DynamicInfos, BootInv, InfosOfStarted
    <3>3. Cardinality(DynamicInfos(h)') = 0
      BY <3>1, <3>2, FS_EmptySet
    <3>4. \A g \in HostIds : g # h => (devCount'[g] = devCount[g] /\ (g \in started' <=> g \in started))
      BY <2>1, <2>4 DEF BootInv, InfosTypeOK
    <3>5. devCount'[h] = Len(Infos[h]) /\ h \in started'
      BY <2>1, <2>4 DEF BootInv, InfosTypeOK
    <3> QED
      BY <2>1, <3>1, <3>3, <3>4, <3>5 DEF BootInv, CountsInfos
  <2> QED
    BY <2>3, <2>5, <2>6, <2>7, <2>8 DEF BootInv, BootInRange
<1>2. CASE StartHostFails
  <2>1. boot.host \in 1..Len(Hosts) /\ boot.info = 0 /\ boot.phase = "install"
    BY <1>2 DEF StartHostFails, Booting, BootInv, InfosTypeOK
  <2>2. /\ boot' = [boot EXCEPT !.host = boot.host + 1]
        /\ UNCHANGED <<started, infos, preload, devId, devCount>>
    BY <1>2 DEF StartHostFails
  <2>3. /\ boot' \in [phase : {"install", "step2"}, host : Nat \ {0}, info : Nat]
        /\ boot'.host = boot.host + 1 /\ boot'.info = 0 /\ boot'.phase = boot.phase
    BY <2>1, <2>2 DEF BootInv, InfosTypeOK
  <2>4. InfosTypeOK' /\ BootInRange'
    BY <2>2, <2>3, LenInfos DEF BootInv, InfosTypeOK, BootInRange
  <2>5. StartedBehind'
    BY <2>1, <2>2, <2>3 DEF BootInv, StartedBehind
  <2> QED
    BY <2>2, <2>4, <2>5 DEF BootInv, InfosOfStarted, CountsInfos, DynamicInfos
<1>3. CASE SkipDriver \/ PassOver \/ InstallDriver(outcome) \/ LoadLeftDriver(outcome)
  <2>1. /\ BootNext /\ boot.host <= Len(Hosts)
        /\ UNCHANGED <<started, infos, devId, devCount>>
    BY <1>3 DEF SkipDriver, PassOver, InstallDriver, LoadLeftDriver, Booting
  <2>2. preload' \in [Names -> Preloads]
    BY <1>3 DEF SkipDriver, PassOver, InstallDriver, LoadLeftDriver, BootInv, InfosTypeOK, Preloads
  <2> QED
    BY <2>1, <2>2, BootNextKeeps
<1>4. CASE StartStep2
  <2>1. /\ boot' = [phase |-> "step2", host |-> 1, info |-> 0]
        /\ UNCHANGED <<started, infos, preload, devId, devCount>>
    BY <1>4 DEF StartStep2
  <2>2. InfosTypeOK' /\ BootInRange' /\ StartedBehind'
    BY <2>1, LenInfos DEF BootInv, InfosTypeOK, BootInRange, StartedBehind
  <2> QED
    BY <2>1, <2>2 DEF BootInv, InfosOfStarted, CountsInfos, DynamicInfos
<1> QED
  BY <1>1, <1>2, <1>3, <1>4

LEMMA RequestKeeps ==
  ASSUME BootInv, NEW outcome, NEW s \in Names,
         LoadDevice(s, outcome) \/ Register(s, outcome) \/ Unregister(s)
  PROVE  BootInv'
<1> DEFINE h == HostOf(s)
<1>1. h \in HostIds
  BY HostOfInfo
<1>2. UNCHANGED <<boot, started>>
  BY DEF LoadDevice, Register, Unregister
<1>3. BootInRange' /\ StartedBehind'
  BY <1>2 DEF BootInv, BootInRange, StartedBehind
<1>4. CASE LoadDevice(s, outcome)
  BY <1>2, <1>3, <1>4 DEF LoadDevice, BootInv, InfosTypeOK, InfosOfStarted, CountsInfos,
     DynamicInfos, Preloads
<1>5. CASE Register(s, outcome) /\ infos' = infos
  <2>1. UNCHANGED <<infos, devId, preload, devCount>>
    BY <1>5 DEF Register
  <2> QED
    BY <1>2, <1>3, <2>1 DEF BootInv, InfosTypeOK, InfosOfStarted, CountsInfos, DynamicInfos
<1>6. CASE Register(s, outcome) /\ infos' # infos
  <2>1. /\ s \in Dynamic /\ s \notin infos /\ Template[s] \in infos
        /\ infos' = infos \cup {s}
        /\ devId' = [devId EXCEPT ![s] = StoredDevid(devCount[h])]
        /\ preload' = [preload EXCEPT ![s] = "ENABLE"]
        /\ devCount' = [devCount EXCEPT ![h] = devCount[h] + 1]
    BY <1>6 DEF Register
  <2>2. InfosTypeOK'
    <3>1. devCount[h] \in Nat /\ StoredDevid(devCount[h]) \in Nat
      BY <1>1, DevidNat DEF BootInv, InfosTypeOK
    <3> QED
      BY <1>1, <1>2, <2>1, <3>1 DEF BootInv, InfosTypeOK, Preloads
  <2>3. InfosOfStarted'
    BY <1>2, <2>1, HostOfInfo DEF BootInv, InfosOfStarted
  <2>4. CountsInfos'
    <3>1. /\ DynamicInfos(h)' = DynamicInfos(h) \cup {s} /\ s \notin DynamicInfos(h)
          /\ \A g : g # h => DynamicInfos(g)' = DynamicInfos(g)
      BY <2>1 DEF DynamicInfos
    <3>2. Cardinality(DynamicInfos(h)') = Cardinality(DynamicInfos(h)) + 1
      BY <3>1, DynamicCount, FS_AddElement
    <3>3. \A g \in HostIds : devCount'[g] = IF g = h THEN devCount[h] + 1 ELSE devCount[g]
      BY <1>1, <2>1 DEF BootInv, InfosTypeOK
    <3> DEFINE base(g) == IF g \in started THEN Len(Infos[g]) ELSE 0
    <3>4. \A g \in HostIds : base(g) \in Nat
      BY HostsAssumption
    <3>5. \A g \in HostIds : devCount[g] = base(g) + Cardinality(DynamicInfos(g))
      BY DEF BootInv, CountsInfos
    <3>6. devCount[h] + 1 = base(h) + Cardinality(DynamicInfos(h)')
      BY <1>1, <3>2, <3>4, <3>5, DynamicCount
    <3>7. \A g \in HostIds : devCount'[g] = base(g) + Cardinality(DynamicInfos(g)')
      BY <3>1, <3>3, <3>5, <3>6
    <3> QED
      BY <1>2, <3>7 DEF CountsInfos
  <2> QED
    BY <1>3, <2>2, <2>3, <2>4 DEF BootInv
<1>7. CASE Unregister(s)
  <2>1. /\ s \in Dynamic /\ s \in infos
        /\ infos' = infos \ {s}
        /\ devId' = [devId EXCEPT ![s] = 0]
        /\ preload' = [preload EXCEPT ![s] = "DISABLE"]
        /\ devCount' = [devCount EXCEPT ![h] = devCount[h] - 1]
    BY <1>7 DEF Unregister
  <2>2. /\ DynamicInfos(h)' = DynamicInfos(h) \ {s} /\ s \in DynamicInfos(h)
        /\ \A g : g # h => DynamicInfos(g)' = DynamicInfos(g)
    BY <2>1 DEF DynamicInfos
  <2>3. Cardinality(DynamicInfos(h)') = Cardinality(DynamicInfos(h)) - 1
    BY <2>2, DynamicCount, FS_RemoveElement
  <2> DEFINE base(g) == IF g \in started THEN Len(Infos[g]) ELSE 0
  <2>4. \A g \in HostIds : base(g) \in Nat
    BY HostsAssumption
  <2>5. \A g \in HostIds : devCount[g] = base(g) + Cardinality(DynamicInfos(g))
    BY DEF BootInv, CountsInfos
  <2>6. devCount[h] - 1 = base(h) + Cardinality(DynamicInfos(h)')
    BY <1>1, <2>3, <2>4, <2>5, DynamicCount
  <2>7. Cardinality(DynamicInfos(h)') \in Nat
    BY <2>2, DynamicCount, FS_Subset, FS_CardinalityType
  <2>8. devCount[h] - 1 \in Nat
    BY <1>1, <2>4, <2>6, <2>7
  <2>9. InfosTypeOK'
    BY <1>1, <1>2, <2>1, <2>8 DEF BootInv, InfosTypeOK, Preloads
  <2>10. InfosOfStarted'
    BY <1>2, <2>1 DEF BootInv, InfosOfStarted
  <2>11. \A g \in HostIds : devCount'[g] = IF g = h THEN devCount[h] - 1 ELSE devCount[g]
    BY <1>1, <2>1 DEF BootInv, InfosTypeOK
  <2>12. \A g \in HostIds : devCount'[g] = base(g) + Cardinality(DynamicInfos(g)')
    BY <2>2, <2>5, <2>6, <2>11
  <2>13. CountsInfos'
    BY <1>2, <2>12 DEF CountsInfos
  <2> QED
    BY <1>3, <2>9, <2>10, <2>13 DEF BootInv
<1> QED
  BY <1>4, <1>5, <1>6, <1>7

-----------------------------------------------------------------------------
(* The shapes of a step: what the boot thread or a request does to the      *)
(* nodes is to launch one, to free some, or nothing.                        *)

\* Some nodes of host h go, and device d with them if it is left empty.
Frees(gone, h, d) ==
    /\ h \in HostIds
    /\ FreeNodes(gone) /\ gone \subseteq NodesOf(h, d)
    /\ devices' = IF NodesOf(h, d) = gone THEN WithoutDevice(h, d) ELSE devices

Launched(s, id) ==
    /\ s \in Names /\ id \in Nat /\ nextKey <= MaxNodes
    /\ ~FileTaken(s)
    /\ LaunchNode(s, id)

NodesAsBefore == UNCHANGED <<devices, nodes, nextKey, tokens, services, doubled>>

NodeStep ==
    \/ \E s, id : Launched(s, id)
    \/ \E gone, h, d : Frees(gone, h, d)
    \/ NodesAsBefore

LEMMA AddDeviceStep ==
  ASSUME NEW s \in Names, NEW id \in Nat, NEW outcome, AddDevice(s, id, outcome)
  PROVE  NodeStep
<1>1. HostOf(s) \in HostIds
  BY HostOfInfo
<1>2. CASE Launches(s, id, outcome)
  BY <1>2 DEF AddDevice, Launches, NodeStep, Launched
<1>3. CASE ~Launches(s, id, outcome)
  <2>1. Frees(NodesOf(HostOf(s), DEVICEID(id)), HostOf(s), DEVICEID(id))
    BY <1>1, <1>3 DEF AddDevice, LaunchFails, Frees
  <2> QED
    BY <2>1 DEF NodeStep
<1> QED
  BY <1>2, <1>3

LEMMA DelDeviceStep ==
  ASSUME NEW h \in HostIds, NEW id, DelDevice(h, id), NodesTypeOK, DevicesMatchNodes
  PROVE  NodeStep
<1> DEFINE d     == DEVICEID(id)
           match == {k \in NodesOf(h, d) : nodes[k].devId = id}
           first == {k \in match : \A m \in match : k <= m}
<1>1. CASE d \notin devices[h]
  BY <1>1 DEF DelDevice, NodeStep, NodesAsBefore
<1>2. CASE d \in devices[h]
  <2>1. FreeNodes(first) /\ first \subseteq NodesOf(h, d)
    BY <1>2 DEF DelDevice
  <2>2. NodesOf(h, d) # {}
    BY <1>2 DEF DevicesMatchNodes, NodesOf
  <2>3. devices' = IF NodesOf(h, d) = first THEN WithoutDevice(h, d) ELSE devices
    BY <1>2, <2>2 DEF DelDevice
  <2>4. Frees(first, h, d)
    BY <2>1, <2>3 DEF Frees
  <2> QED
    BY <2>4 DEF NodeStep
<1> QED
  BY <1>1, <1>2

LEMMA NextIsNodeStep ==
  ASSUME TypeOK, BootInv, DevicesMatchNodes, [Next]_vars
  PROVE  NodeStep
<1> USE DEF TypeOK
<1>1. \A s \in Names : devId[s] \in Nat
  BY DEF InfosTypeOK
<1>2. ASSUME NEW outcome \in Outcomes, InstallDriver(outcome) \/ LoadLeftDriver(outcome)
      PROVE  NodeStep
  <2>1. boot.host <= Len(Hosts) /\ boot.info > 0 /\ AddDevice(BootInfo, devId[BootInfo], outcome)
    BY <1>2 DEF InstallDriver, LoadLeftDriver, Booting
  <2> QED
    BY <1>1, <2>1, BootInfoIsInfo, AddDeviceStep
<1>3. ASSUME NEW outcome \in Outcomes, NEW s \in Names, LoadDevice(s, outcome)
      PROVE  NodeStep
  BY <1>1, <1>3, AddDeviceStep DEF LoadDevice
<1>4. ASSUME NEW outcome \in Outcomes, NEW s \in Names, Register(s, outcome)
      PROVE  NodeStep
  <2>1. StoredDevid(devCount[HostOf(s)]) \in Nat
    <3>1. devCount[HostOf(s)] \in Int
      BY HostOfInfo DEF InfosTypeOK
    <3> QED
      BY <3>1, DevidNat
  <2> QED
    BY <1>4, <2>1, AddDeviceStep DEF Register
<1>5. ASSUME NEW s \in Names, Unregister(s)
      PROVE  NodeStep
  BY <1>5, HostOfInfo, DelDeviceStep DEF Unregister
<1>6. CASE StartHost \/ StartHostFails \/ SkipDriver \/ StartStep2 \/ PassOver \/ UNCHANGED vars
  BY <1>6 DEF StartHost, StartHostFails, SkipDriver, StartStep2, PassOver, vars,
     NodeStep, NodesAsBefore
<1> QED
  BY <1>2, <1>3, <1>4, <1>5, <1>6 DEF Next

-----------------------------------------------------------------------------
(* The inductive invariant.  Names that two nodes have never offered at one *)
(* time have exactly the records of the nodes that offer them; without that *)
(* history a removal by name may take another node's record.                *)

OneProvider ==
    \A s \in Names \ doubled :
        /\ RecordsOf(s) = IF Exported(s) THEN Offering(s) ELSE {}
        /\ Exported(s) => \A j, k \in Offering(s) : j = k

\* What FileTaken brings about.
CapacityNotDoubled == \A s \in doubled : PolicyOf(s) # "CAPACITY"

IInv == /\ TypeOK
        /\ BootInRange /\ StartedBehind /\ InfosOfStarted /\ CountsInfos
        /\ DevicesMatchNodes /\ OneProvider /\ CapacityNotDoubled

LEMMA InitIInv == Init => IInv
<1> SUFFICES ASSUME Init PROVE IInv
  OBVIOUS
<1>1. NodesTypeOK
  BY ParameterAssumption DEF Init, NodesTypeOK
<1>2. InfosTypeOK
  <2>1. \A s \in Static : StoredDevid(MK_DEVID(HostOf(s), DeviceIndex[s], 0)) \in Nat
    <3> SUFFICES ASSUME NEW s \in Static
                 PROVE  StoredDevid(MK_DEVID(HostOf(s), DeviceIndex[s], 0)) \in Nat
      OBVIOUS
    <3>1. HostOf(s) \in HostIds
      BY HostOfInfo DEF Names
    <3>2. HostOf(s) \in Nat
      BY <3>1, HostsAssumption DEF HostIds, Range
    <3> QED
      BY <3>2, DevidNat, InfosAssumption
  <2>2. preload \in [Names -> Preloads]
    BY InfosAssumption DEF Init, Preloads
  <2> QED
    BY <2>1, <2>2 DEF Init, InfosTypeOK
<1>3. BootInRange /\ StartedBehind /\ InfosOfStarted
  BY LenInfos DEF Init, BootInRange, StartedBehind, InfosOfStarted
<1>4. CountsInfos
  <2>1. \A h \in HostIds : DynamicInfos(h) = {}
    BY DEF Init, DynamicInfos
  <2>2. \A h \in HostIds : Cardinality(DynamicInfos(h)) = 0
    BY <2>1, FS_EmptySet
  <2> QED
    BY <2>2 DEF Init, CountsInfos
<1>5. DevicesMatchNodes /\ OneProvider /\ CapacityNotDoubled
  <2>1. DOMAIN nodes = {}
    BY DEF Init
  <2> QED
    BY <2>1 DEF Init, DevicesMatchNodes, OneProvider, CapacityNotDoubled, RecordsOf, Offering
<1> QED
  BY <1>1, <1>2, <1>3, <1>4, <1>5 DEF IInv, TypeOK

\* A launch keeps the matching of devices, nodes and records.
LEMMA LaunchKeeps ==
  ASSUME IInv, NEW s, NEW id, Launched(s, id)
  PROVE  DevicesMatchNodes' /\ OneProvider' /\ CapacityNotDoubled'
<1> DEFINE rec == [svc |-> s, host |-> HostOf(s), dev |-> DEVICEID(id), devId |-> id]
<1>1. /\ s \in Names /\ HostOf(s) \in HostIds
      /\ nextKey \in Keys /\ nextKey \notin DOMAIN nodes
      /\ \A r \in services : r[2] # nextKey
      /\ devices \in [HostIds -> SUBSET Nat]
  BY HostOfInfo, ParameterAssumption DEF IInv, TypeOK, NodesTypeOK, Launched, Keys
<1>2. /\ DOMAIN nodes' = DOMAIN nodes \cup {nextKey}
      /\ nodes'[nextKey] = rec
      /\ \A k \in DOMAIN nodes : nodes'[k] = nodes[k]
  BY <1>1 DEF Launched, LaunchNode
<1>3. DevicesMatchNodes'
  <2> SUFFICES ASSUME NEW h \in HostIds
               PROVE  devices'[h] = {nodes'[k].dev : k \in {j \in DOMAIN nodes' : nodes'[j].host = h}}
    BY DEF DevicesMatchNodes
  <2>1. devices[h] = {nodes[k].dev : k \in {j \in DOMAIN nodes : nodes[j].host = h}}
    BY DEF IInv, DevicesMatchNodes
  <2>2. devices'[h] = IF h = HostOf(s) THEN devices[h] \cup {DEVICEID(id)} ELSE devices[h]
    BY <1>1 DEF Launched, LaunchNode, QueryOrAddDevice
  <2>3. {j \in DOMAIN nodes' : nodes'[j].host = h} =
            {j \in DOMAIN nodes : nodes[j].host = h}
                \cup (IF h = HostOf(s) THEN {nextKey} ELSE {})
    BY <1>2
  <2> QED
    BY <1>2, <2>1, <2>2, <2>3
<1>4. \A r \in Names : Offering(r)' = IF r = s THEN Offering(r) \cup {nextKey} ELSE Offering(r)
  BY <1>2 DEF Offering
<1>5. \A r \in Names : RecordsOf(r)' = IF r = s /\ Exported(s)
                                     THEN RecordsOf(r) \cup {nextKey} ELSE RecordsOf(r)
  <2>1. services' = services \cup (IF Exported(s) THEN {<<s, nextKey>>} ELSE {})
    BY DEF Launched, LaunchNode
  <2> QED
    BY <1>1, <2>1 DEF RecordsOf
<1>6. doubled' = doubled \cup (IF Exported(s) /\ Offering(s) # {} THEN {s} ELSE {})
  BY DEF Launched, LaunchNode
<1>7. OneProvider'
  <2> SUFFICES ASSUME NEW r \in Names, r \notin doubled'
               PROVE  /\ RecordsOf(r)' = IF Exported(r) THEN Offering(r)' ELSE {}
                      /\ Exported(r) => \A j, k \in Offering(r)' : j = k
    BY DEF OneProvider, Exported
  <2>1. /\ r \notin doubled
        /\ RecordsOf(r) = IF Exported(r) THEN Offering(r) ELSE {}
        /\ Exported(r) => \A j, k \in Offering(r) : j = k
    BY <1>6 DEF IInv, OneProvider
  <2>2. CASE r = s
    <3>1. Exported(r) => Offering(r) = {}
      BY <1>6, <2>2
    <3> QED
      BY <1>4, <1>5, <2>1, <2>2, <3>1
  <2>3. CASE r # s
    BY <1>4, <1>5, <2>1, <2>3
  <2> QED
    BY <2>2, <2>3
<1>8. CapacityNotDoubled'
  BY <1>6 DEF IInv, CapacityNotDoubled, Launched, FileTaken
<1> QED
  BY <1>3, <1>7, <1>8

\* Freeing nodes keeps it too: the records that go are those of the nodes.
LEMMA FreeKeeps ==
  ASSUME IInv, NEW gone, NEW h, NEW d, Frees(gone, h, d)
  PROVE  DevicesMatchNodes' /\ OneProvider' /\ CapacityNotDoubled'
<1>1. /\ DOMAIN nodes' = DOMAIN nodes \ gone
      /\ \A k \in DOMAIN nodes' : nodes'[k] = nodes[k]
      /\ gone \subseteq DOMAIN nodes
      /\ services' = services \ Removed(gone)
      /\ doubled' = doubled
      /\ \A k \in gone : nodes[k].host = h /\ nodes[k].dev = d
      /\ h \in HostIds /\ devices \in [HostIds -> SUBSET Nat]
  BY DEF Frees, FreeNodes, NodesOf, IInv, TypeOK, NodesTypeOK
<1>2. DevicesMatchNodes'
  <2> SUFFICES ASSUME NEW g \in HostIds
               PROVE  devices'[g] = {nodes'[k].dev : k \in {j \in DOMAIN nodes' : nodes'[j].host = g}}
    BY DEF DevicesMatchNodes
  <2>1. devices[g] = {nodes[k].dev : k \in {j \in DOMAIN nodes : nodes[j].host = g}}
    BY DEF IInv, DevicesMatchNodes
  <2>2. {nodes'[k].dev : k \in {j \in DOMAIN nodes' : nodes'[j].host = g}} =
            {nodes[k].dev : k \in {j \in DOMAIN nodes \ gone : nodes[j].host = g}}
    BY <1>1
  <2>3. CASE g # h
    <3>1. devices'[g] = devices[g]
      BY <1>1, <2>3 DEF Frees, WithoutDevice
    <3> QED
      BY <1>1, <2>1, <2>2, <2>3, <3>1
  <2>4. CASE g = h /\ NodesOf(h, d) = gone
    <3>1. devices'[g] = devices[g] \ {d}
      BY <1>1, <2>4 DEF Frees, WithoutDevice
    <3>2. \A k \in DOMAIN nodes : nodes[k].host = g => (k \in gone <=> nodes[k].dev = d)
      BY <2>4 DEF NodesOf
    <3> QED
      BY <2>1, <2>2, <3>1, <3>2
  <2>5. CASE g = h /\ NodesOf(h, d) # gone
    <3>1. devices'[g] = devices[g]
      BY <2>5 DEF Frees
    <3>2. PICK k \in DOMAIN nodes \ gone : nodes[k].host = g /\ nodes[k].dev = d
      BY <2>5 DEF NodesOf, Frees
    <3> QED
      BY <1>1, <2>1, <2>2, <2>5, <3>1, <3>2
  <2> QED
    BY <2>3, <2>4, <2>5
<1>3. \A s \in Names : Offering(s)' = Offering(s) \ gone
  BY <1>1 DEF Offering
<1>4. OneProvider'
  <2> SUFFICES ASSUME NEW s \in Names, s \notin doubled
               PROVE  /\ RecordsOf(s)' = IF Exported(s) THEN Offering(s)' ELSE {}
                      /\ Exported(s) => \A j, k \in Offering(s)' : j = k
    BY <1>1 DEF OneProvider, Exported
  <2>1. /\ RecordsOf(s) = IF Exported(s) THEN Offering(s) ELSE {}
        /\ Exported(s) => \A j, k \in Offering(s) : j = k
    BY DEF IInv, OneProvider
  <2>2. RecordsOf(s)' = {k \in RecordsOf(s) : <<s, k>> \notin Removed(gone)}
    BY <1>1 DEF RecordsOf
  <2>3. CASE ~Exported(s)
    BY <2>1, <2>2, <2>3
  <2>4. CASE Exported(s)
    <3>1. \A k \in RecordsOf(s) : <<s, k>> \in Removed(gone) <=> k \in gone
      <4> SUFFICES ASSUME NEW k \in RecordsOf(s)
                   PROVE  <<s, k>> \in Removed(gone) <=> k \in gone
        OBVIOUS
      <4>1. Offering(s) = {k} /\ RecordsOf(s) = {k}
        BY <2>1, <2>4
      <4>2. {j \in RecordsOf(s) : j > k} = {}
        BY <4>1 DEF RecordsOf, Keys
      <4>3. Cardinality({j \in RecordsOf(s) : j > k}) = 0
        BY <4>2, FS_EmptySet
      <4>4. gone \cap Offering(s) = IF k \in gone THEN {k} ELSE {}
        BY <4>1
      <4>5. Cardinality(gone \cap Offering(s)) = IF k \in gone THEN 1 ELSE 0
        BY <4>4, FS_EmptySet, FS_Singleton
      <4>6. <<s, k>> \in services
        BY DEF RecordsOf
      <4> QED
        BY <4>3, <4>5, <4>6 DEF Removed
    <3> QED
      BY <1>3, <2>1, <2>2, <2>4, <3>1
  <2> QED
    BY <2>3, <2>4
<1>5. CapacityNotDoubled'
  BY <1>1 DEF IInv, CapacityNotDoubled
<1> QED
  BY <1>2, <1>4, <1>5

LEMMA NextIInv == IInv /\ [Next]_vars => IInv'
<1> SUFFICES ASSUME IInv, [Next]_vars PROVE IInv'
  OBVIOUS
<1>1. BootInv
  BY DEF IInv, BootInv, TypeOK
<1>2. BootInv'
  <2>1. CASE UNCHANGED vars
    BY <1>1, <2>1 DEF vars, BootInv, InfosTypeOK, BootInRange, StartedBehind, InfosOfStarted,
       CountsInfos, DynamicInfos
  <2>2. CASE Next
    <3>1. ASSUME StartHost \/ StartHostFails \/ SkipDriver \/ StartStep2 \/ PassOver
          PROVE  BootInv'
      BY <1>1, <3>1, BootStepKeeps
    <3>2. ASSUME NEW outcome \in Outcomes, InstallDriver(outcome) \/ LoadLeftDriver(outcome)
          PROVE  BootInv'
      BY <1>1, <3>2, BootStepKeeps
    <3> QED
      BY <1>1, <2>2, <3>1, <3>2, RequestKeeps DEF Next
  <2> QED
    BY <2>1, <2>2
<1>3. NodeStep
  BY <1>1, NextIsNodeStep DEF IInv
<1>4. NodesTypeOK'
  <2>1. ASSUME NEW s, NEW id, Launched(s, id) PROVE NodesTypeOK'
    BY <2>1, LaunchType DEF Launched, IInv, TypeOK
  <2>2. ASSUME NEW gone, NEW h, NEW d, Frees(gone, h, d) PROVE NodesTypeOK'
    BY <2>2 DEF Frees, FreeNodes, Removed, WithoutDevice, IInv, TypeOK, NodesTypeOK
  <2>3. CASE NodesAsBefore
    BY <2>3 DEF NodesAsBefore, IInv, TypeOK, NodesTypeOK
  <2> QED
    BY <1>3, <2>1, <2>2, <2>3 DEF NodeStep
<1>5. DevicesMatchNodes' /\ OneProvider' /\ CapacityNotDoubled'
  <2>1. CASE NodesAsBefore
    BY <2>1 DEF NodesAsBefore, IInv, DevicesMatchNodes, OneProvider, CapacityNotDoubled,
       RecordsOf, Offering
  <2> QED
    BY <1>3, <2>1, LaunchKeeps, FreeKeeps DEF NodeStep
<1> QED
  BY <1>2, <1>4, <1>5 DEF IInv, BootInv, TypeOK

LEMMA Inductive == Spec => []IInv
BY InitIInv, NextIInv, PTL DEF Spec

-----------------------------------------------------------------------------
(* The state of the device manager stays in its types; in particular no     *)
(* host's device count is ever decremented below zero.                      *)
THEOREM TypeCorrect == Spec => []TypeOK
<1>1. IInv => TypeOK
  BY DEF IInv
<1> QED
  BY <1>1, Inductive, PTL

(* A client that looks up a service is never handed the object of a freed   *)
(* node, unless two nodes have offered the name at one time.                *)
THEOREM NeverDangling == Spec => []ServiceHasProvider
<1>1. IInv => ServiceHasProvider
  <2> SUFFICES ASSUME IInv, NEW r \in services, r[1] \notin doubled
               PROVE  r[2] \in Offering(r[1])
    BY DEF ServiceHasProvider
  <2>1. PICK s \in Names, k \in 1..(nextKey - 1) : r = <<s, k>>
    BY DEF IInv, TypeOK, NodesTypeOK
  <2>2. k \in RecordsOf(s)
    BY <2>1, ParameterAssumption DEF RecordsOf, Keys, IInv, TypeOK, NodesTypeOK
  <2> QED
    BY <2>1, <2>2 DEF IInv, OneProvider
<1> QED
  BY <1>1, Inductive, PTL

(* A device is on its host's list exactly while nodes are attached to it,   *)
(* through failed loads, repeated loads and unloads of the wrong node.      *)
THEOREM DevicesAreInUse == Spec => []DevicesMatchNodes
<1>1. IInv => DevicesMatchNodes
  BY DEF IInv
<1> QED
  BY <1>1, Inductive, PTL

-----------------------------------------------------------------------------
(* Records and nodes agree in number.  A freed node takes the newest record *)
(* of its name with it, whichever node that record stands for: so what      *)
(* counts is how many are newer than a record.                              *)

Above(R, k) == Cardinality({j \in R : j > k})

Counted(s) == Cardinality(RecordsOf(s)) = IF Exported(s) THEN Cardinality(Offering(s)) ELSE 0

\* The numbers of a finite set are told apart by how many are above them.
LEMMA AboveIsPlace ==
  ASSUME NEW R \in SUBSET Nat, IsFiniteSet(R)
  PROVE  [k \in R |-> Above(R, k)] \in Bijection(R, 0..(Cardinality(R) - 1))
<1> DEFINE place == [k \in R |-> Above(R, k)]
<1>1. Cardinality(R) \in Nat
  BY FS_CardinalityType
<1>2. \A k \in R : IsFiniteSet({j \in R : j > k}) /\ Above(R, k) \in Nat
  <2> SUFFICES ASSUME NEW k \in R
               PROVE  IsFiniteSet({j \in R : j > k}) /\ Above(R, k) \in Nat
    OBVIOUS
  <2>1. IsFiniteSet({j \in R : j > k})
    <3>1. {j \in R : j > k} \in SUBSET R
      OBVIOUS
    <3> QED
      BY <3>1, FS_Subset
  <2> QED
    BY <2>1, FS_CardinalityType DEF Above
<1>3. place \in [R -> 0..(Cardinality(R) - 1)]
  <2> SUFFICES ASSUME NEW k \in R PROVE Above(R, k) \in 0..(Cardinality(R) - 1)
    OBVIOUS
  <2>1. IsFiniteSet(R \ {k}) /\ Cardinality(R \ {k}) = Cardinality(R) - 1
    BY FS_RemoveElement
  <2>2. {j \in R : j > k} \in SUBSET (R \ {k})
    OBVIOUS
  <2>3. Above(R, k) <= Cardinality(R) - 1
    BY <2>1, <2>2, FS_Subset DEF Above
  <2>4. Above(R, k) \in Nat
    BY <1>2
  <2> QED
    BY <1>1, <2>3, <2>4
<1>4. ASSUME NEW i \in R, NEW k \in R, i < k PROVE Above(R, k) < Above(R, i)
  <2>1. {j \in R : j > k} \in SUBSET {j \in R : j > i}
    <3>1. \A j \in R : j > k => j > i
      BY <1>4
    <3> QED
      BY <3>1
  <2>2. {j \in R : j > k} # {j \in R : j > i}
    <3>1. k \in {j \in R : j > i} /\ k \notin {j \in R : j > k}
      BY <1>4
    <3> QED
      BY <3>1
  <2>3. Above(R, k) <= Above(R, i) /\ Above(R, k) # Above(R, i)
    BY <1>2, <2>1, <2>2, FS_Subset DEF Above
  <2>4. Above(R, k) \in Nat /\ Above(R, i) \in Nat
    BY <1>2
  <2> QED
    BY <2>3, <2>4
<1>5. \A i, k \in R : i # k => place[i] # place[k]
  <2> SUFFICES ASSUME NEW i \in R, NEW k \in R, i # k PROVE Above(R, i) # Above(R, k)
    OBVIOUS
  <2>1. i < k \/ k < i
    OBVIOUS
  <2>2. Above(R, i) \in Nat /\ Above(R, k) \in Nat
    BY <1>2
  <2> QED
    BY <1>4, <2>1, <2>2
<1>6. place \in Injection(R, 0..(Cardinality(R) - 1))
  BY <1>3, <1>5 DEF Injection, IsInjective
<1>7. /\ IsFiniteSet(0..(Cardinality(R) - 1))
      /\ Cardinality(0..(Cardinality(R) - 1)) = Cardinality(R)
  <2>1. 0 \in Int /\ Cardinality(R) - 1 \in Int
    BY <1>1
  <2>2. /\ IsFiniteSet(0..(Cardinality(R) - 1))
        /\ Cardinality(0..(Cardinality(R) - 1)) =
              IF 0 > Cardinality(R) - 1 THEN 0 ELSE (Cardinality(R) - 1) - 0 + 1
    BY <2>1, FS_Interval
  <2> QED
    BY <1>1, <2>2
<1>8. place \in Surjection(R, 0..(Cardinality(R) - 1))
  BY <1>6, <1>7, FS_Injection
<1> QED
  BY <1>6, <1>8 DEF Bijection

\* The n newest are n.
LEMMA NewestCounted ==
  ASSUME NEW R \in SUBSET Nat, IsFiniteSet(R), NEW n \in 0..Cardinality(R)
  PROVE  LET left == {k \in R : Above(R, k) >= n}
         IN  IsFiniteSet(left) /\ Cardinality(left) = Cardinality(R) - n
<1> DEFINE place == [k \in R |-> Above(R, k)]
           taken == {k \in R : place[k] < n}
           left  == {k \in R : Above(R, k) >= n}
           some  == [k \in taken |-> place[k]]
<1>0. \A k \in R : place[k] = Above(R, k)
  OBVIOUS
<1>1. place \in Bijection(R, 0..(Cardinality(R) - 1))
  BY AboveIsPlace
<1>2. Cardinality(R) \in Nat /\ n \in Nat /\ n <= Cardinality(R)
  BY FS_CardinalityType
<1>3. /\ \A k \in R : place[k] \in 0..(Cardinality(R) - 1)
      /\ \A i, k \in R : place[i] = place[k] => i = k
      /\ \A m \in 0..(Cardinality(R) - 1) : \E k \in R : place[k] = m
  <2> HIDE DEF place
  <2> QED
    BY <1>1 DEF Bijection, Injection, IsInjective, Surjection
<1>4. some \in Bijection(taken, 0..(n - 1))
  <2> HIDE DEF place
  <2>1. some \in [taken -> 0..(n - 1)]
    <3>1. \A k \in taken : place[k] \in 0..(n - 1)
      BY <1>2, <1>3
    <3> QED
      BY <3>1
  <2>2. \A i, k \in taken : some[i] = some[k] => i = k
    BY <1>3
  <2>3. \A m \in 0..(n - 1) : \E k \in taken : some[k] = m
    <3> SUFFICES ASSUME NEW m \in 0..(n - 1) PROVE \E k \in taken : some[k] = m
      OBVIOUS
    <3>1. PICK k \in R : place[k] = m
      BY <1>2, <1>3
    <3> QED
      BY <1>2, <3>1
  <2> HIDE DEF some
  <2> QED
    BY <2>1, <2>2, <2>3 DEF Bijection, Injection, IsInjective, Surjection
<1>5. IsFiniteSet(taken) /\ taken \in SUBSET R
  BY FS_Subset
<1>6. Cardinality(0..(n - 1)) = n
  BY <1>2, FS_Interval
<1>7. Cardinality(taken) = n
  <2>1. ExistsBijection(taken, 0..(n - 1))
    BY <1>4 DEF ExistsBijection
  <2> QED
    BY <1>5, <1>6, <2>1, FS_Bijection
<1>8. left = R \ taken
  <2>1. \A k \in R : Above(R, k) >= n <=> ~(Above(R, k) < n)
    BY <1>0, <1>2, <1>3
  <2> QED
    BY <1>0, <2>1
<1>9. R \cap taken = taken
  OBVIOUS
<1>10. IsFiniteSet(R \ taken) /\ Cardinality(R \ taken) = Cardinality(R) - Cardinality(R \cap taken)
  BY FS_Difference
<1> QED
  BY <1>7, <1>8, <1>9, <1>10

\* The records and the nodes of a name are finitely many.
LEMMA NamesFinite ==
  ASSUME NodesTypeOK, NEW s
  PROVE  /\ RecordsOf(s) \in SUBSET Nat /\ IsFiniteSet(RecordsOf(s))
         /\ Offering(s) \in SUBSET Nat /\ IsFiniteSet(Offering(s))
<1>1. IsFiniteSet(Keys) /\ Keys \subseteq Nat
  BY ParameterAssumption, FS_Interval DEF Keys
<1>2. RecordsOf(s) \in SUBSET Keys /\ Offering(s) \in SUBSET Keys
  BY ParameterAssumption DEF RecordsOf, Offering, NodesTypeOK, Keys
<1> QED
  BY <1>1, <1>2, FS_Subset

\* A launch adds a node and, for an exported service, a record.
LEMMA LaunchCounted ==
  ASSUME NodesTypeOK, RecordsMatchNodes, NEW s, NEW id, Launched(s, id)
  PROVE  RecordsMatchNodes'
<1> SUFFICES ASSUME NEW r \in Names PROVE Counted(r)'
  BY DEF RecordsMatchNodes, Counted
<1>1. /\ s \in Names /\ nextKey \in Keys /\ nextKey \notin DOMAIN nodes
      /\ \A t \in services : t[2] # nextKey
  BY ParameterAssumption DEF NodesTypeOK, Launched, Keys
<1>2. /\ DOMAIN nodes' = DOMAIN nodes \cup {nextKey}
      /\ nodes'[nextKey].svc = s
      /\ \A k \in DOMAIN nodes : nodes'[k] = nodes[k]
  BY <1>1 DEF Launched, LaunchNode
<1>3. Offering(r)' = IF r = s THEN Offering(r) \cup {nextKey} ELSE Offering(r)
  BY <1>2 DEF Offering
<1>4. RecordsOf(r)' = IF r = s /\ Exported(s) THEN RecordsOf(r) \cup {nextKey} ELSE RecordsOf(r)
  BY <1>1 DEF RecordsOf, Launched, LaunchNode
<1>5. nextKey \notin Offering(r) /\ nextKey \notin RecordsOf(r)
  BY <1>1 DEF Offering, RecordsOf
<1>6. Counted(r)
  BY DEF RecordsMatchNodes, Counted
<1>7. /\ Cardinality(Offering(r) \cup {nextKey}) = Cardinality(Offering(r)) + 1
      /\ Cardinality(RecordsOf(r) \cup {nextKey}) = Cardinality(RecordsOf(r)) + 1
  BY <1>5, NamesFinite, FS_AddElement
<1>8. Exported(r)' = Exported(r)
  BY DEF Exported
<1> HIDE DEF Exported
<1> QED
  BY <1>3, <1>4, <1>6, <1>7, <1>8 DEF Counted

\* Freeing nodes takes as many records of a name as nodes.
LEMMA FreeCounted ==
  ASSUME NodesTypeOK, RecordsMatchNodes, NEW gone, NEW h, NEW d, Frees(gone, h, d)
  PROVE  RecordsMatchNodes'
<1> SUFFICES ASSUME NEW s \in Names PROVE Counted(s)'
  BY DEF RecordsMatchNodes, Counted
<1> DEFINE R == RecordsOf(s)
           N == Offering(s)
           n == Cardinality(gone \cap N)
<1>1. Offering(s)' = N \ gone
  BY DEF Frees, FreeNodes, NodesOf, Offering
<1>2. RecordsOf(s)' = {k \in R : Above(R, k) >= n}
  <2>1. services' = services \ Removed(gone)
    BY DEF Frees, FreeNodes
  <2>2. \A k \in R : <<s, k>> \in Removed(gone) <=> Above(R, k) < n
    BY DEF Removed, Above, RecordsOf
  <2>3. \A k \in R : Above(R, k) \in Nat /\ n \in Nat
    <3> SUFFICES ASSUME NEW k \in R PROVE Above(R, k) \in Nat /\ n \in Nat
      OBVIOUS
    <3>1. {j \in R : j > k} \in SUBSET R /\ gone \cap N \in SUBSET N
      OBVIOUS
    <3>2. IsFiniteSet({j \in R : j > k}) /\ IsFiniteSet(gone \cap N)
      BY <3>1, NamesFinite, FS_Subset
    <3> QED
      BY <3>2, FS_CardinalityType DEF Above
  <2>4. RecordsOf(s)' = {k \in R : <<s, k>> \notin Removed(gone)}
    BY <2>1 DEF RecordsOf
  <2> QED
    BY <2>2, <2>3, <2>4
<1>3. /\ R \in SUBSET Nat /\ IsFiniteSet(R) /\ Cardinality(R) \in Nat
      /\ IsFiniteSet(N) /\ Cardinality(N) \in Nat
  BY NamesFinite, FS_CardinalityType
<1>4. n \in 0..Cardinality(N) /\ Cardinality(N \ gone) = Cardinality(N) - n
  <2>1. gone \cap N = N \cap gone
    OBVIOUS
  <2>2. IsFiniteSet(N \cap gone) /\ Cardinality(N \cap gone) <= Cardinality(N)
    BY <1>3, FS_Intersection
  <2>3. n \in Nat
    BY <2>1, <2>2, FS_CardinalityType
  <2> QED
    BY <1>3, <2>1, <2>2, <2>3, FS_Difference
<1>5. Cardinality(R) = IF Exported(s) THEN Cardinality(N) ELSE 0
  BY DEF RecordsMatchNodes
<1>6. Exported(s)' = Exported(s)
  BY DEF Exported
<1>7. CASE Exported(s)
  <2>1. n \in 0..Cardinality(R)
    BY <1>4, <1>5, <1>7
  <2>2. Cardinality({k \in R : Above(R, k) >= n}) = Cardinality(R) - n
    BY <1>3, <2>1, NewestCounted
  <2> QED
    BY <1>1, <1>2, <1>4, <1>5, <1>6, <1>7, <2>2 DEF Counted
<1>8. CASE ~Exported(s)
  <2>1. R = {}
    BY <1>3, <1>5, <1>8, FS_EmptySet
  <2>2. {k \in R : Above(R, k) >= n} = {}
    BY <2>1
  <2> QED
    BY <1>2, <1>6, <1>8, <2>2, FS_EmptySet DEF Counted
<1> QED
  BY <1>7, <1>8

(* For every name the device service manager has as many records as there   *)
(* are live nodes that publish it, whatever loads failed, whichever         *)
(* siblings were freed and whichever node a request to unload hit: records  *)
(* are removed by name, so one may be taken for another, but none is left   *)
(* over and none is missing.                                                *)
THEOREM RecordsCounted == Spec => []RecordsMatchNodes
<1>1. Init => RecordsMatchNodes
  <2> SUFFICES ASSUME Init, NEW s \in Names PROVE Counted(s)
    BY DEF RecordsMatchNodes, Counted
  <2>1. RecordsOf(s) = {} /\ Offering(s) = {}
    BY DEF Init, RecordsOf, Offering
  <2> QED
    BY <2>1, FS_EmptySet DEF Counted
<1>2. IInv /\ RecordsMatchNodes /\ [Next]_vars => RecordsMatchNodes'
  <2> SUFFICES ASSUME IInv, RecordsMatchNodes, [Next]_vars PROVE RecordsMatchNodes'
    OBVIOUS
  <2>1. TypeOK /\ BootInv /\ DevicesMatchNodes /\ NodesTypeOK
    BY DEF IInv, BootInv, TypeOK
  <2>2. NodeStep
    BY <2>1, NextIsNodeStep
  <2>3. ASSUME NodesAsBefore PROVE RecordsMatchNodes'
    BY <2>3 DEF NodesAsBefore, RecordsMatchNodes, RecordsOf, Offering, Exported
  <2> QED
    BY <2>1, <2>2, <2>3, LaunchCounted, FreeCounted DEF NodeStep
<1> QED
  BY <1>1, <1>2, Inductive, PTL DEF Spec

-----------------------------------------------------------------------------
(* The service directory: the refinement that a run checks on the board.    *)

(* A service that is offered now has been served, by a node made before.    *)
ServedInv == FileNodes \subseteq served /\ served \subseteq 1..(nextKey - 1)

DInv == IInv /\ ServedInv

\* The provider of a service with a device file is the node that offers it.
LEMMA ProviderIsNode ==
  ASSUME IInv, NEW s \in FileNames
  PROVE  /\ \A k : Provider(s) = k /\ k # 0 => k \in Offering(s)
         /\ \A k \in Offering(s) : Provider(s) = k
         /\ Provider(s) = 0 <=> Offering(s) = {}
<1>1. s \in Names \ doubled /\ Exported(s)
  BY DEF FileNames, Exported, IInv, CapacityNotDoubled
<1>2. RecordsOf(s) = Offering(s) /\ \A j, k \in Offering(s) : j = k
  BY <1>1 DEF IInv, OneProvider
<1>3. Offering(s) \subseteq Keys /\ 0 \notin Keys /\ Keys \subseteq Nat
  <2>1. RecordsOf(s) \subseteq Keys
    BY DEF RecordsOf
  <2> QED
    BY <1>2, <2>1, ParameterAssumption DEF Keys
<1>4. CASE Offering(s) = {}
  BY <1>2, <1>4 DEF Provider
<1>5. CASE Offering(s) # {}
  <2>1. PICK k : Offering(s) = {k}
    BY <1>2, <1>5
  <2>2. Provider(s) = k
    BY <1>2, <1>3, <2>1 DEF Provider
  <2> QED
    BY <1>3, <2>1, <2>2
<1> QED
  BY <1>4, <1>5

\* It is the one with the record, too, in a state and in the next one.
LEMMA FileRecords ==
  /\ IInv => \A s \in FileNames : RecordsOf(s) = Offering(s)
  /\ IInv' => \A s \in FileNames : RecordsOf(s)' = Offering(s)'
<1>1. \A s \in FileNames : s \in Names /\ Exported(s) /\ PolicyOf(s) = "CAPACITY"
  BY DEF FileNames, Exported
<1>2. IInv => \A s \in FileNames : RecordsOf(s) = Offering(s)
  BY <1>1 DEF IInv, OneProvider, CapacityNotDoubled
<1>3. IInv' => \A s \in FileNames : RecordsOf(s)' = Offering(s)'
  BY <1>1 DEF IInv, OneProvider, CapacityNotDoubled, Exported, PolicyOf, Origin
<1> QED
  BY <1>2, <1>3

\* No node has the key that stands for no provider.
LEMMA ZeroNotFile ==
  ASSUME IInv
  PROVE  0 \notin FileNodes
BY ParameterAssumption DEF IInv, TypeOK, NodesTypeOK, FileNodes

LEMMA FileNodesAre == FileNodes = UNION {Offering(s) : s \in FileNames}
BY DEF FileNodes, Offering

LEMMA InitDInv == DInit => DInv /\ Directory!Init
<1> SUFFICES ASSUME DInit PROVE DInv /\ Directory!Init
  OBVIOUS
<1>1. IInv /\ DOMAIN nodes = {} /\ served = {}
  BY InitIInv DEF DInit, Init
<1>2. FileNodes = {} /\ \A s \in FileNames : Offering(s) = {}
  BY <1>1 DEF FileNodes, Offering
<1>3. \A s \in FileNames : Provider(s) = 0
  BY <1>1, <1>2, ProviderIsNode
<1> QED
  BY <1>1, <1>2, <1>3 DEF DInv, ServedInv, Directory!Init

LEMMA NextDInv == DInv /\ [DNext]_<<vars, served>> => DInv'
<1> SUFFICES ASSUME DInv, [DNext]_<<vars, served>> PROVE DInv'
  OBVIOUS
<1>1. [Next]_vars
  BY DEF DNext
<1>2. IInv'
  BY <1>1, NextIInv DEF DInv
<1>3. served' = served \cup FileNodes'
  <2>1. CASE DNext
    BY <2>1 DEF DNext, FileNodes
  <2>2. CASE UNCHANGED <<vars, served>>
    BY <2>2 DEF FileNodes, vars, DInv, ServedInv
  <2> QED
    BY <2>1, <2>2
<1>4. NodeStep
  BY <1>1, NextIsNodeStep DEF DInv, IInv, BootInv, TypeOK
<1>5. nextKey \in Nat /\ (nextKey' = nextKey \/ nextKey' = nextKey + 1)
  <2>1. nextKey \in Nat
    BY ParameterAssumption DEF DInv, IInv, TypeOK, NodesTypeOK
  <2>2. nextKey' = nextKey \/ nextKey' = nextKey + 1
    BY <1>4 DEF NodeStep, Launched, LaunchNode, Frees, FreeNodes, NodesAsBefore
  <2> QED
    BY <2>1, <2>2
<1>6. FileNodes' \subseteq 1..(nextKey' - 1)
  <2>1. FileNodes' \subseteq DOMAIN nodes'
    BY DEF FileNodes
  <2>2. DOMAIN nodes' \subseteq 1..(nextKey' - 1)
    BY <1>2 DEF IInv, TypeOK, NodesTypeOK
  <2> QED
    BY <2>1, <2>2
<1>7. 1..(nextKey - 1) \subseteq 1..(nextKey' - 1)
  <2>1. CASE nextKey' = nextKey
    BY <2>1
  <2>2. CASE nextKey' = nextKey + 1
    BY <1>5, <2>2
  <2> QED
    BY <1>5, <2>1, <2>2
<1>8. served' \subseteq 1..(nextKey' - 1)
  <2>1. served \subseteq 1..(nextKey - 1)
    BY DEF DInv, ServedInv
  <2> QED
    BY <2>1, <1>3, <1>6, <1>7
<1>9. ServedInv'
  BY <1>3, <1>8 DEF ServedInv
<1> QED
  BY <1>2, <1>9 DEF DInv

LEMMA StepRefines ==
  DInv /\ DInv' /\ [DNext]_<<vars, served>> =>
      [Directory!Next]_<<FileNodes, served, [s \in FileNames |-> Provider(s)]>>
<1> DEFINE offer == [s \in FileNames |-> Provider(s)]
<1> SUFFICES ASSUME DInv, DInv', [DNext]_<<vars, served>>
             PROVE  Directory!Next \/ UNCHANGED <<FileNodes, served, offer>>
  OBVIOUS
<1>1. NodeStep
  BY NextIsNodeStep DEF DNext, DInv, IInv, BootInv, TypeOK
<1>2. served' = served \cup FileNodes'
  <2>1. CASE DNext
    BY <2>1 DEF DNext, FileNodes
  <2>2. CASE UNCHANGED <<vars, served>>
    BY <2>2 DEF FileNodes, vars, DInv, ServedInv
  <2> QED
    BY <2>1, <2>2
<1>3. offer' = [s \in FileNames |-> Provider(s)']
  BY DEF FileNames, PolicyOf, Origin
<1>4. ASSUME NEW n, NEW id, Launched(n, id)
      PROVE  Directory!Next \/ UNCHANGED <<FileNodes, served, offer>>
  <2>1. /\ nextKey \in Keys /\ nextKey \notin DOMAIN nodes /\ nextKey \notin served
        /\ DOMAIN nodes' = DOMAIN nodes \cup {nextKey}
        /\ nodes'[nextKey].svc = n
        /\ \A k \in DOMAIN nodes : nodes'[k] = nodes[k]
    BY <1>4, ParameterAssumption DEF Launched, LaunchNode, DInv, ServedInv, IInv, TypeOK, NodesTypeOK, Keys
  <2>2. \A s \in FileNames : Offering(s)' = IF s = n THEN Offering(s) \cup {nextKey} ELSE Offering(s)
    BY <2>1 DEF Offering
  <2>3. \A s \in FileNames : s # n => Provider(s)' = Provider(s)
    <3> SUFFICES ASSUME NEW s \in FileNames, s # n PROVE Provider(s)' = Provider(s)
      OBVIOUS
    <3>1. Offering(s)' = Offering(s)
      BY <2>2
    <3>2. RecordsOf(s) = Offering(s) /\ RecordsOf(s)' = Offering(s)'
      BY FileRecords DEF DInv
    <3> QED
      BY <3>1, <3>2 DEF Provider
  <2>4. CASE n \notin FileNames
    <3>1. FileNodes' = FileNodes
      BY <2>1, <2>4 DEF FileNodes, FileNames, PolicyOf, Origin
    <3>2. offer' = offer
      BY <1>3, <2>3, <2>4
    <3> QED
      BY <1>2, <3>1, <3>2 DEF DInv, ServedInv
  <2>5. CASE n \in FileNames
    <3>1. Offering(n) = {}
      BY <1>4, <2>5 DEF Launched, FileTaken, FileNames
    <3>2. Provider(n) = 0 /\ Provider(n)' = nextKey
      <4>1. Provider(n) = 0
        BY <2>5, <3>1, ProviderIsNode DEF DInv
      <4>2. RecordsOf(n)' = {nextKey}
        BY <2>2, <2>5, <3>1, FileRecords DEF DInv
      <4>3. Provider(n)' = nextKey
        BY <2>1, <4>2 DEF Provider, Keys
      <4> QED
        BY <4>1, <4>3
    <3>3. FileNodes' = FileNodes \cup {nextKey}
      BY <2>1, <2>5 DEF FileNodes, FileNames, PolicyOf, Origin
    <3>4. offer' = [offer EXCEPT ![n] = nextKey]
      BY <1>3, <2>3, <2>5, <3>2
    <3>5. served' = served \cup {nextKey}
      BY <1>2, <3>3 DEF DInv, ServedInv
    <3>6. Directory!Appear(nextKey, n)
      BY <2>1, <2>5, <3>2, <3>3, <3>4, <3>5 DEF Directory!Appear
    <3>7. n \in FileNames /\ nextKey \in Keys
      BY <2>1, <2>5
    <3> QED
      BY <3>6, <3>7 DEF Directory!Next
  <2> QED
    BY <2>4, <2>5
<1>5. ASSUME NEW gone, NEW h, NEW d, Frees(gone, h, d)
      PROVE  Directory!Next
  <2> DEFINE lost == gone \cap FileNodes
  <2>1. /\ DOMAIN nodes' = DOMAIN nodes \ gone
        /\ \A k \in DOMAIN nodes' : nodes'[k] = nodes[k]
    BY <1>5 DEF Frees, FreeNodes
  <2>2. FileNodes' = FileNodes \ lost
    BY <2>1 DEF FileNodes, FileNames, PolicyOf, Origin
  <2>3. \A s \in FileNames : Offering(s)' = Offering(s) \ lost
    BY <2>1, FileNodesAre DEF Offering
  <2>4. \A s \in FileNames : Provider(s)' = IF Provider(s) \in lost THEN 0 ELSE Provider(s)
    <3> SUFFICES ASSUME NEW s \in FileNames
                 PROVE  Provider(s)' = IF Provider(s) \in lost THEN 0 ELSE Provider(s)
      OBVIOUS
    <3>1. RecordsOf(s) = Offering(s) /\ RecordsOf(s)' = Offering(s) \ lost
      BY <2>3, FileRecords DEF DInv
    <3>2. CASE Offering(s) = {}
      BY <3>1, <3>2, ProviderIsNode, ZeroNotFile DEF Provider, DInv
    <3>3. CASE Offering(s) # {}
      <4>1. PICK k : Offering(s) = {k}
        BY <3>3, ProviderIsNode DEF DInv
      <4>2. Provider(s) = k
        BY <4>1, ProviderIsNode DEF DInv
      <4>3. CASE k \in lost
        <5>1. RecordsOf(s)' = {}
          BY <3>1, <4>1, <4>3
        <5>2. Provider(s)' = 0
          BY <5>1 DEF Provider
        <5> QED
          BY <4>2, <4>3, <5>2
      <4>4. CASE k \notin lost
        <5>1. RecordsOf(s)' = RecordsOf(s)
          BY <3>1, <4>1, <4>4
        <5>2. Provider(s)' = Provider(s)
          BY <5>1 DEF Provider
        <5> QED
          BY <4>2, <4>4, <5>2
      <4> QED
        BY <4>3, <4>4
    <3> QED
      BY <3>2, <3>3
  <2>5. offer' = [s \in FileNames |-> IF offer[s] \in lost THEN 0 ELSE offer[s]]
    BY <1>3, <2>4
  <2>6. served' = served
    BY <1>2, <2>2 DEF DInv, ServedInv
  <2>7. Directory!Vanish(lost)
    BY <2>2, <2>5, <2>6 DEF Directory!Vanish
  <2>8. lost \in SUBSET FileNodes
    OBVIOUS
  <2> QED
    BY <2>7, <2>8 DEF Directory!Next
<1>6. CASE NodesAsBefore
  BY <1>2, <1>6 DEF NodesAsBefore, FileNodes, DInv, ServedInv, Provider, RecordsOf
<1> QED
  BY <1>1, <1>4, <1>5, <1>6 DEF NodeStep

(* Every behaviour of the device manager is one of the service directory,   *)
(* for the services with a device file.                                     *)
THEOREM Refinement == DSpec => ImplementsDirectory
BY InitDInv, NextDInv, StepRefines, PTL DEF DSpec, ImplementsDirectory, Directory!Spec
=============================================================================
