--------------------------- MODULE DeviceManager ---------------------------
(***************************************************************************)
(* The device manager and the device hosts of HDF: which device nodes      *)
(* exist, how a request to load or unload a driver reaches them, and which *)
(* services the device service manager offers as a result.                 *)
(*                                                                         *)
(* A device info is named by its service name.  Static infos come from the *)
(* configuration and are known when their host is started; dynamic infos   *)
(* are registered and unregistered by drivers while the system runs, on    *)
(* the model of a static info of the same driver module.                   *)
(*                                                                         *)
(* Every request runs to its end in one step: user requests are serialised *)
(* by devMgrMutex and hot-plug requests by their caller's lock.  The boot  *)
(* thread installs one driver per step, and requests may fall in between:  *)
(* the device manager's node is published before the hosts are started,    *)
(* and a driver's Init may itself ask for another driver.                  *)
(***************************************************************************)
EXTENDS HdfDeviceId, FiniteSets, Sequences, Functions

CONSTANTS
    Hosts,        \* the host ids in the order the hosts are started
    Infos,        \* Infos[h]: the static infos of host h in priority order
    DeviceIndex,  \* the device of a static info, by position in its host
    Policy,       \* the configured service policy of a static info
    Preload,      \* the configured preload of a static info
    Dynamic,      \* the service names drivers may register at run time
    Template,     \* the static info with the module of a dynamic one
    QuickLoad,    \* TRUE: DeviceManagerSetQuickLoad(DEV_MGR_QUICK_LOAD)
    Outcomes,     \* how loading a driver may come out
    MaxNodes      \* bound: how many device nodes are ever launched

HostIds  == Range(Hosts)
Static   == UNION {Range(Infos[h]) : h \in HostIds}
Names    == Static \cup Dynamic
Policies == {"NONE", "PUBLIC", "CAPACITY", "FRIENDLY", "PRIVATE"}
Preloads == {"ENABLE", "STEP2", "DISABLE"}
Keys     == 1..MaxNodes

ASSUME HostsAssumption ==
    /\ Hosts \in Seq(Nat) /\ IsInjective(Hosts)
    /\ Infos \in [HostIds -> Seq(Static)]
    /\ \A g, h \in HostIds : g # h => Range(Infos[g]) \cap Range(Infos[h]) = {}
ASSUME InfosAssumption ==
    /\ DeviceIndex \in [Static -> Nat]
    /\ Policy \in [Static -> Policies]
    /\ Preload \in [Static -> Preloads]
ASSUME DynamicAssumption ==
    /\ IsFiniteSet(Dynamic) /\ Dynamic \cap Static = {}
    /\ Template \in [Dynamic -> Static]
ASSUME ParameterAssumption ==
    /\ QuickLoad \in BOOLEAN
    /\ Outcomes \subseteq {"ok", "fails"}
    /\ MaxNodes \in Nat

Origin(s)   == IF s \in Static THEN s ELSE Template[s]
PolicyOf(s) == Policy[Origin(s)]
HostOf(s)   == CHOOSE h \in HostIds : Origin(s) \in Range(Infos[h])

\* The services the node itself publishes, beyond the observers of its host.
Exported(s) == PolicyOf(s) \in {"PUBLIC", "CAPACITY"}

VARIABLES
    boot,      \* the boot thread: phase, position in Hosts, position in Infos
    started,   \* the hosts the device manager knows
    infos,     \* the infos on the lists of the started hosts
    preload,   \* HdfDeviceInfo.preload
    devId,     \* HdfDeviceInfo.deviceId
    devCount,  \* DevHostServiceClnt.devCount
    devices,   \* devices[h]: the numbers of the HdfDevices of host h
    nodes,     \* the device nodes; the keys grow in the order of creation
    nextKey,   \* the key of the next node
    tokens,    \* the nodes whose token the device manager has on a list
    services,  \* the records <<name, node>> of the device service manager
    doubled    \* history: names two live nodes have offered at one time

vars == <<boot, started, infos, preload, devId, devCount, devices, nodes,
          nextKey, tokens, services, doubled>>

NodeRecord == [svc : Names, host : HostIds, dev : Nat, devId : Nat]

NodesOf(h, d) == {k \in DOMAIN nodes : nodes[k].host = h /\ nodes[k].dev = d}
Offering(s)   == {k \in DOMAIN nodes : nodes[k].svc = s}
RecordsOf(s)  == {k \in Keys : <<s, k>> \in services}

-----------------------------------------------------------------------------
(* The parts of the handlers. *)

\* DevHostServiceQueryOrAddDevice: a device is made when the host lacks it.
QueryOrAddDevice(h, d) == devices' = [devices EXCEPT ![h] = @ \cup {d}]

\* DevHostServiceFreeDevice, the list side.
WithoutDevice(h, d) == [devices EXCEPT ![h] = @ \ {d}]

\* Mutant of Removed: drops every record of the name instead of the newest.
RemovedAll(gone) ==
    {r \in services : gone \cap Offering(r[1]) # {}}

(* Releasing nodes: DeviceNodeExtDestruct removes the service of each by    *)
(* its name, and DevSvcManagerRemoveService removes the newest record with  *)
(* that name.  The base destructor then finds servStatus cleared, so its    *)
(* call of DevmgrServiceClntDetachDevice is never made and tokens stay.     *)
Removed(gone) ==
    {r \in services :
        Cardinality({k \in RecordsOf(r[1]) : k > r[2]}) < Cardinality(gone \cap Offering(r[1]))}

FreeNodes(gone) ==
    /\ nodes' = [k \in DOMAIN nodes \ gone |-> nodes[k]]
    /\ services' = services \ Removed(gone)
    /\ UNCHANGED <<nextKey, tokens, doubled>>

\* External: the kernel, which OsalRegisterCdev asks for the device file
\* (hdf_vnode_adapter.c:608), is taken to refuse a second one of the same name.
FileTaken(s) == PolicyOf(s) = "CAPACITY" /\ Offering(s) # {}

(* DevHostServiceAddDevice succeeds: every callback of the driver does, the *)
(* device file of a CAPACITY service can be made, and the host the devid    *)
(* names is known.                                                          *)
Launches(s, id, outcome) ==
    /\ outcome = "ok"
    /\ ~FileTaken(s)
    /\ HOSTID(id) \in started

LaunchNode(s, id) ==
    /\ QueryOrAddDevice(HostOf(s), DEVICEID(id))
    /\ nodes' = [k \in DOMAIN nodes \cup {nextKey} |->
                    IF k = nextKey
                    THEN [svc |-> s, host |-> HostOf(s), dev |-> DEVICEID(id), devId |-> id]
                    ELSE nodes[k]]
    /\ services' = services \cup (IF Exported(s) THEN {<<s, nextKey>>} ELSE {})
    /\ tokens' = tokens \cup {nextKey}
    /\ doubled' = doubled \cup (IF Exported(s) /\ Offering(s) # {} THEN {s} ELSE {})
    /\ nextKey' = nextKey + 1

\* Mutant of LaunchFails: the siblings' services are not removed.
LaunchFailsKeepsServices(s, id) ==
    /\ devices' = WithoutDevice(HostOf(s), DEVICEID(id))
    /\ nodes' = [k \in DOMAIN nodes \ NodesOf(HostOf(s), DEVICEID(id)) |-> nodes[k]]
    /\ UNCHANGED <<services, nextKey, tokens, doubled>>

(* The error exit of DevHostServiceAddDevice frees the HdfDevice it looked  *)
(* up or created, with every node that is already attached to it.           *)
LaunchFails(s, id) ==
    /\ devices' = WithoutDevice(HostOf(s), DEVICEID(id))
    /\ FreeNodes(NodesOf(HostOf(s), DEVICEID(id)))

\* DevHostServiceAddDevice.
AddDevice(s, id, outcome) ==
    /\ nextKey <= MaxNodes
    /\ IF Launches(s, id, outcome) THEN LaunchNode(s, id) ELSE LaunchFails(s, id)

\* Mutant of DelDevice: the device is freed without asking for more nodes.
DelDeviceDropsDevice(h, id) ==
    LET d     == DEVICEID(id)
        match == {k \in NodesOf(h, d) : nodes[k].devId = id}
        first == {k \in match : \A m \in match : k <= m}
    IN  FreeNodes(first) /\ devices' = WithoutDevice(h, d)

\* Mutant of DelDevice: the node goes and its service stays.
DelDeviceKeepsService(h, id) ==
    LET d     == DEVICEID(id)
        match == {k \in NodesOf(h, d) : nodes[k].devId = id}
        first == {k \in match : \A m \in match : k <= m}
    IN  /\ nodes' = [k \in DOMAIN nodes \ first |-> nodes[k]]
        /\ devices' = IF first # {} /\ NodesOf(h, d) = first
                      THEN WithoutDevice(h, d) ELSE devices
        /\ UNCHANGED <<services, nextKey, tokens, doubled>>

(* DevHostServiceDelDevice: of the nodes with this devid on the device, the *)
(* oldest is detached and freed; a device left without nodes goes as well.  *)
DelDevice(h, id) ==
    LET d     == DEVICEID(id)
        match == {k \in NodesOf(h, d) : nodes[k].devId = id}
        first == {k \in match : \A m \in match : k <= m}
    IN  IF d \in devices[h]
        THEN /\ FreeNodes(first)
             /\ devices' = IF first # {} /\ NodesOf(h, d) = first
                           THEN WithoutDevice(h, d) ELSE devices
        ELSE UNCHANGED <<devices, nodes, nextKey, tokens, services, doubled>>

-----------------------------------------------------------------------------
Init ==
    /\ boot = [phase |-> "install", host |-> 1, info |-> 0]
    /\ started = {}
    /\ infos = {}
    /\ preload = [s \in Names |-> IF s \in Static THEN Preload[s] ELSE "DISABLE"]
    /\ devId = [s \in Names |->
                   IF s \in Static
                   THEN StoredDevid(MK_DEVID(HostOf(s), DeviceIndex[s], 0)) ELSE 0]
    /\ devCount = [h \in HostIds |-> 0]
    /\ devices = [h \in HostIds |-> {}]
    /\ nodes = <<>>
    /\ nextKey = 1
    /\ tokens = {}
    /\ services = {}
    /\ doubled = {}

Booting(phase) == boot.phase = phase /\ boot.host <= Len(Hosts)

\* The info the boot thread is at, and the step to the one after it.
BootInfo == Infos[Hosts[boot.host]][boot.info]
BootNext ==
    boot' = IF boot.info < Len(Infos[Hosts[boot.host]])
            THEN [boot EXCEPT !.info = @ + 1]
            ELSE [phase |-> boot.phase, host |-> boot.host + 1, info |-> 0]

(* DevmgrServiceStartDeviceHosts, one host: its client joins the list and   *)
(* its infos are read; when no host service can be made it leaves again.    *)
StartHost ==
    /\ Booting("install") /\ boot.info = 0
    /\ LET h == Hosts[boot.host]
       IN  /\ started' = started \cup {h}
           /\ infos' = infos \cup Range(Infos[h])
           /\ devCount' = [devCount EXCEPT ![h] = Len(Infos[h])]
    /\ BootNext
    /\ UNCHANGED <<preload, devId, devices, nodes, nextKey, tokens, services, doubled>>

StartHostFails ==
    /\ Booting("install") /\ boot.info = 0
    /\ "fails" \in Outcomes
    /\ boot' = [boot EXCEPT !.host = @ + 1]
    /\ UNCHANGED <<started, infos, preload, devId, devCount, devices, nodes,
                   nextKey, tokens, services, doubled>>

\* DevHostServiceClntInstallDriver skips infos that are not to be loaded now.
SkippedAtBoot(s) == preload[s] = "DISABLE" \/ (QuickLoad /\ preload[s] = "STEP2")

SkipDriver ==
    /\ Booting("install") /\ boot.info > 0
    /\ SkippedAtBoot(BootInfo)
    /\ BootNext
    /\ UNCHANGED <<started, infos, preload, devId, devCount, devices, nodes,
                   nextKey, tokens, services, doubled>>

(* DevHostServiceClntInstallDriver, one info.  It neither asks whether the  *)
(* info is loaded already nor marks it when it is, and goes on after errors.*)
InstallDriver(outcome) ==
    /\ Booting("install") /\ boot.info > 0
    /\ ~SkippedAtBoot(BootInfo)
    /\ AddDevice(BootInfo, devId[BootInfo], outcome)
    /\ BootNext
    /\ UNCHANGED <<started, infos, preload, devId, devCount>>

\* DeviceManagerStartStep2: after a quick boot a second pass begins.
StartStep2 ==
    /\ boot.phase = "install" /\ boot.host > Len(Hosts)
    /\ QuickLoad
    /\ boot' = [phase |-> "step2", host |-> 1, info |-> 0]
    /\ UNCHANGED <<started, infos, preload, devId, devCount, devices, nodes,
                   nextKey, tokens, services, doubled>>

InStep2(s) == HostOf(s) \in started /\ preload[s] = "STEP2"

(* DevmgrServiceLoadLeftDriver, one info whose preload is ENABLE_STEP2. *)
LoadLeftDriver(outcome) ==
    /\ Booting("step2") /\ boot.info > 0
    /\ InStep2(BootInfo)
    /\ AddDevice(BootInfo, devId[BootInfo], outcome)
    /\ preload' = [preload EXCEPT ![BootInfo] =
                      IF Launches(BootInfo, devId[BootInfo], outcome) THEN "ENABLE" ELSE @]
    /\ BootNext
    /\ UNCHANGED <<started, infos, devId, devCount>>

PassOver ==
    /\ Booting("step2")
    /\ boot.info > 0 => ~InStep2(BootInfo)
    /\ BootNext
    /\ UNCHANGED <<started, infos, preload, devId, devCount, devices, nodes,
                   nextKey, tokens, services, doubled>>

(* DevSvcManagerSubscribeService for a service nobody offers yet: the info  *)
(* is looked up by name and loaded unless it is marked ENABLE.              *)
LoadDevice(s, outcome) ==
    /\ s \in infos
    /\ RecordsOf(s) = {}
    /\ preload[s] # "ENABLE"
    /\ AddDevice(s, devId[s], outcome)
    /\ preload' = [preload EXCEPT ![s] = IF Launches(s, devId[s], outcome) THEN "ENABLE" ELSE @]
    /\ UNCHANGED <<boot, started, infos, devId, devCount>>

(* HdfRegisterDevice: the new info gets the device count of its host as its *)
(* devid and is loaded at once; if that fails the info is deleted again.    *)
(* A name is not registered twice: the callers keep a list of their own.    *)
Register(s, outcome) ==
    LET h  == HostOf(s)
        id == StoredDevid(devCount[h])
    IN  /\ s \in Dynamic \ infos
        /\ Template[s] \in infos
        /\ AddDevice(s, id, outcome)
        /\ IF Launches(s, id, outcome)
           THEN /\ infos' = infos \cup {s}
                /\ devId' = [devId EXCEPT ![s] = id]
                /\ preload' = [preload EXCEPT ![s] = "ENABLE"]
                /\ devCount' = [devCount EXCEPT ![h] = @ + 1]
           ELSE UNCHANGED <<infos, devId, preload, devCount>>
        /\ UNCHANGED <<boot, started>>

(* HdfUnregisterDevice: unload whatever the devid names, then delete the    *)
(* info, whether or not the unloading did anything.                         *)
Unregister(s) ==
    LET h == HostOf(s)
    IN  /\ s \in Dynamic \cap infos
        /\ DelDevice(h, devId[s])
        /\ infos' = infos \ {s}
        /\ preload' = [preload EXCEPT ![s] = "DISABLE"]
        /\ devId' = [devId EXCEPT ![s] = 0]
        /\ devCount' = [devCount EXCEPT ![h] = @ - 1]
        /\ UNCHANGED <<boot, started>>

Next ==
    \/ StartHost \/ StartHostFails \/ SkipDriver \/ StartStep2 \/ PassOver
    \/ \E outcome \in Outcomes :
          \/ InstallDriver(outcome) \/ LoadLeftDriver(outcome)
          \/ \E s \in Names : LoadDevice(s, outcome) \/ Register(s, outcome)
    \/ \E s \in Names : Unregister(s)

Spec == Init /\ [][Next]_vars

-----------------------------------------------------------------------------
InfosTypeOK ==
    /\ boot \in [phase : {"install", "step2"}, host : Nat \ {0}, info : Nat]
    /\ started \subseteq HostIds
    /\ infos \subseteq Names
    /\ preload \in [Names -> Preloads]
    /\ devId \in [Names -> Nat]
    /\ devCount \in [HostIds -> Nat]

NodesTypeOK ==
    /\ devices \in [HostIds -> SUBSET Nat]
    /\ DOMAIN nodes \subseteq 1..(nextKey - 1)
    /\ \A k \in DOMAIN nodes : nodes[k] \in NodeRecord
    /\ nextKey \in 1..(MaxNodes + 1)
    /\ tokens \subseteq 1..(nextKey - 1)
    /\ services \subseteq Names \X (1..(nextKey - 1))
    /\ doubled \subseteq Names

TypeOK == InfosTypeOK /\ NodesTypeOK

(* The list of service records and the nodes agree in number: for every     *)
(* name there are as many records as live nodes that offer it, whatever     *)
(* loads failed, whichever siblings were freed and whichever node a request *)
(* to unload hit.  Records are removed by name, not by node.                *)
RecordsMatchNodes ==
    \A s \in Names :
        Cardinality(RecordsOf(s)) = IF Exported(s) THEN Cardinality(Offering(s)) ELSE 0

(* DevSvcManagerGetService never hands out the object of a freed node, as   *)
(* long as no two live nodes have ever offered the name at one time.        *)
ServiceHasProvider ==
    \A r \in services : r[1] \notin doubled => r[2] \in Offering(r[1])

(* A device is on its host's list exactly while nodes are attached to it.   *)
DevicesMatchNodes ==
    \A h \in HostIds :
        devices[h] = {nodes[k].dev : k \in {j \in DOMAIN nodes : nodes[j].host = h}}

(* What HdfRegisterDevice001 (hdf_lite_manager_test.cpp:102-106) expects:   *)
(* once a device has been unregistered its service is gone.                 *)
UnregisteredIsGone == \A s \in Dynamic \ infos : Offering(s) = {}

(* What README.md says of Release, "Then, other internal resources will be  *)
(* released": a freed node leaves no token with the device manager.         *)
TokensReleased == tokens \subseteq DOMAIN nodes

(* What hdf_device_desc.h says of DEVICE_PRELOAD_ENABLE, "The driver is     *)
(* loaded during system startup by default": when no driver fails, every    *)
(* driver so configured has a node once the boot thread is past it.         *)
EnabledIsLoaded ==
    (boot.phase = "step2" \/ boot.host > Len(Hosts)) =>
        \A s \in Static : Preload[s] = "ENABLE" => Offering(s) # {}

(* What README.md says of a failed Init, "the driver framework will         *)
(* automatically release the created device interface": a load that fails   *)
(* frees nothing but what it created.                                       *)
FailedLoadSparesOthers == [][nextKey' = nextKey /\ infos' = infos => nodes' = nodes]_vars
=============================================================================
