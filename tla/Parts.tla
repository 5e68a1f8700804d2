------------------------------- MODULE Parts -------------------------------
(***************************************************************************)
(* Five parts that share nothing: the list of platform devices, the tree    *)
(* of regulators, the power of an audio card, its ring buffers and the flow *)
(* control of a wifi device.  The initial state picks one of them, and the  *)
(* others stay as they are, so that one run of TLC explores the five one    *)
(* after the other.                                                         *)
(***************************************************************************)
EXTENDS PlatformDevice

CONSTANTS
    Nodes, Threads, ParentOf, AlwaysOn, ForceAlone,
    Components, Registered, Paths, InputEnds, OutputEnds, Clocked, Inverted, Streams, Alone,
    Size, Modulus, Transfers, Read, MaxData,
    Senders, Queues, Threshold, MaxPackets, MayFail

\* The tables of a card: its paths join its components and lead nowhere back,
\* without which the recursion that counts them has no end, and a switch is that
\* of one path, at which the search for the path ends.
ASSUME RoutesAssumption ==
    /\ IsFiniteSet(Components) /\ IsFiniteSet(Paths)
    /\ \A p \in Paths : p.source \in Components /\ p.sink \in Components
    /\ Registered \subseteq Components
    /\ InputEnds \subseteq Components /\ OutputEnds \subseteq Components
    /\ \A p, q \in Paths : p.switch = q.switch => p = q \/ p.switch = None
    /\ \A S \in SUBSET Components : S # {} => \E c \in S : \A p \in Paths : p.source = c => p.sink \notin S

VARIABLES
    part,
    listed, linked, children, on, lock, call, overlapped,
    bit, connect, power, card, overdue, stream, forced,
    render, ring, capture, tape, inOrder,
    queued, sem, status, flowPc, place, target, ending, sent

Tree  == INSTANCE Regulator
Audio == INSTANCE AudioSapm
Rings == INSTANCE AudioBuffer
Flow  == INSTANCE FlowControl WITH pc <- flowPc

platformVars == <<object, memory, devices, pc, held>>
treeVars     == <<listed, linked, children, on, lock, call, overlapped>>
audioVars    == <<bit, connect, power, card, overdue, stream, forced>>
ringVars     == <<render, ring, capture, tape, inOrder>>
flowVars     == <<queued, sem, status, flowPc, place, target, ending, sent>>

PartsInit ==
    /\ part \in {"platform", "tree", "audio", "ring", "flow"}
    /\ Init /\ Tree!Init /\ Audio!Init /\ Rings!Init /\ Flow!Init
    /\ part # "audio" => bit = [s \in DOMAIN bit |-> 0]

PartsNext ==
    \/ /\ part = "platform" /\ Next
       /\ UNCHANGED <<part, treeVars, audioVars, ringVars, flowVars>>
    \/ /\ part = "tree" /\ Tree!Next
       /\ UNCHANGED <<part, platformVars, audioVars, ringVars, flowVars>>
    \/ /\ part = "audio" /\ Audio!Next
       /\ UNCHANGED <<part, platformVars, treeVars, ringVars, flowVars>>
    \/ /\ part = "ring" /\ Rings!Next
       /\ UNCHANGED <<part, platformVars, treeVars, audioVars, flowVars>>
    \/ /\ part = "flow" /\ Flow!Next
       /\ UNCHANGED <<part, platformVars, treeVars, audioVars, ringVars>>

PartsSpec ==
    /\ PartsInit /\ [][PartsNext]_<<part, platformVars, treeVars, audioVars, ringVars, flowVars>>
    /\ \A d \in Devices : WF_platformVars(part = "platform" /\ DriverStep(d))
    /\ \A u \in Users : WF_platformVars(part = "platform" /\ UserStep(u))
    /\ \A t \in Threads : SF_treeVars(part = "tree" /\ Tree!CallStep(t))
    /\ WF_audioVars(part = "audio" /\ Audio!SapmStep)
    /\ WF_flowVars(part = "flow" /\ Flow!MainStep)
    /\ \A d \in Flow!Dirs : WF_flowVars(part = "flow" /\ Flow!Alive /\ Flow!ThreadStep(d))
    /\ \A s \in Senders : WF_flowVars(part = "flow" /\ Flow!SendStep(s))

-----------------------------------------------------------------------------
(* Regulator: a regulator that is on has its supply.                        *)
SupplyIsOn == Tree!SupplyIsOn

(* Regulator: calls return.                                                 *)
RegulatorCallsReturn == Tree!RegulatorCallsReturn

(* Regulator: what is forced off is off.                                    *)
ForcedIsOff == Tree!ForcedIsOff

(* Regulator: the same when calls overlap.                                  *)
SuppliesStayOn == Tree!SuppliesOn

(* AudioSapm: of the components with a register, those on a connected path   *)
(* have power, no others.                                                    *)
PowerFollowsPaths == Audio!PowerFollowsPaths

(* AudioSapm: a card does not sleep under a running stream.                 *)
NoSleepUnderStream == Audio!NoSleepUnderStream

(* AudioSapm: a card left alone falls asleep.                               *)
FallsAsleep == Audio!FallsAsleep

(* AudioSapm: a switch that does not stand as asked is set.                 *)
SwitchCanChange == Audio!SwitchCanChange

(* AudioBuffer: what is written is played and what is recorded is read.     *)
SoundKept == Rings!SoundKept

(* FlowControl: every packet is handed to the driver.                       *)
EveryPacketServed == Flow!EveryPacketServed

(* FlowControl: whatever queue it is in.                                    *)
EveryQueueServed == Flow!EveryQueueServed

(* FlowControl: no queue grows far past its threshold.                      *)
QueueBounded == Flow!QueueBounded

(* FlowControl: the threads have ended when the module is freed.            *)
GoneBeforeFreed == Flow!GoneBeforeFreed
=============================================================================
