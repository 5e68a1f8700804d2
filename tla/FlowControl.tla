----------------------------- MODULE FlowControl -----------------------------
(***************************************************************************)
(* The flow control of a wifi device (model/network/wifi/platform/src/qos): *)
(* senders put packets into queues, one for each priority and direction,    *)
(* and post the semaphore of the direction; a thread for each direction     *)
(* waits for it and hands the queues to the driver, by priority.  The       *)
(* status of a thread is written by the thread and by who creates or        *)
(* destroys it, without a lock, each write a step of its own.               *)
(***************************************************************************)
EXTENDS Integers, Sequences, FiniteSets, SequencesExt

CONSTANTS
    Senders,    \* threads that send packets
    Queues,     \* the queues they send to, <<direction, name>>
    Threshold,  \* queueThreshold of every queue
    MaxPackets, \* bound on packets sent
    MayFail     \* TRUE: the second thread may fail to start

Dirs == {"TX", "RX"}
Main == "main"

VARIABLES
    queued,  \* the number of packets in each queue
    sem,     \* the semaphore of each direction
    status,  \* threadStatus of each direction
    pc,      \* where each thread, each sender and Main are
    place,   \* how far each thread is in its priority map
    target,  \* the queue each sender sends to
    ending,  \* the next call of DestroyTask: undo of a creation, TX, then RX
    sent     \* packets sent

vars == <<queued, sem, status, pc, place, target, ending, sent>>

\* The first FLOW_CONTROL_MAP_SIZE queues of g_priorityMapTx, and all of
\* g_priorityMapRx; the maps of a station differ in the two for TCP.
Maps(d) ==
    LET tx  == <<"CTRL", "VIP", "NORMAL">>
        low == <<"VO", "VI", "BE", "BK">>
    IN  IF d = "TX" THEN {tx}
        ELSE {tx \o <<"TCP_ACK", "TCP_DATA">> \o low, tx \o <<"TCP_DATA", "TCP_ACK">> \o low}

\* What there is to serve: the queues nobody sends to are empty.
Served(d, map) == SelectSeq(map, LAMBDA q : <<d, q>> \in Queues)

Goto(p, where)   == pc' = [pc EXCEPT ![p] = where]
SetStatus(d, st) == status' = [status EXCEPT ![d] = st]

\* CreateFlowControlTask has started the first thread.
Init ==
    /\ queued = [q \in Queues |-> 0]
    /\ sem = [d \in Dirs |-> 0]
    /\ status = [d \in Dirs |-> "INIT_FAIL"]
    /\ pc = [p \in Dirs \cup Senders \cup {Main} |->
                CASE p = "TX" -> "begin" [] p = "RX" -> "none" [] p = Main -> "create" [] OTHER -> "idle"]
    /\ place = [d \in Dirs |-> <<>>]
    /\ target = [s \in Senders |-> <<>>]
    /\ ending = "undo"
    /\ sent = 0

-----------------------------------------------------------------------------
(* If the second thread fails to start, DestroyTask finds INIT_FAIL and     *)
(* leaves the first alone, unless that has written its own status since.    *)
CreateRx ==
    /\ pc[Main] = "create"
    /\ \/ pc' = [pc EXCEPT ![Main] = "created", !["RX"] = "begin"] /\ UNCHANGED status
       \/ /\ MayFail /\ Goto(Main, "ask")
          /\ status' = [d \in Dirs |-> "INIT_FAIL"]
    /\ UNCHANGED <<queued, sem, place, target, ending, sent>>

\* In either case the creation succeeds.
Created ==
    /\ pc[Main] = "created"
    /\ status' = [d \in Dirs |-> "INIT_SUCCESS"]
    /\ Goto(Main, "use")
    /\ UNCHANGED <<queued, sem, place, target, ending, sent>>

-----------------------------------------------------------------------------
\* RunWiFiFlowControl.
Begin(d) ==
    /\ pc[d] = "begin"
    /\ SetStatus(d, "STARTING") /\ Goto(d, "toWait")
    /\ UNCHANGED <<queued, sem, place, target, ending, sent>>

ToWait(d) ==
    /\ pc[d] = "toWait"
    /\ SetStatus(d, "WAITING") /\ Goto(d, "wait")
    /\ UNCHANGED <<queued, sem, place, target, ending, sent>>

Wait(d) ==
    /\ pc[d] = "wait" /\ sem[d] > 0
    /\ sem' = [sem EXCEPT ![d] = @ - 1]
    /\ Goto(d, "test")
    /\ UNCHANGED <<queued, status, place, target, ending, sent>>

\* IsFcThreadNeedStop.
Test(d) ==
    /\ pc[d] = "test"
    /\ Goto(d, IF status[d] \in {"STOPPING", "STOPPED", "DESTROYED"} THEN "leave" ELSE "toRun")
    /\ UNCHANGED <<queued, sem, status, place, target, ending, sent>>

\* Before it goes on it asks the driver whether this is a station.
ToRun(d) ==
    /\ pc[d] = "toRun"
    /\ SetStatus(d, "RUNNING") /\ Goto(d, "serve")
    /\ \E map \in Maps(d) : place' = [place EXCEPT ![d] = Served(d, map)]
    /\ UNCHANGED <<queued, sem, target, ending, sent>>

\* SendFlowControlQueue: of a queue that is not empty the driver takes one
\* packet or all.
Serve(d) ==
    /\ pc[d] = "serve"
    /\ IF place[d] = <<>>
       THEN Goto(d, "toWait") /\ UNCHANGED <<queued, place>>
       ELSE /\ place' = [place EXCEPT ![d] = Tail(@)]
            /\ LET q == <<d, Head(place[d])>>
               IN  \E n \in {0, queued[q] - 1} : queued' = [queued EXCEPT ![q] = IF n > 0 THEN n ELSE 0]
            /\ UNCHANGED pc
    /\ UNCHANGED <<sem, status, target, ending, sent>>

Leave(d) ==
    /\ pc[d] = "leave"
    /\ SetStatus(d, "STOPPED") /\ Goto(d, "gone")
    /\ UNCHANGED <<queued, sem, place, target, ending, sent>>

ThreadStep(d) == Begin(d) \/ ToWait(d) \/ Wait(d) \/ Test(d) \/ ToRun(d) \/ Serve(d) \/ Leave(d)

-----------------------------------------------------------------------------
Length(s) == queued[target[s]]
Resize(s, n) == queued' = [queued EXCEPT ![target[s]] = n]

\* SendBuffToFCM for a queue.
Send(s, q) ==
    /\ pc[Main] = "use" /\ pc[s] = "idle" /\ sent < MaxPackets
    /\ target' = [target EXCEPT ![s] = q]
    /\ sent' = sent + 1
    /\ Goto(s, "look")
    /\ UNCHANGED <<queued, sem, status, place, ending>>

\* FcmQueuePreProcess looks at the length, and then gives up the oldest.
Look(s) ==
    /\ pc[s] = "look"
    /\ Goto(s, IF Threshold > 0 /\ Threshold < Length(s) THEN "drop" ELSE "enqueue")
    /\ UNCHANGED <<queued, sem, status, place, target, ending, sent>>

\* Mutant of Drop: the oldest stays.
DropNone(s) ==
    /\ pc[s] = "drop"
    /\ Goto(s, "enqueue")
    /\ UNCHANGED <<queued, sem, status, place, target, ending, sent>>

Drop(s) ==
    /\ pc[s] = "drop"
    /\ Resize(s, IF Length(s) > 0 THEN Length(s) - 1 ELSE 0)
    /\ Goto(s, "enqueue")
    /\ UNCHANGED <<sem, status, place, target, ending, sent>>

Enqueue(s) ==
    /\ pc[s] = "enqueue"
    /\ Resize(s, Length(s) + 1)
    /\ Goto(s, "sched")
    /\ UNCHANGED <<sem, status, place, target, ending, sent>>

\* Mutant of Sched: a semaphore that is posted is not posted again.
SchedOnce(s) ==
    /\ pc[s] = "sched"
    /\ sem' = [sem EXCEPT ![target[s][1]] = 1]
    /\ Goto(s, "idle")
    /\ UNCHANGED <<queued, status, place, target, ending, sent>>

\* SchedTransfer, which follows each packet.
Sched(s) ==
    /\ pc[s] = "sched"
    /\ sem' = [sem EXCEPT ![target[s][1]] = @ + 1]
    /\ Goto(s, "idle")
    /\ UNCHANGED <<queued, status, place, target, ending, sent>>

SendStep(s) == Look(s) \/ Drop(s) \/ Enqueue(s) \/ Sched(s)

-----------------------------------------------------------------------------
\* DeInitFlowControl, when nobody sends any more.
DeInit ==
    /\ pc[Main] = "use" /\ \A s \in Senders : pc[s] = "idle"
    /\ Goto(Main, "ask")
    /\ ending' = "TX"
    /\ UNCHANGED <<queued, sem, status, place, target, sent>>

\* The direction that DestroyTask is called for, and what follows the call.
Destroyed == IF ending = "RX" THEN "RX" ELSE "TX"
Return ==
    /\ Goto(Main, [undo |-> "created", TX |-> "ask", RX |-> "freed"][ending])
    /\ ending' = IF ending = "TX" THEN "RX" ELSE ending

\* DestroyTask reads the status,
Ask(d) ==
    /\ pc[Main] = "ask" /\ d = Destroyed
    /\ IF status[d] \in {"INIT_FAIL", "DESTROYED"} THEN Return
       ELSE Goto(Main, "stop") /\ UNCHANGED ending
    /\ UNCHANGED <<queued, sem, status, place, target, sent>>

\* changes it,
Stop(d) ==
    /\ pc[Main] = "stop" /\ d = Destroyed
    /\ SetStatus(d, "STOPPING")
    /\ Goto(Main, "wake")
    /\ UNCHANGED <<queued, sem, place, target, ending, sent>>

\* posts the semaphore,
Wake(d) ==
    /\ pc[Main] = "wake" /\ d = Destroyed
    /\ sem' = [sem EXCEPT ![d] = @ + 1]
    /\ Goto(Main, "await")
    /\ UNCHANGED <<queued, status, place, target, ending, sent>>

\* and waits for 10 ms, which are enough for a thread that does not wait.
Await(d) ==
    /\ pc[Main] = "await" /\ d = Destroyed
    /\ \/ status[d] = "STOPPED"
       \/ pc[d] \in {"none", "gone"}
       \/ pc[d] = "wait" /\ sem[d] = 0
    /\ SetStatus(d, "DESTROYED")
    /\ Return
    /\ UNCHANGED <<queued, sem, place, target, sent>>

MainStep == CreateRx \/ Created \/ \E d \in Dirs : Ask(d) \/ Stop(d) \/ Wake(d) \/ Await(d)

\* What has been freed is not followed further.
Alive == pc[Main] # "freed"

Next ==
    \/ MainStep \/ DeInit
    \/ Alive /\ \E d \in Dirs : ThreadStep(d)
    \/ \E s \in Senders : SendStep(s) \/ \E q \in Queues : Send(s, q)
    \/ ~Alive /\ UNCHANGED vars

Spec == Init /\ [][Next]_vars

\* All are threads of the operating system; nobody needs to send or destroy.
FairSpec ==
    /\ Spec /\ WF_vars(MainStep)
    /\ \A d \in Dirs : WF_vars(Alive /\ ThreadStep(d))
    /\ \A s \in Senders : WF_vars(SendStep(s))

-----------------------------------------------------------------------------
TypeOK ==
    /\ queued \in [Queues -> 0..MaxPackets]
    /\ sem \in [Dirs -> 0..MaxPackets + 1]
    /\ status \in [Dirs -> {"INIT_FAIL", "INIT_SUCCESS", "STARTING", "WAITING", "RUNNING",
                            "STOPPING", "STOPPED", "DESTROYED"}]
    /\ \A d \in Dirs : {<<d, q>> : q \in Range(place[d])} \subseteq Queues
    /\ ending \in Dirs \cup {"undo"} /\ sent \in 0..MaxPackets

(* The driver may take one packet at a time, and rounds and packets are     *)
(* counted by a semaphore only: still no packet stays in a queue of the     *)
(* map, unless the module is destroyed.                                     *)
ServedInTheEnd(q) == queued[q] > 0 ~> queued[q] = 0 \/ pc[Main] \notin {"created", "use"}

EveryPacketServed ==
    \A q \in Queues : (\E map \in Maps(q[1]) : q[2] \in Range(map)) => ServedInTheEnd(q)

(* "transmitting and receiving data packets based on the flow control       *)
(* priority" (flow_control.h:28), whatever queue they are in.               *)
EveryQueueServed == \A q \in Queues : ServedInTheEnd(q)

(* "1:Destroy task. 2:Destroy osalwait. 3:free NetBuff." (flow_control.c):  *)
(* when the module is freed, its threads no longer use it.                  *)
GoneBeforeFreed == pc[Main] = "freed" => \A d \in Dirs : pc[d] \in {"gone", "none"}

(* A queue exceeds its threshold by no more than one packet of each sender, *)
(* although they look at its length before they add to it.                  *)
QueueBounded ==
    Threshold > 0 => \A q \in Queues : queued[q] <= Threshold + Cardinality(Senders)
=============================================================================
