------------------------------ MODULE MmcCore ------------------------------
(***************************************************************************)
(* The core of the MMC model (model/storage/src/mmc): a controller whose   *)
(* worker thread takes messages from a platform queue                      *)
(* (support/platform/src/fwk/platform_queue.c), detects cards, removes     *)
(* them and sends requests; the interrupt that tells it of the slot; and   *)
(* threads that send requests, rescan, and use the card of an SDIO         *)
(* controller.  A card in use is a platform device.                        *)
(***************************************************************************)
EXTENDS PlatformObject, Sequences, FiniteSets, SequencesExt

CONSTANTS
    Users,       \* threads that call the controller
    Cards,       \* places in memory for a struct MmcDevice
    Messages,    \* places in memory for a struct MmcMsg
    Types,       \* what devType of the configuration may be
    Retries,     \* MMC_DETECET_RETRY
    MaxChanges,  \* bound: how often a card is put in or taken out
    Holders,     \* users that hold a card and call it
    MaxClaims,   \* bound: how often the host is claimed
    Overlap,     \* TRUE: a claim of the host may overlap a removal
    Reuse        \* TRUE: a message freed may be handed out at once

CONSTANT None
Worker == "worker"
ASSUME MmcAssumption ==
    /\ IsFiniteSet(Users) /\ Worker \notin Users /\ Holders \subseteq Users /\ None \notin Cards \cup Messages \cup Users
    /\ Types \subseteq {"SDIO", "SD", "EMMC"}
    /\ Retries \in Nat \ {0} /\ MaxChanges \in Nat /\ MaxClaims \in Nat
    /\ {Overlap, Reuse} \subseteq BOOLEAN

VARIABLES
    slot,     \* the card in the slot, its interrupt, changes so far
    cntlr,    \* devType, devPluged, detecting, curDev, owner of the mutex
    card,     \* memory, present and platform device of each MmcDevice
    queue,    \* msgQueue
    message,  \* memory, block, code and semaphore of each MmcMsg
    pc,       \* where each thread is
    hand,     \* the message of the worker; the message or card of a user
    tries     \* detections since the worker took the message

vars == <<slot, cntlr, card, queue, message, pc, hand, tries>>

NoCard    == [memory |-> FALSE, present |-> FALSE, dev |-> [Inited EXCEPT !.ready = FALSE]]
NoMessage == [memory |-> FALSE, block |-> FALSE, code |-> "NONE", sem |-> 0, handled |-> FALSE]

Init ==
    /\ slot \in [plugged : BOOLEAN, irq : {FALSE}, changes : {0}, claims : {0}, asked : {FALSE}]
    /\ cntlr \in [type : Types, devPluged : {FALSE}, detecting : {FALSE}, curDev : {None}, mutex : {None}]
    /\ card = [c \in Cards |-> NoCard]
    /\ queue = <<>>
    /\ message = [m \in Messages |-> NoMessage]
    /\ pc = [t \in Users \cup {Worker} |-> "idle"]
    /\ hand = [t \in Users \cup {Worker} |-> None]
    /\ tries = 0

-----------------------------------------------------------------------------
Goto(t, label) == pc' = [pc EXCEPT ![t] = label]
CurDev         == cntlr.curDev
Unlocked       == cntlr.mutex = None
Code           == message[hand[Worker]].code

\* A place in memory, taken by OsalMemCalloc.
IsNext(x, X) == X # {} /\ x = CHOOSE y \in X : TRUE

\* The worker still reads the message it has handled.
FreeMessages == {m \in Messages : ~message[m].memory /\ (Reuse \/ hand[Worker] # m)}

(* MmcCntlrAddMsgToQueue and PlatformQueueAddMsg, by a sender that waits    *)
(* (block) or by one that does not.                                         *)
AddMsgToQueue(m, code, block) ==
    /\ IsNext(m, FreeMessages)
    /\ message' = [message EXCEPT ![m] =
                     [memory |-> TRUE, block |-> block, code |-> code, sem |-> 0, handled |-> FALSE]]
    /\ queue' = Append(queue, m)

(* The card is put in or taken out (external); the slot's interrupt follows.*)
SlotChanges ==
    /\ slot.changes < MaxChanges
    /\ slot' = [slot EXCEPT !.plugged = ~@, !.irq = TRUE, !.changes = @ + 1]
    /\ UNCHANGED <<cntlr, card, queue, message, pc, hand, tries>>

(* MmcCntlrAddDetectMsgToQueue, once, when the controller's driver starts.  *)
AddDetectMsg(m) ==
    /\ ~slot.asked
    /\ slot' = [slot EXCEPT !.asked = TRUE]
    /\ IF slot.plugged
       THEN /\ cntlr' = [cntlr EXCEPT !.devPluged = TRUE]
            /\ AddMsgToQueue(m, "PLUG", FALSE)
       ELSE UNCHANGED <<cntlr, queue, message>>
    /\ UNCHANGED <<card, pc, hand, tries>>

\* Mutant of AddPlugMsg: devPluged is not cleared.
AddPlugMsgOnly(m) ==
    /\ slot.irq
    /\ slot' = [slot EXCEPT !.irq = FALSE]
    /\ cntlr' = [cntlr EXCEPT !.devPluged = @ \/ slot.plugged]
    /\ IF slot.plugged = cntlr.devPluged THEN UNCHANGED <<queue, message>>
       ELSE AddMsgToQueue(m, IF slot.plugged THEN "PLUG" ELSE "UNPLUG", FALSE)
    /\ UNCHANGED <<card, pc, hand, tries>>

(* MmcCntlrAddPlugMsgToQueue, the slot's interrupt. *)
AddPlugMsg(m) ==
    /\ slot.irq
    /\ slot' = [slot EXCEPT !.irq = FALSE]
    /\ cntlr' = [cntlr EXCEPT !.devPluged = slot.plugged]
    /\ IF slot.plugged = cntlr.devPluged THEN UNCHANGED <<queue, message>>
       ELSE AddMsgToQueue(m, IF slot.plugged THEN "PLUG" ELSE "UNPLUG", FALSE)
    /\ UNCHANGED <<card, pc, hand, tries>>

-----------------------------------------------------------------------------
\* Mutant of TakeMsg: the sender is woken before its message is handled.
TakeMsgWakes ==
    /\ pc[Worker] = "idle" /\ queue # <<>>
    /\ LET m == Head(queue)
       IN  /\ hand' = [hand EXCEPT ![Worker] = m]
           /\ message' = [message EXCEPT ![m].sem = IF message[m].block THEN 1 ELSE 0]
           /\ Goto(Worker, message[m].code)
    /\ queue' = Tail(queue)
    /\ tries' = 0
    /\ UNCHANGED <<slot, cntlr, card>>

\* PlatformQueueThreadWorker takes the first message.
TakeMsg ==
    /\ pc[Worker] = "idle" /\ queue # <<>>
    /\ hand' = [hand EXCEPT ![Worker] = Head(queue)]
    /\ Goto(Worker, message[Head(queue)].code)
    /\ queue' = Tail(queue)
    /\ tries' = 0
    /\ UNCHANGED <<slot, cntlr, card, message>>

\* MmcCntlrExecRequest; however it ends, its result goes no further.
ExecRequest ==
    /\ pc[Worker] = "REQUEST" /\ Unlocked
    /\ Goto(Worker, "handled")
    /\ UNCHANGED <<slot, cntlr, card, queue, message, hand, tries>>

\* MmcCntlrSdioRescanHandle: a card that still answers is left alone.
RescanHandle ==
    /\ pc[Worker] = "RESCAN"
    /\ \/ CurDev # None /\ card[CurDev].present /\ Goto(Worker, "handled")
       \/ Goto(Worker, "PLUG")
    /\ UNCHANGED <<slot, cntlr, card, queue, message, hand, tries>>

\* MmcCntlrPlug, up to the mutex.
Plug ==
    /\ pc[Worker] = "PLUG"
    /\ Goto(Worker, IF ~slot.plugged THEN "handled" ELSE IF CurDev # None THEN "UNPLUG" ELSE "init")
    /\ UNCHANGED <<slot, cntlr, card, queue, message, hand, tries>>

\* Where the worker goes when the card is deleted.
AfterDelete == IF Code = "UNPLUG" THEN "handled" ELSE "init"

\* The units of a card that is added: the manager's, and MmcBlockInit's.
HasBlock    == cntlr.type # "SDIO"
DeviceUnits == IF HasBlock THEN 2 ELSE 1

\* Mutant of Removed: MmcBlockUninit keeps the block device's unit.
RemovedNoBlock(c) == [c EXCEPT !.present = FALSE, !.dev = PutBack(@)]

\* A card on its way out: MmcBlockUninit and PlatformManagerDelDevice.
Removed(c) ==
    [c EXCEPT !.present = FALSE, !.dev = PutBack(IF HasBlock THEN PutBack(@) ELSE @)]

\* A card that was found: one that the manager and the block device hold.
Added(c) == [c EXCEPT !.present = TRUE, !.dev = [Inited EXCEPT !.refs = DeviceUnits]]

Undisturbed == Overlap \/ \A u \in Users : pc[u] # "claim"

(* MmcDeleteDev under the mutex, up to the wait of PlatformDeviceUninit.    *)
DeleteDev ==
    /\ pc[Worker] = "UNPLUG" /\ Unlocked /\ Undisturbed
    /\ IF CurDev = None \/ ~card[CurDev].present
       THEN Goto(Worker, AfterDelete) /\ UNCHANGED <<cntlr, card>>
       ELSE /\ cntlr' = [cntlr EXCEPT !.mutex = Worker]
            /\ card' = [card EXCEPT ![CurDev] = Removed(@)]
            /\ Goto(Worker, "deleting")
    /\ UNCHANGED <<slot, queue, message, hand, tries>>

\* Mutant of FreeDev: the device is freed at once.
FreeDevAtOnce ==
    /\ pc[Worker] = "deleting"
    /\ card' = [card EXCEPT ![CurDev] = NoCard]
    /\ cntlr' = [cntlr EXCEPT !.curDev = None, !.mutex = IF cntlr.detecting THEN @ ELSE None]
    /\ Goto(Worker, IF cntlr.detecting THEN "failed" ELSE AfterDelete)
    /\ UNCHANGED <<slot, queue, message, hand, tries>>

(* The wait is over: MmcCntlrFreeDev, and the mutex is given back unless a  *)
(* detection goes on.                                                       *)
FreeDev ==
    /\ pc[Worker] = "deleting" /\ MayEnd(card[CurDev].dev)
    /\ card' = [card EXCEPT ![CurDev] = NoCard]
    /\ cntlr' = [cntlr EXCEPT !.curDev = None, !.mutex = IF cntlr.detecting THEN @ ELSE None]
    /\ Goto(Worker, IF cntlr.detecting THEN "failed" ELSE AfterDelete)
    /\ UNCHANGED <<slot, queue, message, hand, tries>>

-----------------------------------------------------------------------------
\* The controller's systemInit, which may fail.
SystemInit ==
    /\ pc[Worker] = "init"
    /\ \E label \in {"lock", "handled"} : Goto(Worker, label)
    /\ UNCHANGED <<slot, cntlr, card, queue, message, hand, tries>>

\* MmcCntlrPlug takes the mutex.
LockForDetect ==
    /\ pc[Worker] = "lock" /\ Unlocked
    /\ cntlr' = [cntlr EXCEPT !.mutex = Worker, !.detecting = TRUE]
    /\ Goto(Worker, "alloc")
    /\ UNCHANGED <<slot, card, queue, message, hand, tries>>

Pointed == {hand[u] : u \in Users}

\* MmcCntlrAllocDev: curDev is set before the card is known.
AllocDev(c) ==
    /\ pc[Worker] = "alloc"
    /\ IsNext(c, {x \in Cards : ~card[x].memory /\ x \notin Pointed})
    /\ card' = [card EXCEPT ![c].memory = TRUE]
    /\ cntlr' = [cntlr EXCEPT !.curDev = c]
    /\ tries' = tries + 1
    /\ Goto(Worker, "detect")
    /\ UNCHANGED <<slot, queue, message, hand>>

Finished == [cntlr EXCEPT !.mutex = None, !.detecting = FALSE]

(* MmcDoDetect: SdioDetect, SdDetect or EmmcDetect succeed and MmcDeviceAdd *)
(* adds the device and its block device.                                    *)
DetectSucceeds ==
    /\ pc[Worker] = "detect"
    /\ card' = [card EXCEPT ![CurDev] = Added(@)]
    /\ cntlr' = Finished
    /\ Goto(Worker, "handled")
    /\ UNCHANGED <<slot, queue, message, hand, tries>>

\* MmcBlockInit fails and MmcDeviceAdd deletes the device again.
BlockInitFails ==
    /\ pc[Worker] = "detect" /\ HasBlock
    /\ card' = [card EXCEPT ![CurDev].dev = PutBack(Got(Inited))]
    /\ Goto(Worker, "deleting")
    /\ UNCHANGED <<slot, cntlr, queue, message, hand, tries>>

\* The detection fails earlier: MmcCntlrFreeDev.
DetectFails ==
    /\ pc[Worker] = "detect"
    /\ card' = [card EXCEPT ![CurDev] = NoCard]
    /\ cntlr' = [cntlr EXCEPT !.curDev = None]
    /\ Goto(Worker, "failed")
    /\ UNCHANGED <<slot, queue, message, hand, tries>>

Retry ==
    /\ pc[Worker] = "failed"
    /\ IF tries < Retries THEN Goto(Worker, "alloc") /\ UNCHANGED cntlr
       ELSE Goto(Worker, "handled") /\ cntlr' = Finished
    /\ UNCHANGED <<slot, card, queue, message, hand, tries>>

\* MmcMsgHandleDefault ends: a message nobody waits for is freed.
Handled ==
    /\ pc[Worker] = "handled"
    /\ message' = [message EXCEPT ![hand[Worker]] = IF @.block THEN [@ EXCEPT !.handled = TRUE] ELSE NoMessage]
    /\ Goto(Worker, "post")
    /\ UNCHANGED <<slot, cntlr, card, queue, hand, tries>>

\* Mutant of PostDone: a sender of a rescan is not woken.
PostRequestsOnly ==
    /\ pc[Worker] = "post"
    /\ message' = [message EXCEPT ![hand[Worker]].sem = IF Code = "REQUEST" THEN @ + 1 ELSE @]
    /\ hand' = [hand EXCEPT ![Worker] = None]
    /\ Goto(Worker, "idle")
    /\ UNCHANGED <<slot, cntlr, card, queue, tries>>

\* The worker reads block, of the message it may just have freed, and posts.
PostDone ==
    /\ pc[Worker] = "post"
    /\ message' = [message EXCEPT ![hand[Worker]].sem = IF message[hand[Worker]].block THEN @ + 1 ELSE @]
    /\ hand' = [hand EXCEPT ![Worker] = None]
    /\ Goto(Worker, "idle")
    /\ UNCHANGED <<slot, cntlr, card, queue, tries>>

-----------------------------------------------------------------------------
\* MmcCntlrPostMsg, with a message that blocks its sender.
Send(u, m, code) ==
    /\ AddMsgToQueue(m, code, TRUE)
    /\ hand' = [hand EXCEPT ![u] = m]
    /\ Goto(u, "wait")
    /\ UNCHANGED <<slot, cntlr, card, tries>>

Idle(u) == pc[u] = "idle" /\ cntlr.mutex # u

\* MmcCntlrAddRequestMsgToQueue, called to read and write.
Request(u, m) == Idle(u) /\ slot.plugged /\ Send(u, m, "REQUEST")

\* MmcCntlrAddSdioRescanMsgToQueue, called by SdioOpen.
Rescan(u, m) == Idle(u) /\ cntlr.type = "SDIO" /\ Send(u, m, "RESCAN")

\* PlatformMsgWait ends; the sender frees its message.
WaitEnds(u) ==
    /\ pc[u] = "wait" /\ message[hand[u]].sem > 0
    /\ message' = [message EXCEPT ![hand[u]] = NoMessage]
    /\ hand' = [hand EXCEPT ![u] = None]
    /\ Goto(u, "idle")
    /\ UNCHANGED <<slot, cntlr, card, queue, tries>>

(* SdioDeviceGetFromHandle reads curDev, and MmcDeviceGet takes a unit of   *)
(* it; the call that follows is one that uses the card, or claims or        *)
(* releases the host.                                                       *)
Calls(u) ==
    IF cntlr.mutex = u THEN {"release"}
    ELSE {"use"} \cup {c \in {"claim"} : slot.claims < MaxClaims}

GetDevice(u, call) ==
    /\ u \in Holders /\ pc[u] = "idle" /\ call \in Calls(u)
    /\ cntlr.type = "SDIO" /\ CurDev # None /\ card[CurDev].present
    /\ hand' = [hand EXCEPT ![u] = CurDev]
    /\ card' = [card EXCEPT ![CurDev].dev = Got(@)]
    /\ slot' = [slot EXCEPT !.claims = IF call = "claim" THEN @ + 1 ELSE @]
    /\ Goto(u, call)
    /\ UNCHANGED <<cntlr, queue, message, tries>>

\* SdioDeviceDefaultClaimHost waits for the mutex.
ClaimHost(u) ==
    /\ pc[u] = "claim" /\ Unlocked
    /\ cntlr' = [cntlr EXCEPT !.mutex = u]
    /\ Goto(u, "use")
    /\ UNCHANGED <<slot, card, queue, message, hand, tries>>

ReleaseHost(u) ==
    /\ pc[u] = "release"
    /\ cntlr' = [cntlr EXCEPT !.mutex = None]
    /\ Goto(u, "use")
    /\ UNCHANGED <<slot, card, queue, message, hand, tries>>

\* MmcDevicePut at the end of every call.
DevicePut(u) ==
    /\ pc[u] = "use"
    /\ card' = [card EXCEPT ![hand[u]].dev = PutBack(@)]
    /\ hand' = [hand EXCEPT ![u] = None]
    /\ Goto(u, "idle")
    /\ UNCHANGED <<slot, cntlr, queue, message, tries>>

-----------------------------------------------------------------------------
WorkerStep ==
    \/ TakeMsg \/ ExecRequest \/ RescanHandle \/ Plug \/ DeleteDev \/ FreeDev
    \/ SystemInit \/ LockForDetect \/ DetectSucceeds \/ BlockInitFails \/ DetectFails \/ Retry
    \/ \E c \in Cards : AllocDev(c)
    \/ Handled \/ PostDone

UserStep(u) == WaitEnds(u) \/ ClaimHost(u) \/ ReleaseHost(u) \/ DevicePut(u)

Next ==
    \/ SlotChanges
    \/ \E m \in Messages : AddDetectMsg(m) \/ AddPlugMsg(m)
    \/ WorkerStep
    \/ \E u \in Users :
          \/ UserStep(u)
          \/ \E m \in Messages : Request(u, m) \/ Rescan(u, m)
          \/ \E call \in {"use", "claim", "release"} : GetDevice(u, call)

Spec == Init /\ [][Next]_vars

\* The worker and calls in progress go on; who claimed the host releases it.
FairSpec ==
    /\ Spec
    /\ WF_vars(WorkerStep)
    /\ \A u \in Users : WF_vars(UserStep(u)) /\ WF_vars(GetDevice(u, "release"))

-----------------------------------------------------------------------------
WorkerLabels ==
    {"idle", "REQUEST", "RESCAN", "PLUG", "UNPLUG", "NONE", "init", "lock", "alloc", "detect", "failed",
     "deleting", "handled", "post"}
InCall     == {"use", "claim", "release"}
UserLabels == {"idle", "wait"} \cup InCall

Slot      == [plugged : BOOLEAN, irq : BOOLEAN, changes : 0..MaxChanges, claims : 0..MaxClaims,
              asked : BOOLEAN]
MmcCntlr  == [type : Types, devPluged : BOOLEAN, detecting : BOOLEAN,
              curDev : Cards \cup {None}, mutex : Users \cup {Worker, None}]
MmcDevice == [memory : BOOLEAN, present : BOOLEAN, dev : PlatformObjects]
MmcMsg    == [memory : BOOLEAN, block : BOOLEAN, sem : Nat, handled : BOOLEAN,
              code : {"REQUEST", "RESCAN", "PLUG", "UNPLUG", "NONE"}]

TypeOK ==
    /\ slot \in Slot /\ cntlr \in MmcCntlr
    /\ card \in [Cards -> MmcDevice]
    /\ message \in [Messages -> MmcMsg] /\ queue \in Seq(Messages)
    /\ pc \in [Users \cup {Worker} -> WorkerLabels \cup UserLabels]
    /\ pc[Worker] \in WorkerLabels /\ \A u \in Users : pc[u] \in UserLabels
    /\ hand \in [Users \cup {Worker} -> Cards \cup Messages \cup {None}]
    /\ tries \in 0..Retries

CallersOn(c) == {u \in Users : hand[u] = c /\ pc[u] \in InCall}

(* The card's memory outlives every call that uses it ("make sure no        *)
(* reference anymore before exit", platform_device.c:91).                   *)
CardOutlivesCalls == \A c \in Cards : CallersOn(c) # {} => card[c].memory

(* While a card is there or is being removed, its count is the number of    *)
(* those who use it: a removal ends when they have finished, not before.    *)
CountsUsers ==
    \A c \in Cards :
        card[c].present \/ (pc[Worker] = "deleting" /\ c = CurDev) =>
            card[c].dev.refs = Cardinality(CallersOn(c)) + (IF card[c].present THEN DeviceUnits ELSE 0)

(* A thread that waits for its message is woken when the message has been   *)
(* handled, and its message is nobody else's until then.                    *)
WokenWhenHandled ==
    \A u \in Users :
        pc[u] = "wait" =>
            /\ message[hand[u]].memory
            /\ message[hand[u]].sem > 0 => message[hand[u]].handled
            /\ \A v \in Users \ {u} : pc[v] = "wait" => hand[v] # hand[u]

(* When all messages are handled, the controller has no card that has left  *)
(* the slot, however often the card was put in and taken out meanwhile.     *)
(* Not so for SDIO: a rescan may find a card whose interrupt has not come,  *)
(* and when the card leaves before it does, devPluged has never changed.    *)
SettlesOnSlot ==
    (queue = <<>> /\ pc[Worker] = "idle" /\ ~slot.irq /\ slot.asked /\ cntlr.type # "SDIO") =>
        /\ cntlr.devPluged = slot.plugged
        /\ CurDev # None => slot.plugged /\ card[CurDev].present

(* A call that sends a message, and one that waits for the host, returns.   *)
CallsReturn == \A u \in Users : pc[u] \in {"wait", "claim"} ~> pc[u] = "idle"
=============================================================================
