--------------------------- MODULE MmcCore_proof ---------------------------
(***************************************************************************)
(* Theorems about MmcCore, for any finite set of users and any cards,      *)
(* messages and bounds.                                                    *)
(***************************************************************************)
EXTENDS MmcCore, FiniteSetTheorems, SequenceTheorems, TLAPS

\* How often a detection was tried, by where the worker is.
Tried ==
    /\ pc[Worker] \in {"alloc", "detect", "failed"} => cntlr.detecting
    /\ cntlr.detecting => pc[Worker] \in {"alloc", "detect", "failed", "deleting"}
    /\ pc[Worker] \in {"REQUEST", "RESCAN", "PLUG", "UNPLUG", "init", "lock"} => tries = 0
    /\ pc[Worker] = "deleting" /\ ~cntlr.detecting => tries = 0
    /\ pc[Worker] = "alloc" => tries < Retries

\* The hand of a user, by where the user is.
Held == \A u \in Users : pc[u] = "wait" => hand[u] \in Messages

TInv == TypeOK /\ Tried /\ Held

\* The only card there is is curDev, and it is there unless it is being
\* detected or removed.
OneCard ==
    /\ \A c \in Cards : card[c].present => c = CurDev
    /\ CurDev # None => /\ card[CurDev].memory
                        /\ card[CurDev].present <=> pc[Worker] \notin {"detect", "deleting"}
    /\ pc[Worker] \in {"init", "lock", "alloc", "failed"} => CurDev = None
    /\ pc[Worker] \in {"detect", "deleting"} => CurDev # None

\* A user in a call uses that card.
OnCurDev ==
    \A u \in Users : pc[u] \in InCall => CurDev # None /\ hand[u] = CurDev /\ pc[Worker] # "detect"

\* Its count, and the semaphore posted when it is zero.
Counted ==
    CurDev # None /\ pc[Worker] # "detect" =>
        LET o == card[CurDev].dev
        IN  /\ o.refs = Cardinality(CallersOn(CurDev)) + (IF card[CurDev].present THEN DeviceUnits ELSE 0)
            /\ o.released = IF o.refs = 0 THEN 1 ELSE 0

CInv == OneCard /\ OnCurDev /\ Counted

\* What the queue and the worker hold has not been handled.
Queued ==
    /\ IsInjective(queue)
    /\ \A m \in Range(queue) :
          message[m].memory /\ message[m].sem = 0 /\ ~message[m].handled /\ m # hand[Worker]
          /\ message[m].code # "NONE"

InHand ==
    /\ pc[Worker] # "idle" => hand[Worker] \in Messages
    /\ pc[Worker] \notin {"idle", "post"} =>
          message[hand[Worker]].memory /\ message[hand[Worker]].sem = 0 /\ ~message[hand[Worker]].handled
    /\ pc[Worker] = "post" =>
          /\ message[hand[Worker]].sem = 0
          /\ message[hand[Worker]].block => message[hand[Worker]].memory /\ message[hand[Worker]].handled

\* A thread that waits owns its message.
Waiting ==
    \A u \in Users :
        pc[u] = "wait" =>
            /\ message[hand[u]].memory /\ message[hand[u]].block
            /\ message[hand[u]].sem > 0 => message[hand[u]].handled
            /\ \A v \in Users \ {u} : pc[v] = "wait" => hand[v] # hand[u]

MInv == Queued /\ InHand /\ Waiting

\* devPluged lags behind the slot until the interrupt or the first message.
Follows ==
    ~slot.irq => cntlr.devPluged = slot.plugged \/ (~slot.asked /\ slot.plugged)

Kind(i)       == message[queue[i]].code
UnplugQueued  == \E j \in 1..Len(queue) : Kind(j) = "UNPLUG"
PlugsFollowed == \A i \in 1..Len(queue) : Kind(i) = "PLUG" => \E j \in i + 1..Len(queue) : Kind(j) = "UNPLUG"

\* The steps of a PLUG; those of an UNPLUG; a card is there or may be found.
Plugging == {"PLUG", "init", "lock", "alloc", "detect", "failed"}
Removing == pc[Worker] \in {"UNPLUG", "deleting"} /\ Code = "UNPLUG"
Coming   == CurDev # None \/ pc[Worker] \in Plugging \/ (pc[Worker] = "UNPLUG" /\ Code = "PLUG")

\* A card that has left is removed: an UNPLUG is behind every PLUG, and
\* behind the card that a PLUG has found or may find.
Leaves == ~cntlr.devPluged => PlugsFollowed /\ (Coming => UnplugQueued \/ Removing)

\* What the worker does, of a message that is not a rescan.
Does ==
    /\ pc[Worker] # "RESCAN" /\ \A m \in Messages : message[m].code # "RESCAN"
    /\ pc[Worker] \in Plugging => Code = "PLUG"
    /\ pc[Worker] \in {"UNPLUG", "deleting"} => Code \in {"PLUG", "UNPLUG"}
    /\ cntlr.detecting => Code = "PLUG"

SInv == cntlr.type # "SDIO" => Does /\ Leaves

-----------------------------------------------------------------------------
USE MmcAssumption

(* Where a step leaves the threads.                                         *)
LEMMA WorkerGoes ==
    ASSUME TypeOK, NEW label \in WorkerLabels, Goto(Worker, label)
    PROVE  /\ pc' \in [Users \cup {Worker} -> WorkerLabels \cup UserLabels]
           /\ pc'[Worker] = label /\ \A u \in Users : pc'[u] = pc[u]
           /\ \A u \in Users : pc'[u] \in UserLabels
BY DEF TypeOK, Goto

LEMMA UserGoes ==
    ASSUME TypeOK, NEW u \in Users, NEW label \in UserLabels, Goto(u, label)
    PROVE  /\ pc' \in [Users \cup {Worker} -> WorkerLabels \cup UserLabels]
           /\ pc'[Worker] = pc[Worker] /\ pc'[u] = label /\ \A v \in Users \ {u} : pc'[v] = pc[v]
           /\ \A v \in Users : pc'[v] \in UserLabels
BY DEF TypeOK, Goto

(* A message that is sent.                                                  *)
LEMMA SentMsg ==
    ASSUME TypeOK, NEW m \in Messages, NEW block \in BOOLEAN,
           NEW code \in {"REQUEST", "RESCAN", "PLUG", "UNPLUG"}, AddMsgToQueue(m, code, block)
    PROVE  /\ m \in FreeMessages
           /\ message' \in [Messages -> MmcMsg]
           /\ queue' = Append(queue, m) /\ queue' \in Seq(Messages)
           /\ message'[m].memory /\ message'[m].block = block /\ message'[m].code = code
           /\ message'[m].sem = 0 /\ ~message'[m].handled
           /\ \A n \in Messages \ {m} : message'[n] = message[n]
<1> DEFINE new == [memory |-> TRUE, block |-> block, code |-> code, sem |-> 0, handled |-> FALSE]
<1>1. m \in FreeMessages
  BY DEF AddMsgToQueue, IsNext
<1>2. /\ new \in MmcMsg
      /\ new.memory /\ new.block = block /\ new.code = code /\ new.sem = 0 /\ ~new.handled
  BY DEF MmcMsg
<1>3. message' = [message EXCEPT ![m] = new] /\ queue' = Append(queue, m)
  BY DEF AddMsgToQueue
<1> HIDE DEF new
<1>4. message' \in [Messages -> MmcMsg]
      /\ message'[m] = new /\ \A n \in Messages \ {m} : message'[n] = message[n]
  BY <1>2, <1>3 DEF TypeOK
<1>5. queue' \in Seq(Messages)
  BY <1>3, AppendProperties DEF TypeOK
<1> QED BY <1>1, <1>2, <1>3, <1>4, <1>5

-----------------------------------------------------------------------------
(* The platform device of a card: what a get and a put do to it.            *)
LEMMA GotIs ==
    ASSUME NEW o \in PlatformObjects
    PROVE  Got(o) \in PlatformObjects /\ Got(o).refs = o.refs + 1 /\ Got(o).released = o.released
BY DEF Got, PlatformObjects

LEMMA PutIs ==
    ASSUME NEW o \in PlatformObjects
    PROVE  /\ PutBack(o) \in PlatformObjects
           /\ PutBack(o).refs = o.refs - 1
           /\ PutBack(o).released = IF o.refs = 1 THEN o.released + 1 ELSE o.released
<1> DEFINE left == [o EXCEPT !.refs = @ - 1]
<1>1. left \in PlatformObjects /\ left.refs = o.refs - 1 /\ left.released = o.released /\ o.refs \in Int
  BY DEF PlatformObjects
<1>2. LastPut(left) \in PlatformObjects /\ LastPut(left).refs = left.refs /\ LastPut(left).released = left.released + 1
  BY <1>1 DEF LastPut, PlatformObjects
<1>3. PutBack(o) = IF left.refs = 0 THEN LastPut(left) ELSE left
  BY Zenon DEF PutBack
<1> HIDE DEF left
<1> QED BY <1>1, <1>2, <1>3

LEMMA InitedIs ==
    /\ Inited \in PlatformObjects /\ Inited.refs = 0 /\ Inited.released = 0
    /\ [Inited EXCEPT !.ready = FALSE] \in PlatformObjects
<1>1. \A b, c \in BOOLEAN :
          LET o == [refs |-> 0, released |-> 0, ready |-> b]
          IN  o \in PlatformObjects /\ o.refs = 0 /\ o.released = 0 /\ [o EXCEPT !.ready = c] \in PlatformObjects
  BY DEF PlatformObjects
<1> QED BY <1>1, Zenon DEF Inited

(* A card that is found, one on its way out, and one that is gone.          *)
LEMMA AddedIs ==
    ASSUME NEW c \in MmcDevice
    PROVE  /\ Added(c) \in MmcDevice /\ Added(c).memory = c.memory /\ Added(c).present
           /\ Added(c).dev.refs = DeviceUnits /\ Added(c).dev.released = 0
<1> DEFINE dev == [Inited EXCEPT !.refs = DeviceUnits]
<1>1. dev \in PlatformObjects /\ dev.refs = DeviceUnits /\ dev.released = 0
  BY InitedIs DEF PlatformObjects, DeviceUnits
<1>2. Added(c) = [c EXCEPT !.present = TRUE, !.dev = dev]
  BY DEF Added
<1> HIDE DEF dev
<1> QED BY <1>1, <1>2 DEF MmcDevice

LEMMA RemovedIs ==
    ASSUME NEW c \in MmcDevice
    PROVE  /\ Removed(c) \in MmcDevice /\ Removed(c).memory = c.memory /\ ~Removed(c).present
           /\ Removed(c).dev.refs = c.dev.refs - DeviceUnits
           /\ c.dev.refs >= DeviceUnits =>
                 Removed(c).dev.released =
                    IF c.dev.refs = DeviceUnits THEN c.dev.released + 1 ELSE c.dev.released
<1> DEFINE dev == PutBack(IF HasBlock THEN PutBack(c.dev) ELSE c.dev)
<1>1. c.dev \in PlatformObjects /\ c.dev.refs \in Int
  BY DEF MmcDevice, PlatformObjects
<1>2. /\ dev \in PlatformObjects /\ dev.refs = c.dev.refs - DeviceUnits
      /\ c.dev.refs >= DeviceUnits =>
            dev.released = IF c.dev.refs = DeviceUnits THEN c.dev.released + 1 ELSE c.dev.released
  <2>1. CASE HasBlock
    <3>1. dev = PutBack(PutBack(c.dev)) /\ DeviceUnits = 2
      BY <2>1 DEF DeviceUnits
    <3> QED BY <1>1, <3>1, PutIs
  <2>2. CASE ~HasBlock
    <3>1. dev = PutBack(c.dev) /\ DeviceUnits = 1
      BY <2>2 DEF DeviceUnits
    <3> QED BY <1>1, <3>1, PutIs
  <2> QED BY <2>1, <2>2
<1>3. Removed(c) = [c EXCEPT !.present = FALSE, !.dev = dev]
  BY DEF Removed
<1> HIDE DEF dev
<1> QED BY <1>2, <1>3 DEF MmcDevice

LEMMA NoCardIs == NoCard \in MmcDevice /\ ~NoCard.memory /\ ~NoCard.present
BY InitedIs DEF NoCard, MmcDevice

LEMMA NoMessageIs ==
    NoMessage \in MmcMsg /\ ~NoMessage.memory /\ ~NoMessage.block /\ NoMessage.sem = 0 /\ NoMessage.code = "NONE"
BY DEF NoMessage, MmcMsg

-----------------------------------------------------------------------------
(* The types, action by action.                                             *)
LEMMA SlotChangesTypes ==
    ASSUME TInv, SlotChanges
    PROVE  TInv'
<1>1. slot' \in Slot
  <2>1. slot.changes \in 0..MaxChanges /\ slot.plugged \in BOOLEAN
    BY DEF TInv, TypeOK, Slot
  <2>2. slot.changes + 1 \in 0..MaxChanges
    BY <2>1 DEF SlotChanges
  <2> QED BY <2>1, <2>2 DEF TInv, TypeOK, SlotChanges, Slot
<1> QED BY <1>1 DEF TInv, TypeOK, Tried, Held, SlotChanges

LEMMA AddDetectMsgTypes ==
    ASSUME TInv, NEW m \in Messages, AddDetectMsg(m)
    PROVE  TInv'
<1>1. slot' \in Slot /\ UNCHANGED <<card, pc, hand, tries>>
  BY DEF TInv, TypeOK, AddDetectMsg, Slot
<1>2. cntlr' \in MmcCntlr /\ cntlr'.detecting = cntlr.detecting
  BY DEF TInv, TypeOK, AddDetectMsg, MmcCntlr
<1>3. AddMsgToQueue(m, "PLUG", FALSE) \/ UNCHANGED <<queue, message>>
  BY DEF AddDetectMsg
<1> QED BY <1>1, <1>2, <1>3, SentMsg DEF TInv, TypeOK, Tried, Held

LEMMA AddPlugMsgTypes ==
    ASSUME TInv, NEW m \in Messages, AddPlugMsg(m)
    PROVE  TInv'
<1>1. slot' \in Slot /\ UNCHANGED <<card, pc, hand, tries>>
  BY DEF TInv, TypeOK, AddPlugMsg, Slot
<1>2. cntlr' \in MmcCntlr /\ cntlr'.detecting = cntlr.detecting
  BY DEF TInv, TypeOK, AddPlugMsg, Slot, MmcCntlr
<1>3. AddMsgToQueue(m, "PLUG", FALSE) \/ AddMsgToQueue(m, "UNPLUG", FALSE) \/ UNCHANGED <<queue, message>>
  BY DEF AddPlugMsg
<1> QED BY <1>1, <1>2, <1>3, SentMsg DEF TInv, TypeOK, Tried, Held

LEMMA TakeMsgTypes ==
    ASSUME TInv, TakeMsg
    PROVE  TInv'
<1>1. Head(queue) \in Messages /\ Tail(queue) \in Seq(Messages)
  BY HeadTailProperties DEF TInv, TypeOK, TakeMsg
<1>2. message[Head(queue)].code \in WorkerLabels
  BY <1>1 DEF TInv, TypeOK, MmcMsg, WorkerLabels
<1>3. /\ pc' \in [Users \cup {Worker} -> WorkerLabels \cup UserLabels]
      /\ pc'[Worker] \in {"REQUEST", "RESCAN", "PLUG", "UNPLUG", "NONE"}
      /\ \A u \in Users : pc'[u] = pc[u]
  BY <1>1, <1>2, WorkerGoes DEF TInv, TypeOK, MmcMsg, TakeMsg
<1>4. /\ hand' \in [Users \cup {Worker} -> Cards \cup Messages \cup {None}]
      /\ \A u \in Users : hand'[u] = hand[u]
  BY <1>1 DEF TInv, TypeOK, TakeMsg
<1>5. TypeOK'
  BY <1>1, <1>3, <1>4 DEF TInv, TypeOK, TakeMsg, WorkerLabels
<1>6. Tried' /\ Held'
  BY <1>3, <1>4 DEF TInv, Tried, Held, TakeMsg
<1> QED BY <1>5, <1>6 DEF TInv

\* A step of the worker that leaves cards, messages and tries alone.
LEMMA WorkerOnlyTypes ==
    ASSUME TInv, NEW label \in WorkerLabels, Goto(Worker, label), UNCHANGED <<slot, card, queue, message, tries, hand>>,
           cntlr' \in MmcCntlr,
           label \in {"alloc", "detect", "failed"} => cntlr'.detecting,
           cntlr'.detecting => label \in {"alloc", "detect", "failed", "deleting"},
           label \in {"REQUEST", "RESCAN", "PLUG", "UNPLUG", "init", "lock"} => tries = 0,
           label = "deleting" /\ ~cntlr'.detecting => tries = 0,
           label = "alloc" => tries < Retries
    PROVE  TInv'
<1>1. /\ pc' \in [Users \cup {Worker} -> WorkerLabels \cup UserLabels]
      /\ pc'[Worker] = label /\ \A u \in Users : pc'[u] = pc[u] /\ pc'[u] \in UserLabels
  BY WorkerGoes DEF TInv
<1>2. TypeOK'
  BY <1>1 DEF TInv, TypeOK
<1>3. Tried' /\ Held'
  BY <1>1 DEF TInv, Tried, Held
<1> QED BY <1>2, <1>3 DEF TInv

LEMMA ExecRequestTypes == ASSUME TInv, ExecRequest PROVE TInv'
BY WorkerOnlyTypes DEF TInv, TypeOK, Tried, ExecRequest, WorkerLabels

LEMMA RescanHandleTypes == ASSUME TInv, RescanHandle PROVE TInv'
BY WorkerOnlyTypes DEF TInv, TypeOK, Tried, RescanHandle, WorkerLabels

LEMMA PlugTypes == ASSUME TInv, Plug PROVE TInv'
BY WorkerOnlyTypes DEF TInv, TypeOK, Tried, Plug, WorkerLabels

LEMMA SystemInitTypes == ASSUME TInv, SystemInit PROVE TInv'
BY WorkerOnlyTypes DEF TInv, TypeOK, Tried, SystemInit, WorkerLabels

LEMMA LockForDetectTypes == ASSUME TInv, LockForDetect PROVE TInv'
<1>1. cntlr' \in MmcCntlr /\ cntlr'.detecting
  BY DEF TInv, TypeOK, LockForDetect, MmcCntlr
<1> QED BY <1>1, WorkerOnlyTypes DEF TInv, TypeOK, Tried, LockForDetect, WorkerLabels

LEMMA RetryTypes == ASSUME TInv, Retry PROVE TInv'
<1>1. Finished \in MmcCntlr /\ ~Finished.detecting
  BY DEF TInv, TypeOK, Finished, MmcCntlr
<1> QED BY <1>1, WorkerOnlyTypes DEF TInv, TypeOK, Tried, Retry, WorkerLabels

\* A step of the worker that changes the card in use.
LEMMA CardTypes ==
    ASSUME TInv, NEW label \in WorkerLabels, Goto(Worker, label), UNCHANGED <<slot, queue, message, hand>>,
           card' \in [Cards -> MmcDevice], cntlr' \in MmcCntlr, tries' \in 0..Retries,
           label \in {"alloc", "detect", "failed"} => cntlr'.detecting,
           cntlr'.detecting => label \in {"alloc", "detect", "failed", "deleting"},
           label \in {"REQUEST", "RESCAN", "PLUG", "UNPLUG", "init", "lock"} => tries' = 0,
           label = "deleting" /\ ~cntlr'.detecting => tries' = 0,
           label = "alloc" => tries' < Retries
    PROVE  TInv'
<1>1. /\ pc' \in [Users \cup {Worker} -> WorkerLabels \cup UserLabels]
      /\ pc'[Worker] = label /\ \A u \in Users : pc'[u] = pc[u] /\ pc'[u] \in UserLabels
  BY WorkerGoes DEF TInv
<1>2. TypeOK'
  BY <1>1 DEF TInv, TypeOK
<1>3. Tried' /\ Held'
  BY <1>1 DEF TInv, Tried, Held
<1> QED BY <1>2, <1>3 DEF TInv

\* One field of a card set.
LEMMA MemorySet ==
    ASSUME TypeOK, NEW c \in Cards
    PROVE  [card EXCEPT ![c].memory = TRUE] \in [Cards -> MmcDevice]
<1>1. card \in [Cards -> MmcDevice]
  BY DEF TypeOK
<1>2. [card[c] EXCEPT !.memory = TRUE] \in MmcDevice
  BY <1>1 DEF MmcDevice
<1> QED BY ONLY <1>1, <1>2

LEMMA DevSet ==
    ASSUME TypeOK, NEW c, NEW o \in PlatformObjects
    PROVE  [card EXCEPT ![c].dev = o] \in [Cards -> MmcDevice]
<1>1. card \in [Cards -> MmcDevice]
  BY DEF TypeOK
<1>2. c \in Cards => [card[c] EXCEPT !.dev = o] \in MmcDevice
  BY <1>1 DEF MmcDevice
<1> QED BY ONLY <1>1, <1>2

LEMMA DeleteDevTypes == ASSUME TInv, DeleteDev PROVE TInv'
<1>1. CASE CurDev = None \/ ~card[CurDev].present
  BY <1>1, WorkerOnlyTypes DEF TInv, TypeOK, Tried, DeleteDev, AfterDelete, WorkerLabels
<1>2. CASE ~(CurDev = None \/ ~card[CurDev].present)
  <2>1. /\ cntlr' = [cntlr EXCEPT !.mutex = Worker] /\ card' = [card EXCEPT ![CurDev] = Removed(@)]
        /\ Goto(Worker, "deleting") /\ UNCHANGED <<slot, queue, message, hand, tries>> /\ pc[Worker] = "UNPLUG"
    BY <1>2 DEF DeleteDev
  <2>2. cntlr' \in MmcCntlr /\ cntlr'.detecting = cntlr.detecting /\ CurDev \in Cards
    BY <1>2, <2>1 DEF TInv, TypeOK, MmcCntlr, CurDev
  <2>3. card' \in [Cards -> MmcDevice]
    BY <2>1, <2>2, RemovedIs DEF TInv, TypeOK
  <2> QED BY <2>1, <2>2, <2>3, CardTypes DEF TInv, TypeOK, Tried, WorkerLabels
<1> QED BY <1>1, <1>2

LEMMA FreeDevTypes == ASSUME TInv, FreeDev PROVE TInv'
<1>1. /\ cntlr' \in MmcCntlr /\ cntlr'.detecting = cntlr.detecting
      /\ card' \in [Cards -> MmcDevice]
  BY NoCardIs DEF TInv, TypeOK, FreeDev, MmcCntlr
<1> QED BY <1>1, CardTypes DEF TInv, TypeOK, Tried, FreeDev, AfterDelete, WorkerLabels

LEMMA AllocDevTypes == ASSUME TInv, NEW c \in Cards, AllocDev(c) PROVE TInv'
<1>1. cntlr' \in MmcCntlr /\ cntlr'.detecting = cntlr.detecting
  BY DEF TInv, TypeOK, AllocDev, MmcCntlr
<1>2. card' \in [Cards -> MmcDevice]
  BY MemorySet DEF TInv, AllocDev
<1>3. tries' \in 0..Retries
  BY DEF TInv, TypeOK, Tried, AllocDev
<1> QED BY <1>1, <1>2, <1>3, CardTypes DEF TInv, Tried, AllocDev, WorkerLabels

LEMMA DetectSucceedsTypes == ASSUME TInv, DetectSucceeds PROVE TInv'
<1>1. cntlr' \in MmcCntlr /\ ~cntlr'.detecting
  BY DEF TInv, TypeOK, DetectSucceeds, Finished, MmcCntlr
<1>2. card' \in [Cards -> MmcDevice]
  BY AddedIs DEF TInv, TypeOK, DetectSucceeds
<1> QED BY <1>1, <1>2, CardTypes DEF TInv, TypeOK, DetectSucceeds, WorkerLabels

LEMMA BlockInitFailsTypes == ASSUME TInv, BlockInitFails PROVE TInv'
<1>1. PutBack(Got(Inited)) \in PlatformObjects
  BY InitedIs, GotIs, PutIs
<1>2. card' \in [Cards -> MmcDevice]
  BY <1>1, DevSet DEF TInv, BlockInitFails
<1> QED BY <1>2, CardTypes DEF TInv, TypeOK, Tried, BlockInitFails, WorkerLabels

LEMMA DetectFailsTypes == ASSUME TInv, DetectFails PROVE TInv'
<1>1. cntlr' \in MmcCntlr /\ cntlr'.detecting = cntlr.detecting
  BY DEF TInv, TypeOK, DetectFails, MmcCntlr
<1>2. card' \in [Cards -> MmcDevice]
  BY NoCardIs DEF TInv, TypeOK, DetectFails
<1> QED BY <1>1, <1>2, CardTypes DEF TInv, TypeOK, Tried, DetectFails, WorkerLabels

\* What becomes of the message in the worker's hand.
LEMMA HandledIs ==
    ASSUME TypeOK, Handled
    PROVE  /\ message' \in [Messages -> MmcMsg]
           /\ \A m \in Messages \ {hand[Worker]} : message'[m] = message[m]
           /\ hand[Worker] \in Messages =>
                 LET m == message[hand[Worker]]  new == message'[hand[Worker]]
                 IN  IF m.block
                     THEN /\ new.memory = m.memory /\ new.block /\ new.sem = m.sem /\ new.handled
                          /\ new.code = m.code
                     ELSE new = NoMessage
<1> DEFINE new == IF message[hand[Worker]].block THEN [message[hand[Worker]] EXCEPT !.handled = TRUE] ELSE NoMessage
<1>1. message' = [message EXCEPT ![hand[Worker]] = new]
  BY DEF Handled
<1>2. ASSUME hand[Worker] \in Messages
      PROVE  LET m == message[hand[Worker]]
             IN  /\ new \in MmcMsg
                 /\ IF m.block
                    THEN /\ new.memory = m.memory /\ new.block /\ new.sem = m.sem /\ new.handled
                         /\ new.code = m.code
                    ELSE new = NoMessage
  <2>1. message[hand[Worker]] \in MmcMsg
    BY <1>2 DEF TypeOK
  <2>2. CASE message[hand[Worker]].block
    BY <2>1, <2>2 DEF MmcMsg
  <2>3. CASE ~message[hand[Worker]].block
    BY <2>3, NoMessageIs
  <2> QED BY <2>2, <2>3
<1> HIDE DEF new
<1> QED BY <1>1, <1>2 DEF TypeOK

LEMMA PostedIs ==
    ASSUME TypeOK, PostDone
    PROVE  /\ message' \in [Messages -> MmcMsg]
           /\ \A m \in Messages \ {hand[Worker]} : message'[m] = message[m]
           /\ hand[Worker] \in Messages =>
                 LET m == message[hand[Worker]]  new == message'[hand[Worker]]
                 IN  /\ new.memory = m.memory /\ new.block = m.block /\ new.handled = m.handled /\ new.code = m.code
                     /\ ~m.block => new.sem = m.sem
<1> DEFINE m   == message[hand[Worker]]
           new == [m EXCEPT !.sem = IF m.block THEN @ + 1 ELSE @]
<1>1. message' = [message EXCEPT ![hand[Worker]] = new]
  BY DEF PostDone
<1>2. hand[Worker] \in Messages =>
          /\ new \in MmcMsg
          /\ new.memory = m.memory /\ new.block = m.block /\ new.handled = m.handled /\ new.code = m.code
          /\ ~m.block => new.sem = m.sem
  <2> SUFFICES ASSUME hand[Worker] \in Messages
               PROVE  /\ new \in MmcMsg
                      /\ new.memory = m.memory /\ new.block = m.block /\ new.handled = m.handled /\ new.code = m.code
                      /\ ~m.block => new.sem = m.sem
    OBVIOUS
  <2>1. m \in MmcMsg
    BY DEF TypeOK
  <2>2. CASE m.block
    <3>1. new = [m EXCEPT !.sem = @ + 1]
      BY <2>2
    <3> HIDE DEF new, m
    <3>2. /\ new \in MmcMsg
          /\ new.memory = m.memory /\ new.block = m.block /\ new.handled = m.handled /\ new.code = m.code
      BY <2>1, <3>1 DEF MmcMsg
    <3> QED BY <2>2, <3>2
  <2>3. CASE ~m.block
    <3>1. new = [m EXCEPT !.sem = @]
      BY <2>3
    <3> HIDE DEF new, m
    <3> QED BY <2>1, <3>1 DEF MmcMsg
  <2> QED BY <2>2, <2>3
<1> HIDE DEF new
<1> QED BY <1>1, <1>2 DEF TypeOK

LEMMA HandledTypes == ASSUME TInv, Handled PROVE TInv'
<1>1. message' \in [Messages -> MmcMsg]
  BY HandledIs DEF TInv
<1>2. /\ pc' \in [Users \cup {Worker} -> WorkerLabels \cup UserLabels]
      /\ pc'[Worker] = "post" /\ \A u \in Users : pc'[u] = pc[u] /\ pc'[u] \in UserLabels
  BY WorkerGoes DEF TInv, Handled, WorkerLabels
<1>3. TypeOK'
  BY <1>1, <1>2 DEF TInv, TypeOK, Handled, WorkerLabels
<1> QED BY <1>2, <1>3 DEF TInv, Tried, Held, Handled

LEMMA PostDoneTypes == ASSUME TInv, PostDone PROVE TInv'
<1>1. message' \in [Messages -> MmcMsg]
  BY PostedIs DEF TInv
<1>2. /\ pc' \in [Users \cup {Worker} -> WorkerLabels \cup UserLabels]
      /\ pc'[Worker] = "idle" /\ \A u \in Users : pc'[u] = pc[u] /\ pc'[u] \in UserLabels
  BY WorkerGoes DEF TInv, PostDone, WorkerLabels
<1>3. /\ hand' \in [Users \cup {Worker} -> Cards \cup Messages \cup {None}]
      /\ \A u \in Users : hand'[u] = hand[u]
  BY DEF TInv, TypeOK, PostDone
<1>4. TypeOK'
  BY <1>1, <1>2, <1>3 DEF TInv, TypeOK, PostDone, WorkerLabels
<1> QED BY <1>2, <1>3, <1>4 DEF TInv, Tried, Held, PostDone

LEMMA SendTypes ==
    ASSUME TInv, NEW u \in Users, NEW m \in Messages, NEW code \in {"REQUEST", "RESCAN"}, Idle(u), Send(u, m, code)
    PROVE  TInv'
<1>1. AddMsgToQueue(m, code, TRUE) /\ hand' = [hand EXCEPT ![u] = m] /\ Goto(u, "wait")
  BY DEF Send
<1>2. /\ pc' \in [Users \cup {Worker} -> WorkerLabels \cup UserLabels]
      /\ pc'[Worker] = pc[Worker] /\ \A v \in Users \ {u} : pc'[v] = pc[v]
      /\ \A v \in Users : pc'[v] \in UserLabels
  BY <1>1, UserGoes DEF TInv, UserLabels
<1>3. message' \in [Messages -> MmcMsg] /\ queue' \in Seq(Messages)
  BY <1>1, SentMsg DEF TInv
<1>4. /\ hand' \in [Users \cup {Worker} -> Cards \cup Messages \cup {None}]
      /\ hand'[u] \in Messages /\ \A v \in Users \ {u} : hand'[v] = hand[v]
  BY <1>1 DEF TInv, TypeOK
<1>5. TypeOK'
  BY <1>2, <1>3, <1>4 DEF TInv, TypeOK, Send
<1> QED BY <1>2, <1>4, <1>5 DEF TInv, Tried, Held, Send

\* A user's step that neither sends nor waits.
LEMMA UserTypes ==
    ASSUME TInv, NEW u \in Users, NEW label \in UserLabels, Goto(u, label), label # "wait",
           UNCHANGED <<queue, tries>>, slot' \in Slot, message' \in [Messages -> MmcMsg],
           cntlr' \in MmcCntlr, cntlr'.detecting = cntlr.detecting, card' \in [Cards -> MmcDevice],
           NEW x \in Cards \cup Messages \cup {None}, hand' = [hand EXCEPT ![u] = x]
    PROVE  TInv'
<1>1. /\ pc' \in [Users \cup {Worker} -> WorkerLabels \cup UserLabels]
      /\ pc'[Worker] = pc[Worker] /\ pc'[u] = label /\ \A v \in Users \ {u} : pc'[v] = pc[v]
      /\ \A v \in Users : pc'[v] \in UserLabels
  BY UserGoes DEF TInv
<1>2. /\ hand' \in [Users \cup {Worker} -> Cards \cup Messages \cup {None}]
      /\ \A v \in Users \ {u} : hand'[v] = hand[v]
  BY DEF TInv, TypeOK
<1>3. TypeOK'
  BY <1>1, <1>2 DEF TInv, TypeOK
<1> QED BY <1>1, <1>2, <1>3 DEF TInv, Tried, Held

LEMMA WaitEndsTypes == ASSUME TInv, NEW u \in Users, WaitEnds(u) PROVE TInv'
<1>1. message' \in [Messages -> MmcMsg]
  BY NoMessageIs DEF TInv, TypeOK, WaitEnds
<1>2. "idle" \in UserLabels /\ Goto(u, "idle") /\ hand' = [hand EXCEPT ![u] = None]
  BY DEF UserLabels, WaitEnds
<1> QED BY <1>1, <1>2, UserTypes DEF TInv, TypeOK, WaitEnds

LEMMA GetDeviceTypes ==
    ASSUME TInv, NEW u \in Users, NEW call \in {"use", "claim", "release"}, GetDevice(u, call)
    PROVE  TInv'
<1>1. CurDev \in Cards
  BY DEF TInv, TypeOK, MmcCntlr, GetDevice, CurDev
<1>2. card' \in [Cards -> MmcDevice]
  <2>1. card \in [Cards -> MmcDevice] /\ card' = [card EXCEPT ![CurDev].dev = Got(@)]
    BY DEF TInv, TypeOK, GetDevice
  <2>2. card[CurDev] \in MmcDevice /\ Got(card[CurDev].dev) \in PlatformObjects
    BY <1>1, <2>1, GotIs DEF MmcDevice
  <2>3. [card[CurDev] EXCEPT !.dev = Got(card[CurDev].dev)] \in MmcDevice
    BY <2>2 DEF MmcDevice
  <2> QED BY <1>1, <2>1, <2>3
<1>3. slot' \in Slot
  <2>1. slot.claims \in 0..MaxClaims /\ (call = "claim" => slot.claims < MaxClaims)
    BY DEF TInv, TypeOK, Slot, GetDevice, Calls
  <2>2. (IF call = "claim" THEN slot.claims + 1 ELSE slot.claims) \in 0..MaxClaims
    BY <2>1
  <2> QED BY <2>2 DEF TInv, TypeOK, Slot, GetDevice
<1>4. call \in UserLabels /\ Goto(u, call) /\ hand' = [hand EXCEPT ![u] = CurDev]
  BY DEF UserLabels, InCall, GetDevice
<1> QED BY <1>1, <1>2, <1>3, <1>4, UserTypes DEF TInv, TypeOK, GetDevice

LEMMA ClaimHostTypes == ASSUME TInv, NEW u \in Users, ClaimHost(u) PROVE TInv'
<1>1. cntlr' \in MmcCntlr /\ cntlr'.detecting = cntlr.detecting
  BY DEF TInv, TypeOK, ClaimHost, MmcCntlr
<1>2. hand' = [hand EXCEPT ![u] = hand[u]] /\ hand[u] \in Cards \cup Messages \cup {None}
  BY DEF TInv, TypeOK, ClaimHost
<1> QED BY <1>1, <1>2, UserTypes DEF TInv, TypeOK, ClaimHost, UserLabels, InCall

LEMMA ReleaseHostTypes == ASSUME TInv, NEW u \in Users, ReleaseHost(u) PROVE TInv'
<1>1. cntlr' \in MmcCntlr /\ cntlr'.detecting = cntlr.detecting
  BY DEF TInv, TypeOK, ReleaseHost, MmcCntlr
<1>2. hand' = [hand EXCEPT ![u] = hand[u]] /\ hand[u] \in Cards \cup Messages \cup {None}
  BY DEF TInv, TypeOK, ReleaseHost
<1> QED BY <1>1, <1>2, UserTypes DEF TInv, TypeOK, ReleaseHost, UserLabels, InCall

LEMMA DevicePutTypes == ASSUME TInv, NEW u \in Users, DevicePut(u) PROVE TInv'
<1>1. card' \in [Cards -> MmcDevice]
  <2>1. card \in [Cards -> MmcDevice] /\ card' = [card EXCEPT ![hand[u]].dev = PutBack(@)]
    BY DEF TInv, TypeOK, DevicePut
  <2>2. CASE hand[u] \in Cards
    <3>1. PutBack(card[hand[u]].dev) \in PlatformObjects
      BY <2>1, <2>2, PutIs DEF MmcDevice
    <3> QED BY <2>1, <3>1, DevSet DEF TInv
  <2>3. CASE hand[u] \notin Cards
    BY <2>1, <2>3
  <2> QED BY <2>2, <2>3
<1> QED BY <1>1, UserTypes DEF TInv, TypeOK, DevicePut, UserLabels, InCall

LEMMA InitTypes == Init => TInv
<1> SUFFICES ASSUME Init PROVE TInv
  OBVIOUS
<1>1. slot \in Slot /\ cntlr \in MmcCntlr /\ ~cntlr.detecting
  <2>1. slot \in Slot
    <3>1. 0 \in 0..MaxChanges /\ 0 \in 0..MaxClaims
      OBVIOUS
    <3>2. \A a \in 0..MaxChanges, b \in 0..MaxClaims :
             [plugged : BOOLEAN, irq : BOOLEAN, changes : {a}, claims : {b}, asked : BOOLEAN] \subseteq Slot
      BY DEF Slot
    <3>3. slot \in [plugged : BOOLEAN, irq : BOOLEAN, changes : {0}, claims : {0}, asked : BOOLEAN]
      BY DEF Init
    <3> QED BY <3>1, <3>2, <3>3
  <2>2. cntlr \in MmcCntlr
    BY DEF Init, MmcCntlr
  <2>3. ~cntlr.detecting
    BY DEF Init
  <2> QED BY <2>1, <2>2, <2>3
<1>2. NoCard \in MmcDevice /\ NoMessage \in MmcMsg
  BY NoCardIs, NoMessageIs
<1>3. TypeOK
  BY <1>1, <1>2, EmptySeq DEF Init, TypeOK, WorkerLabels, UserLabels
<1>4. Tried /\ Held
  BY <1>1 DEF Init, Tried, Held
<1> QED BY <1>3, <1>4 DEF TInv

LEMMA TypesInductive == TInv /\ [Next]_vars => TInv'
<1> SUFFICES ASSUME TInv, [Next]_vars PROVE TInv'
  OBVIOUS
<1>1. ASSUME NEW m \in Messages, AddDetectMsg(m) \/ AddPlugMsg(m) PROVE TInv'
  BY <1>1, AddDetectMsgTypes, AddPlugMsgTypes
<1>2. CASE WorkerStep
  BY <1>2, TakeMsgTypes, ExecRequestTypes, RescanHandleTypes, PlugTypes, DeleteDevTypes, FreeDevTypes,
     SystemInitTypes, LockForDetectTypes, DetectSucceedsTypes, BlockInitFailsTypes, DetectFailsTypes,
     RetryTypes, AllocDevTypes, HandledTypes, PostDoneTypes DEF WorkerStep
<1>3. ASSUME NEW u \in Users, UserStep(u) PROVE TInv'
  BY <1>3, WaitEndsTypes, ClaimHostTypes, ReleaseHostTypes, DevicePutTypes DEF UserStep
<1>4. ASSUME NEW u \in Users, NEW m \in Messages, Request(u, m) \/ Rescan(u, m) PROVE TInv'
  BY <1>4, SendTypes DEF Request, Rescan
<1>5. ASSUME NEW u \in Users, NEW call \in {"use", "claim", "release"}, GetDevice(u, call) PROVE TInv'
  BY <1>5, GetDeviceTypes
<1>6. CASE UNCHANGED vars
  BY <1>6 DEF vars, TInv, TypeOK, Tried, Held
<1> QED BY <1>1, <1>2, <1>3, <1>4, <1>5, <1>6, SlotChangesTypes DEF Next

(* Whatever the threads do, the state of the controller is well formed: a   *)
(* message's code takes the worker to a step it has, and no more than       *)
(* Retries detections are tried for a message.                              *)
THEOREM TypeCorrect == Spec => []TypeOK
<1>1. TInv => TypeOK
  BY DEF TInv
<1> QED BY <1>1, InitTypes, TypesInductive, PTL DEF Spec

-----------------------------------------------------------------------------
(* The card and those who use it.                                           *)
LEMMA CallersCounted ==
    ASSUME NEW c
    PROVE  /\ IsFiniteSet(CallersOn(c)) /\ Cardinality(CallersOn(c)) \in Nat
           /\ Cardinality(CallersOn(c)) = 0 <=> CallersOn(c) = {}
<1>1. CallersOn(c) \in SUBSET Users
  BY DEF CallersOn
<1>2. IsFiniteSet(CallersOn(c))
  BY <1>1, FS_Subset
<1> QED BY <1>2, FS_CardinalityType, FS_EmptySet

\* A step that leaves the card alone.
LEMMA CardKept ==
    ASSUME TInv, CInv, card' = card, cntlr'.curDev = cntlr.curDev, cntlr'.type = cntlr.type,
           \/ pc'[Worker] = pc[Worker]
           \/ /\ pc[Worker] \notin {"detect", "deleting"} /\ pc'[Worker] \notin {"detect", "deleting"}
              /\ pc'[Worker] \in {"init", "lock", "alloc", "failed"} => CurDev = None,
           \A u \in Users : /\ pc'[u] \in InCall <=> pc[u] \in InCall
                            /\ pc[u] \in InCall => hand'[u] = hand[u]
    PROVE  CInv'
<1>1. CurDev' = CurDev /\ DeviceUnits' = DeviceUnits /\ InCall' = InCall
  BY DEF CurDev, DeviceUnits, HasBlock, InCall
<1>2. OneCard'
  BY <1>1 DEF CInv, OneCard
<1>3. OnCurDev'
  <2>1. pc'[Worker] = "detect" <=> pc[Worker] = "detect"
    OBVIOUS
  <2> QED BY <1>1, <2>1 DEF CInv, OnCurDev
<1>4. CallersOn(CurDev)' = CallersOn(CurDev)
  BY <1>1 DEF CallersOn
<1>5. Counted'
  BY <1>1, <1>4 DEF CInv, Counted
<1> QED BY <1>2, <1>3, <1>5 DEF CInv

LEMMA DeleteDevCard == ASSUME TInv, CInv, DeleteDev PROVE CInv'
<1>1. pc[Worker] = "UNPLUG"
  BY DEF DeleteDev
<1>2. CASE CurDev = None \/ ~card[CurDev].present
  <2>1. CurDev = None
    BY <1>1, <1>2 DEF CInv, OneCard
  <2>2. Goto(Worker, AfterDelete) /\ AfterDelete \in {"handled", "init"} /\ UNCHANGED <<cntlr, card, hand>>
    BY <1>2 DEF DeleteDev, AfterDelete
  <2>3. pc'[Worker] \in {"handled", "init"} /\ \A u \in Users : pc'[u] = pc[u]
    BY <2>2, WorkerGoes DEF TInv, WorkerLabels
  <2> QED BY <1>1, <2>1, <2>2, <2>3, CardKept
<1>3. CASE ~(CurDev = None \/ ~card[CurDev].present)
  <2>1. /\ cntlr' = [cntlr EXCEPT !.mutex = Worker] /\ card' = [card EXCEPT ![CurDev] = Removed(@)]
        /\ Goto(Worker, "deleting") /\ UNCHANGED hand
    BY <1>3 DEF DeleteDev
  <2>2. CurDev' = CurDev /\ DeviceUnits' = DeviceUnits /\ CurDev \in Cards
    BY <1>3, <2>1 DEF TInv, TypeOK, MmcCntlr, CurDev, DeviceUnits, HasBlock
  <2>3. pc'[Worker] = "deleting" /\ \A u \in Users : pc'[u] = pc[u]
    BY <2>1, WorkerGoes DEF TInv, WorkerLabels
  <2> DEFINE old == card[CurDev]
             new == card'[CurDev]
  <2>4. old \in MmcDevice /\ old.present /\ old.memory
    BY <1>3, <2>2 DEF TInv, TypeOK, CInv, OneCard
  <2>5. new = Removed(old) /\ \A c \in Cards \ {CurDev} : card'[c] = card[c]
    BY <2>1, <2>2 DEF TInv, TypeOK
  <2>6. OneCard'
    BY <1>3, <2>2, <2>3, <2>4, <2>5, RemovedIs DEF CInv, OneCard
  <2>7. OnCurDev'
    BY <2>1, <2>2, <2>3 DEF CInv, OnCurDev
  <2>8. CallersOn(CurDev)' = CallersOn(CurDev)
    BY <2>1, <2>2, <2>3 DEF CallersOn
  <2>9. Counted'
    <3> DEFINE n == Cardinality(CallersOn(CurDev))
    <3>1. old.dev.refs = n + DeviceUnits /\ old.dev.released = IF old.dev.refs = 0 THEN 1 ELSE 0
      BY <1>1, <1>3, <2>4 DEF CInv, Counted
    <3>2. n \in Nat /\ DeviceUnits \in {1, 2}
      BY CallersCounted DEF DeviceUnits
    <3>3. /\ ~new.present /\ new.dev.refs = old.dev.refs - DeviceUnits
          /\ old.dev.refs >= DeviceUnits =>
               new.dev.released = IF old.dev.refs = DeviceUnits THEN old.dev.released + 1 ELSE old.dev.released
      BY <2>4, <2>5, RemovedIs
    <3> HIDE DEF n, old, new
    <3>4. new.dev.refs = n /\ new.dev.released = IF new.dev.refs = 0 THEN 1 ELSE 0
      BY <3>1, <3>2, <3>3
    <3> QED BY <2>2, <2>8, <3>2, <3>3, <3>4 DEF Counted, n, new
  <2> QED BY <2>6, <2>7, <2>9 DEF CInv
<1> QED BY <1>2, <1>3

\* Nobody uses a card whose semaphore is posted, or one that is being found.
LEMMA NobodyCalls ==
    ASSUME TInv, CInv,
           pc[Worker] = "detect" \/ CurDev = None \/ (pc[Worker] = "deleting" /\ MayEnd(card[CurDev].dev))
    PROVE  \A u \in Users : pc[u] \notin InCall
<1>1. CASE pc[Worker] = "detect" \/ CurDev = None
  BY <1>1 DEF CInv, OnCurDev
<1>2. CASE pc[Worker] = "deleting" /\ CurDev # None /\ MayEnd(card[CurDev].dev)
  <2> DEFINE o == card[CurDev].dev
             n == Cardinality(CallersOn(CurDev))
  <2>1. o.refs = n /\ o.released = IF o.refs = 0 THEN 1 ELSE 0
    <3>1. ~card[CurDev].present
      BY <1>2 DEF CInv, OneCard
    <3>2. n \in Nat
      BY CallersCounted
    <3> QED BY <1>2, <3>1, <3>2 DEF CInv, Counted
  <2>2. o.released > 0
    BY <1>2 DEF MayEnd
  <2>3. n = 0
    <3> HIDE DEF o, n
    <3> QED BY <2>1, <2>2
  <2>4. CallersOn(CurDev) = {}
    BY <2>3, CallersCounted
  <2> QED BY <2>4 DEF CallersOn, CInv, OnCurDev
<1> QED BY <1>1, <1>2

\* A step of the worker after which there is no card.
LEMMA CardGone ==
    ASSUME TInv, CInv, CurDev # None, card' = [card EXCEPT ![CurDev] = NoCard], cntlr'.curDev = None,
           pc'[Worker] \notin {"detect", "deleting"},
           \A u \in Users : pc'[u] \notin InCall
    PROVE  CInv'
<1>1. CurDev' = None /\ CurDev \in Cards
  BY DEF CurDev, TInv, TypeOK, MmcCntlr
<1>2. \A c \in Cards : ~card'[c].present
  <2>1. card'[CurDev] = NoCard /\ \A c \in Cards \ {CurDev} : card'[c] = card[c]
    BY <1>1 DEF TInv, TypeOK
  <2> QED BY <2>1, NoCardIs DEF CInv, OneCard
<1>3. OneCard'
  BY <1>1, <1>2 DEF OneCard
<1>4. OnCurDev' /\ Counted'
  BY <1>1 DEF OnCurDev, Counted, InCall
<1> QED BY <1>3, <1>4 DEF CInv

LEMMA FreeDevCard == ASSUME TInv, CInv, FreeDev PROVE CInv'
<1>1. /\ pc[Worker] = "deleting" /\ MayEnd(card[CurDev].dev)
      /\ card' = [card EXCEPT ![CurDev] = NoCard]
      /\ \E label \in {"failed", "handled", "init"} : Goto(Worker, label)
  BY DEF FreeDev, AfterDelete
<1>2. pc'[Worker] \in {"failed", "handled", "init"} /\ \A u \in Users : pc'[u] = pc[u]
  BY <1>1, WorkerGoes DEF TInv, WorkerLabels
<1>3. cntlr'.curDev = None
  BY DEF FreeDev, TInv, TypeOK, MmcCntlr
<1>4. CurDev # None
  BY <1>1 DEF CInv, OneCard
<1> QED BY <1>1, <1>2, <1>3, <1>4, NobodyCalls, CardGone

LEMMA DetectFailsCard == ASSUME TInv, CInv, DetectFails PROVE CInv'
<1>1. pc[Worker] = "detect" /\ Goto(Worker, "failed") /\ card' = [card EXCEPT ![CurDev] = NoCard]
  BY DEF DetectFails
<1>2. pc'[Worker] = "failed" /\ \A u \in Users : pc'[u] = pc[u]
  BY <1>1, WorkerGoes DEF TInv, WorkerLabels
<1>3. cntlr'.curDev = None
  BY DEF DetectFails, TInv, TypeOK, MmcCntlr
<1>4. CurDev # None
  BY <1>1 DEF CInv, OneCard
<1> QED BY <1>1, <1>2, <1>3, <1>4, NobodyCalls, CardGone

LEMMA AllocDevCard == ASSUME TInv, CInv, NEW c \in Cards, AllocDev(c) PROVE CInv'
<1>1. pc[Worker] = "alloc" /\ Goto(Worker, "detect") /\ card' = [card EXCEPT ![c].memory = TRUE]
  BY DEF AllocDev
<1>2. pc'[Worker] = "detect" /\ \A u \in Users : pc'[u] = pc[u]
  BY <1>1, WorkerGoes DEF TInv, WorkerLabels
<1>3. CurDev = None /\ CurDev' = c /\ c # None
  BY <1>1 DEF AllocDev, CInv, OneCard, CurDev, TInv, TypeOK, MmcCntlr
<1>4. card'[c].memory /\ \A d \in Cards : card'[d].present = card[d].present
  BY <1>1 DEF TInv, TypeOK, MmcDevice
<1>5. \A d \in Cards : ~card[d].present
  BY <1>3 DEF CInv, OneCard
<1>6. OneCard'
  BY <1>2, <1>3, <1>4, <1>5 DEF OneCard
<1>7. OnCurDev' /\ Counted'
  BY <1>2, <1>3, NobodyCalls DEF OnCurDev, Counted, InCall
<1> QED BY <1>6, <1>7 DEF CInv

LEMMA DetectSucceedsCard == ASSUME TInv, CInv, DetectSucceeds PROVE CInv'
<1>1. pc[Worker] = "detect" /\ Goto(Worker, "handled") /\ card' = [card EXCEPT ![CurDev] = Added(@)]
  BY DEF DetectSucceeds
<1>2. pc'[Worker] = "handled" /\ \A u \in Users : pc'[u] = pc[u]
  BY <1>1, WorkerGoes DEF TInv, WorkerLabels
<1>3. CurDev' = CurDev /\ DeviceUnits' = DeviceUnits
  BY DEF DetectSucceeds, Finished, CurDev, DeviceUnits, HasBlock, TInv, TypeOK, MmcCntlr
<1>4. CurDev # None /\ CurDev \in Cards
  BY <1>1 DEF CInv, OneCard, CurDev, TInv, TypeOK, MmcCntlr
<1>5. \A u \in Users : pc'[u] \notin InCall
  BY <1>1, <1>2, NobodyCalls
<1>6. card'[CurDev] = Added(card[CurDev]) /\ \A c \in Cards \ {CurDev} : card'[c] = card[c]
  BY <1>1, <1>4 DEF TInv, TypeOK
<1>7. /\ card'[CurDev].memory /\ card'[CurDev].present
      /\ card'[CurDev].dev.refs = DeviceUnits /\ card'[CurDev].dev.released = 0
  BY <1>4, <1>6, AddedIs DEF CInv, OneCard, TInv, TypeOK
<1>8. OneCard'
  BY <1>2, <1>3, <1>4, <1>6, <1>7 DEF CInv, OneCard
<1>9. CallersOn(CurDev)' = {} /\ Cardinality({}) = 0
  BY <1>5, FS_EmptySet DEF CallersOn, InCall
<1>10. Counted'
  <2>1. DeviceUnits \in {1, 2}
    BY DEF DeviceUnits
  <2> QED BY <1>3, <1>7, <1>9, <2>1 DEF Counted
<1>11. OnCurDev'
  BY <1>5 DEF OnCurDev, InCall
<1> QED BY <1>8, <1>10, <1>11 DEF CInv

LEMMA BlockInitFailsCard == ASSUME TInv, CInv, BlockInitFails PROVE CInv'
<1>1. /\ pc[Worker] = "detect" /\ Goto(Worker, "deleting") /\ UNCHANGED cntlr
      /\ card' = [card EXCEPT ![CurDev].dev = PutBack(Got(Inited))]
  BY DEF BlockInitFails
<1>2. pc'[Worker] = "deleting" /\ \A u \in Users : pc'[u] = pc[u]
  BY <1>1, WorkerGoes DEF TInv, WorkerLabels
<1>3. CurDev' = CurDev
  BY <1>1 DEF CurDev
<1>4. CurDev # None /\ CurDev \in Cards
  BY <1>1 DEF CInv, OneCard, CurDev, TInv, TypeOK, MmcCntlr
<1>5. \A u \in Users : pc'[u] \notin InCall
  BY <1>1, <1>2, NobodyCalls
<1>6. /\ card'[CurDev].dev = PutBack(Got(Inited)) /\ \A c \in Cards \ {CurDev} : card'[c] = card[c]
      /\ card'[CurDev].memory = card[CurDev].memory /\ card'[CurDev].present = card[CurDev].present
  BY <1>1, <1>4 DEF TInv, TypeOK, MmcDevice
<1>7. PutBack(Got(Inited)).refs = 0 /\ PutBack(Got(Inited)).released = 1
  BY InitedIs, GotIs, PutIs
<1>8. OneCard'
  BY <1>1, <1>2, <1>3, <1>4, <1>6 DEF CInv, OneCard
<1>9. CallersOn(CurDev)' = {} /\ Cardinality({}) = 0
  BY <1>5, FS_EmptySet DEF CallersOn, InCall
<1>10. Counted'
  <2>1. ~card'[CurDev].present
    BY <1>1, <1>4, <1>6 DEF CInv, OneCard
  <2> QED BY <1>3, <1>6, <1>7, <1>9, <2>1 DEF Counted
<1>11. OnCurDev'
  BY <1>5 DEF OnCurDev, InCall
<1> QED BY <1>8, <1>10, <1>11 DEF CInv

LEMMA GetDeviceCard ==
    ASSUME TInv, CInv, NEW u \in Users, NEW call \in {"use", "claim", "release"}, GetDevice(u, call)
    PROVE  CInv'
<1>1. /\ pc[u] = "idle" /\ CurDev # None /\ card[CurDev].present /\ UNCHANGED cntlr
      /\ hand' = [hand EXCEPT ![u] = CurDev] /\ card' = [card EXCEPT ![CurDev].dev = Got(@)] /\ Goto(u, call)
  BY DEF GetDevice
<1>2. CurDev' = CurDev /\ DeviceUnits' = DeviceUnits /\ CurDev \in Cards
  BY <1>1 DEF CurDev, DeviceUnits, HasBlock, TInv, TypeOK, MmcCntlr
<1>3. /\ pc'[u] = call /\ pc'[Worker] = pc[Worker] /\ \A v \in Users \ {u} : pc'[v] = pc[v]
  BY <1>1, UserGoes DEF TInv, UserLabels, InCall
<1>4. /\ hand'[u] = CurDev /\ \A v \in Users \ {u} : hand'[v] = hand[v]
  BY <1>1 DEF TInv, TypeOK
<1>5. card[CurDev].dev \in PlatformObjects
  BY <1>2 DEF TInv, TypeOK, MmcDevice
<1>6. /\ card'[CurDev].dev = Got(card[CurDev].dev) /\ \A c \in Cards \ {CurDev} : card'[c] = card[c]
      /\ card'[CurDev].memory = card[CurDev].memory /\ card'[CurDev].present = card[CurDev].present
  <2>1. card \in [Cards -> MmcDevice] /\ card[CurDev] \in MmcDevice /\ CurDev \in Cards
    BY <1>2 DEF TInv, TypeOK
  <2>2. card'[CurDev] = [card[CurDev] EXCEPT !.dev = Got(card[CurDev].dev)]
    BY <1>1, <2>1
  <2>3. \A c \in Cards \ {CurDev} : card'[c] = card[c]
    BY <1>1, <2>1
  <2> QED BY <2>1, <2>2, <2>3 DEF MmcDevice
<1>7. OneCard'
  BY <1>2, <1>3, <1>6 DEF CInv, OneCard
<1>8. pc[Worker] # "detect"
  BY <1>1 DEF CInv, OneCard
<1>9. OnCurDev'
  BY <1>1, <1>2, <1>3, <1>4, <1>8 DEF CInv, OnCurDev, InCall
<1>10. Counted'
  <2> DEFINE n == Cardinality(CallersOn(CurDev))
             o == card[CurDev].dev
  <2>1. CallersOn(CurDev)' = CallersOn(CurDev) \cup {u} /\ u \notin CallersOn(CurDev)
    BY <1>1, <1>2, <1>3, <1>4 DEF CallersOn, InCall
  <2>2. Cardinality(CallersOn(CurDev))' = n + 1 /\ n \in Nat
    BY <2>1, CallersCounted, FS_AddElement
  <2>3. o.refs = n + DeviceUnits /\ o.released = IF o.refs = 0 THEN 1 ELSE 0
    BY <1>1, <1>8 DEF CInv, Counted
  <2>4. card'[CurDev].dev.refs = o.refs + 1 /\ card'[CurDev].dev.released = o.released
    BY <1>5, <1>6, GotIs
  <2>5. DeviceUnits \in {1, 2}
    BY DEF DeviceUnits
  <2>6. card'[CurDev].dev.refs = n + 1 + DeviceUnits /\ card'[CurDev].dev.released = 0 /\ n + 1 + DeviceUnits > 0
    <3> HIDE DEF n, o
    <3> QED BY <2>2, <2>3, <2>4, <2>5
  <2> QED BY <1>1, <1>2, <1>6, <2>2, <2>5, <2>6 DEF Counted
<1> QED BY <1>7, <1>9, <1>10 DEF CInv

LEMMA DevicePutCard == ASSUME TInv, CInv, NEW u \in Users, DevicePut(u) PROVE CInv'
<1>1. /\ pc[u] = "use" /\ UNCHANGED cntlr
      /\ hand' = [hand EXCEPT ![u] = None] /\ card' = [card EXCEPT ![hand[u]].dev = PutBack(@)] /\ Goto(u, "idle")
  BY DEF DevicePut
<1>2. hand[u] = CurDev /\ CurDev # None /\ pc[Worker] # "detect"
  BY <1>1 DEF CInv, OnCurDev, InCall
<1>3. CurDev' = CurDev /\ DeviceUnits' = DeviceUnits /\ CurDev \in Cards
  BY <1>1, <1>2 DEF CurDev, DeviceUnits, HasBlock, TInv, TypeOK, MmcCntlr
<1>4. /\ pc'[u] = "idle" /\ pc'[Worker] = pc[Worker] /\ \A v \in Users \ {u} : pc'[v] = pc[v]
  BY <1>1, UserGoes DEF TInv, UserLabels
<1>5. \A v \in Users \ {u} : hand'[v] = hand[v]
  BY <1>1 DEF TInv, TypeOK
<1>6. card[CurDev].dev \in PlatformObjects
  BY <1>3 DEF TInv, TypeOK, MmcDevice
<1>7. /\ card'[CurDev].dev = PutBack(card[CurDev].dev) /\ \A c \in Cards \ {CurDev} : card'[c] = card[c]
      /\ card'[CurDev].memory = card[CurDev].memory /\ card'[CurDev].present = card[CurDev].present
  BY <1>1, <1>2, <1>3 DEF TInv, TypeOK, MmcDevice
<1>8. OneCard'
  BY <1>3, <1>4, <1>7 DEF CInv, OneCard
<1>9. OnCurDev'
  BY <1>3, <1>4, <1>5 DEF CInv, OnCurDev, InCall
<1>10. Counted'
  <2> DEFINE n     == Cardinality(CallersOn(CurDev))
             o     == card[CurDev].dev
             units == IF card[CurDev].present THEN DeviceUnits ELSE 0
  <2>1. CallersOn(CurDev)' = CallersOn(CurDev) \ {u} /\ u \in CallersOn(CurDev)
    BY <1>1, <1>2, <1>3, <1>4, <1>5 DEF CallersOn, InCall
  <2>2. Cardinality(CallersOn(CurDev))' = n - 1 /\ n \in Nat /\ n # 0
    <3>1. PICK S : S = CallersOn(CurDev)
      OBVIOUS
    <3>2. IsFiniteSet(S) /\ Cardinality(S) \in Nat /\ (Cardinality(S) = 0 <=> S = {}) /\ u \in S
      BY <2>1, <3>1, CallersCounted
    <3>3. Cardinality(S \ {u}) = Cardinality(S) - 1
      BY ONLY <3>2, FS_RemoveElement
    <3> QED BY <2>1, <3>1, <3>2, <3>3
  <2>3. o.refs = n + units /\ o.released = IF o.refs = 0 THEN 1 ELSE 0
    BY <1>2 DEF CInv, Counted
  <2>4. /\ card'[CurDev].dev.refs = o.refs - 1
        /\ card'[CurDev].dev.released = IF o.refs = 1 THEN o.released + 1 ELSE o.released
    BY <1>6, <1>7, PutIs
  <2>5. units \in {0, 1, 2}
    BY DEF DeviceUnits
  <2>6. /\ card'[CurDev].dev.refs = n - 1 + units
        /\ card'[CurDev].dev.released = IF card'[CurDev].dev.refs = 0 THEN 1 ELSE 0
    <3> HIDE DEF n, o, units
    <3> QED BY <2>2, <2>3, <2>4, <2>5
  <2> QED BY <1>3, <1>7, <2>2, <2>6 DEF Counted
<1> QED BY <1>8, <1>9, <1>10 DEF CInv

\* The steps of the worker that find or remove no card.
LEMMA WorkerCardKept ==
    ASSUME TInv, CInv,
           \/ TakeMsg \/ ExecRequest \/ RescanHandle \/ Plug \/ SystemInit \/ LockForDetect \/ Retry
           \/ Handled \/ PostDone
    PROVE  CInv'
<1>1. /\ card' = card /\ cntlr'.curDev = cntlr.curDev /\ cntlr'.type = cntlr.type
      /\ \A u \in Users : hand'[u] = hand[u]
  BY DEF TInv, TypeOK, MmcCntlr, TakeMsg, ExecRequest, RescanHandle, Plug, SystemInit, LockForDetect, Retry,
         Finished, Handled, PostDone
<1>2. /\ pc[Worker] \notin {"detect", "deleting"} /\ pc'[Worker] \notin {"detect", "deleting"}
      /\ pc'[Worker] \in {"init", "lock", "alloc", "failed"} => CurDev = None
      /\ \A u \in Users : pc'[u] = pc[u]
  <2>1. CASE TakeMsg
    <3>1. Head(queue) \in Messages
      BY <2>1, HeadTailProperties DEF TInv, TypeOK, TakeMsg
    <3>2. message[Head(queue)].code \in {"REQUEST", "RESCAN", "PLUG", "UNPLUG", "NONE"}
      BY <3>1 DEF TInv, TypeOK, MmcMsg
    <3> QED BY <2>1, <3>2, WorkerGoes DEF TInv, WorkerLabels, TakeMsg
  <2>2. CASE ExecRequest \/ RescanHandle \/ Handled \/ PostDone
    BY <2>2, WorkerGoes DEF TInv, WorkerLabels, ExecRequest, RescanHandle, Handled, PostDone
  <2>3. CASE Plug
    BY <2>3, WorkerGoes DEF TInv, WorkerLabels, Plug
  <2>4. CASE SystemInit \/ LockForDetect \/ Retry
    BY <2>4, WorkerGoes DEF TInv, WorkerLabels, CInv, OneCard, SystemInit, LockForDetect, Retry
  <2> QED BY <2>1, <2>2, <2>3, <2>4
<1> QED BY <1>1, <1>2, CardKept

LEMMA InitCard == Init => CInv
BY NoCardIs DEF Init, CInv, OneCard, OnCurDev, Counted, CurDev, InCall

LEMMA CardInductive == TInv /\ CInv /\ [Next]_vars => CInv'
<1> SUFFICES ASSUME TInv, CInv, [Next]_vars PROVE CInv'
  OBVIOUS
<1> HIDE DEF TInv, CInv
<1>1. CASE SlotChanges \/ (\E m \in Messages : AddDetectMsg(m) \/ AddPlugMsg(m)) \/ UNCHANGED vars
  <2>1. UNCHANGED <<card, pc, hand>> /\ cntlr'.curDev = cntlr.curDev /\ cntlr'.type = cntlr.type
    BY <1>1 DEF SlotChanges, AddDetectMsg, AddPlugMsg, vars, TInv, TypeOK, MmcCntlr
  <2> QED BY <2>1, CardKept
<1>2. CASE WorkerStep
  BY <1>2, WorkerCardKept, DeleteDevCard, FreeDevCard, AllocDevCard, DetectSucceedsCard, BlockInitFailsCard,
     DetectFailsCard DEF WorkerStep
<1>3. ASSUME NEW u \in Users, UserStep(u) \/ \E m \in Messages : Request(u, m) \/ Rescan(u, m) PROVE CInv'
  <2>1. CASE WaitEnds(u) \/ \E m \in Messages : Request(u, m) \/ Rescan(u, m)
    <3>1. /\ UNCHANGED <<card, cntlr>> /\ pc[u] \in {"wait", "idle"}
          /\ \E label \in {"wait", "idle"} : Goto(u, label)
          /\ \A v \in Users \ {u} : hand'[v] = hand[v]
      BY <2>1 DEF WaitEnds, Request, Rescan, Idle, Send, TInv, TypeOK
    <3>2. /\ pc'[Worker] = pc[Worker] /\ pc'[u] \in {"wait", "idle"} /\ \A v \in Users \ {u} : pc'[v] = pc[v]
      BY <3>1, UserGoes DEF TInv, UserLabels
    <3> QED BY <3>1, <3>2, CardKept DEF InCall
  <2>2. CASE ClaimHost(u) \/ ReleaseHost(u)
    <3>1. /\ UNCHANGED <<card, hand>> /\ cntlr'.curDev = cntlr.curDev /\ cntlr'.type = cntlr.type
          /\ pc[u] \in InCall /\ Goto(u, "use")
      BY <2>2 DEF ClaimHost, ReleaseHost, TInv, TypeOK, MmcCntlr, InCall
    <3>2. /\ pc'[Worker] = pc[Worker] /\ pc'[u] = "use" /\ \A v \in Users \ {u} : pc'[v] = pc[v]
      BY <3>1, UserGoes DEF TInv, UserLabels, InCall
    <3> QED BY <3>1, <3>2, CardKept DEF InCall
  <2> QED BY <1>3, <2>1, <2>2, DevicePutCard DEF UserStep
<1>4. ASSUME NEW u \in Users, NEW call \in {"use", "claim", "release"}, GetDevice(u, call) PROVE CInv'
  BY <1>4, GetDeviceCard
<1> QED BY <1>1, <1>2, <1>3, <1>4 DEF Next

(* The memory of a card (MmcCntlrFreeDev) outlives every call that uses it, *)
(* also when a claim of the host overlaps the removal and when the memory   *)
(* of a message is handed out at once.                                      *)
THEOREM CardOutlives == Spec => []CardOutlivesCalls
<1>1. TInv /\ CInv => CardOutlivesCalls
  BY DEF CInv, OneCard, OnCurDev, CardOutlivesCalls, CallersOn
<1> QED BY <1>1, InitTypes, TypesInductive, InitCard, CardInductive, PTL DEF Spec

(* The reference count of a card that is there, or on its way out, is the   *)
(* number of those who use it: PlatformDeviceUninit ends when they have     *)
(* finished.                                                                *)
THEOREM UsersCounted == Spec => []CountsUsers
<1>1. TInv /\ CInv => CountsUsers
  <2> SUFFICES ASSUME TInv, CInv, NEW c \in Cards,
                      card[c].present \/ (pc[Worker] = "deleting" /\ c = CurDev)
               PROVE  card[c].dev.refs = Cardinality(CallersOn(c)) + (IF card[c].present THEN DeviceUnits ELSE 0)
    BY DEF CountsUsers
  <2>1. c = CurDev /\ CurDev # None /\ pc[Worker] # "detect"
    BY DEF CInv, OneCard
  <2> QED BY <2>1 DEF CInv, Counted
<1> QED BY <1>1, InitTypes, TypesInductive, InitCard, CardInductive, PTL DEF Spec

-----------------------------------------------------------------------------
(* The messages, as long as the memory of one that is freed is not handed   *)
(* out while the worker still reads it.                                     *)

\* The queue, after a message was sent and after one was taken.
LEMMA QueueAppended ==
    ASSUME TypeOK, NEW m \in Messages, queue' = Append(queue, m)
    PROVE  /\ Len(queue) \in Nat /\ Len(queue') = Len(queue) + 1
           /\ \A i \in 1..Len(queue) : queue'[i] = queue[i] /\ queue[i] \in Messages /\ queue[i] \in Range(queue)
           /\ queue'[Len(queue) + 1] = m
           /\ Range(queue') = Range(queue) \cup {m}
           /\ IsInjective(queue) /\ m \notin Range(queue) => IsInjective(queue')
<1>1. /\ Len(queue') = Len(queue) + 1 /\ queue' \in Seq(Messages)
      /\ \A i \in 1..Len(queue) : queue'[i] = queue[i]
      /\ queue'[Len(queue) + 1] = m
  BY AppendProperties DEF TypeOK
<1>2. /\ Len(queue) \in Nat /\ DOMAIN queue = 1..Len(queue) /\ DOMAIN queue' = 1..(Len(queue) + 1)
      /\ \A i \in 1..Len(queue) : queue[i] \in Messages
  BY <1>1, LenProperties, ElementOfSeq DEF TypeOK
<1>3. Range(queue') = Range(queue) \cup {m} /\ \A i \in 1..Len(queue) : queue[i] \in Range(queue)
  BY <1>1, <1>2 DEF Range
<1>4. ASSUME IsInjective(queue), m \notin Range(queue) PROVE IsInjective(queue')
  BY <1>1, <1>2, <1>3, <1>4 DEF IsInjective
<1> QED BY <1>1, <1>2, <1>3, <1>4

LEMMA QueueTaken ==
    ASSUME TypeOK, queue # <<>>, queue' = Tail(queue)
    PROVE  /\ Len(queue) \in Nat \ {0} /\ Len(queue') = Len(queue) - 1 /\ Head(queue) = queue[1]
           /\ \A i \in 1..Len(queue') : queue'[i] = queue[i + 1]
           /\ Head(queue) \in Messages /\ Head(queue) \in Range(queue) /\ Range(queue') \subseteq Range(queue)
           /\ IsInjective(queue) => IsInjective(queue') /\ Head(queue) \notin Range(queue')
<1>1. /\ Tail(queue) \in Seq(Messages) /\ Len(Tail(queue)) = Len(queue) - 1 /\ Head(queue) \in Messages
      /\ \A i \in 1..Len(Tail(queue)) : Tail(queue)[i] = queue[i + 1]
  BY HeadTailProperties DEF TypeOK
<1>2. /\ Len(queue) \in Nat \ {0} /\ DOMAIN queue = 1..Len(queue) /\ DOMAIN queue' = 1..(Len(queue) - 1)
  BY <1>1, LenProperties, EmptySeq DEF TypeOK
<1>3. Head(queue) = queue[1]
  BY DEF TypeOK
<1>4. Head(queue) \in Range(queue) /\ Range(queue') \subseteq Range(queue)
  BY <1>1, <1>2, <1>3 DEF Range
<1>5. ASSUME IsInjective(queue) PROVE IsInjective(queue') /\ Head(queue) \notin Range(queue')
  BY <1>1, <1>2, <1>3, <1>5 DEF IsInjective, Range
<1> QED BY <1>1, <1>2, <1>3, <1>4, <1>5

\* A step that leaves the messages alone.
LEMMA MessagesKept ==
    ASSUME MInv, UNCHANGED <<message, queue>>, hand'[Worker] = hand[Worker],
           \/ pc'[Worker] = pc[Worker]
           \/ pc[Worker] \notin {"idle", "post"} /\ pc'[Worker] \notin {"idle", "post"},
           \A u \in Users : pc'[u] = "wait" => pc[u] = "wait" /\ hand'[u] = hand[u]
    PROVE  MInv'
<1>1. Queued'
  BY DEF MInv, Queued
<1>2. InHand'
  BY DEF MInv, InHand
<1>3. Waiting'
  BY DEF MInv, Waiting
<1> QED BY <1>1, <1>2, <1>3 DEF MInv

\* A step that sends a message, which a user may wait for.
LEMMA MessageSent ==
    ASSUME ~Reuse, TInv, MInv, NEW m \in Messages,
           \E block \in BOOLEAN, code \in {"REQUEST", "RESCAN", "PLUG", "UNPLUG"} : AddMsgToQueue(m, code, block),
           pc'[Worker] = pc[Worker], hand'[Worker] = hand[Worker],
           \A u \in Users : pc'[u] = "wait" =>
               (pc[u] = "wait" /\ hand'[u] = hand[u]) \/ (hand'[u] = m /\ message'[m].block),
           \A u, v \in Users : pc'[u] = "wait" /\ pc'[v] = "wait" /\ hand'[u] = m /\ hand'[v] = m => u = v
    PROVE  MInv'
<1>1. /\ queue' = Append(queue, m)
      /\ message'[m].memory /\ message'[m].code \in {"REQUEST", "RESCAN", "PLUG", "UNPLUG"}
      /\ message'[m].sem = 0 /\ ~message'[m].handled
      /\ \A n \in Messages \ {m} : message'[n] = message[n]
  BY SentMsg DEF TInv
<1>2. ~message[m].memory /\ m # hand[Worker]
  BY SentMsg DEF TInv, FreeMessages
<1>3. m \notin Range(queue) /\ IsInjective(queue) /\ \A n \in Range(queue) : n \in Messages
  BY <1>2 DEF TInv, TypeOK, MInv, Queued, Range
<1>4. Range(queue') = Range(queue) \cup {m} /\ IsInjective(queue')
  BY <1>1, <1>3, QueueAppended DEF TInv
<1>5. Queued'
  BY <1>1, <1>2, <1>3, <1>4 DEF MInv, Queued
<1>6. InHand'
  BY <1>1, <1>2 DEF MInv, InHand
<1>7. Waiting'
  <2>1. \A u \in Users : pc[u] = "wait" => hand[u] \in Messages /\ hand[u] # m
    BY <1>2 DEF TInv, Held, MInv, Waiting
  <2> QED BY <1>1, <2>1 DEF MInv, Waiting
<1> QED BY <1>5, <1>6, <1>7 DEF MInv

LEMMA TakeMsgMessages == ASSUME TInv, MInv, TakeMsg PROVE MInv'
<1> DEFINE m == Head(queue)
<1>1. /\ queue # <<>> /\ queue' = Tail(queue) /\ UNCHANGED message
      /\ hand' = [hand EXCEPT ![Worker] = m] /\ Goto(Worker, message[m].code)
  BY DEF TakeMsg
<1>2. /\ m \in Messages /\ m \in Range(queue) /\ Range(queue') \subseteq Range(queue)
      /\ IsInjective(queue') /\ m \notin Range(queue')
  BY <1>1, QueueTaken DEF TInv, MInv, Queued
<1>3. /\ message[m].memory /\ message[m].sem = 0 /\ ~message[m].handled
      /\ message[m].code \in {"REQUEST", "RESCAN", "PLUG", "UNPLUG"}
  BY <1>2 DEF MInv, Queued, TInv, TypeOK, MmcMsg
<1>4. /\ pc'[Worker] \in {"REQUEST", "RESCAN", "PLUG", "UNPLUG"} /\ \A u \in Users : pc'[u] = pc[u]
  BY <1>1, <1>3, WorkerGoes DEF TInv, WorkerLabels
<1>5. hand'[Worker] = m /\ \A u \in Users : hand'[u] = hand[u]
  BY <1>1 DEF TInv, TypeOK
<1>6. Queued'
  BY <1>1, <1>2, <1>5 DEF MInv, Queued
<1>7. InHand'
  BY <1>1, <1>2, <1>3, <1>4, <1>5 DEF InHand
<1>8. Waiting'
  BY <1>1, <1>4, <1>5 DEF MInv, Waiting
<1> QED BY <1>6, <1>7, <1>8 DEF MInv

LEMMA HandledMessages == ASSUME TInv, MInv, Handled PROVE MInv'
<1> DEFINE h == hand[Worker]
<1>1. pc[Worker] = "handled" /\ Goto(Worker, "post") /\ UNCHANGED <<queue, hand>>
  BY DEF Handled
<1>2. pc'[Worker] = "post" /\ \A u \in Users : pc'[u] = pc[u]
  BY <1>1, WorkerGoes DEF TInv, WorkerLabels
<1>3. h \in Messages /\ message[h].memory /\ message[h].sem = 0
  BY <1>1 DEF MInv, InHand
<1>4. /\ \A m \in Messages \ {h} : message'[m] = message[m]
      /\ IF message[h].block
         THEN message'[h].memory = message[h].memory /\ message'[h].block /\ message'[h].sem = message[h].sem
              /\ message'[h].handled
         ELSE message'[h] = NoMessage
  BY <1>3, HandledIs DEF TInv
<1>5. \A m \in Range(queue) : m \in Messages /\ m # h
  BY DEF TInv, TypeOK, MInv, Queued, Range
<1>6. Queued'
  BY <1>1, <1>4, <1>5 DEF MInv, Queued
<1>7. InHand'
  <2>1. CASE message[h].block
    BY <1>1, <1>2, <1>3, <1>4, <2>1 DEF InHand
  <2>2. CASE ~message[h].block
    BY <1>1, <1>2, <1>3, <1>4, <2>2, NoMessageIs DEF InHand
  <2> QED BY <2>1, <2>2
<1>8. Waiting'
  <2>1. \A u \in Users : pc[u] = "wait" /\ hand[u] = h => message[h].block
    BY DEF MInv, Waiting
  <2>2. \A u \in Users : pc[u] = "wait" => hand[u] \in Messages
    BY DEF TInv, Held
  <2>3. Waiting
    BY DEF MInv
  <2> QED BY <1>1, <1>2, <1>3, <1>4, <2>1, <2>2, <2>3 DEF Waiting
<1> QED BY <1>6, <1>7, <1>8 DEF MInv

LEMMA PostDoneMessages == ASSUME TInv, MInv, PostDone PROVE MInv'
<1> DEFINE h == hand[Worker]
<1>1. pc[Worker] = "post" /\ Goto(Worker, "idle") /\ UNCHANGED queue /\ hand' = [hand EXCEPT ![Worker] = None]
  BY DEF PostDone
<1>2. /\ pc'[Worker] = "idle" /\ \A u \in Users : pc'[u] = pc[u]
      /\ hand'[Worker] = None /\ \A u \in Users : hand'[u] = hand[u]
  BY <1>1, WorkerGoes DEF TInv, TypeOK, WorkerLabels
<1>3. h \in Messages /\ (message[h].block => message[h].handled)
  BY <1>1 DEF MInv, InHand
<1>4. /\ \A m \in Messages \ {h} : message'[m] = message[m]
      /\ message'[h].memory = message[h].memory /\ message'[h].block = message[h].block
      /\ message'[h].handled = message[h].handled
  BY <1>3, PostedIs DEF TInv
<1>5. \A m \in Range(queue) : m \in Messages /\ m # h
  BY DEF TInv, TypeOK, MInv, Queued, Range
<1>6. Queued'
  BY <1>1, <1>2, <1>4, <1>5 DEF MInv, Queued
<1>7. InHand'
  BY <1>2 DEF InHand
<1>8. Waiting'
  <2>1. \A u \in Users : pc[u] = "wait" => hand[u] \in Messages
    BY DEF TInv, Held
  <2> QED BY <1>2, <1>3, <1>4, <2>1 DEF MInv, Waiting
<1> QED BY <1>6, <1>7, <1>8 DEF MInv

LEMMA WaitEndsMessages == ASSUME TInv, MInv, NEW u \in Users, WaitEnds(u) PROVE MInv'
<1> DEFINE m == hand[u]
<1>1. /\ pc[u] = "wait" /\ message[m].sem > 0 /\ UNCHANGED queue /\ Goto(u, "idle")
      /\ message' = [message EXCEPT ![m] = NoMessage] /\ hand' = [hand EXCEPT ![u] = None]
  BY DEF WaitEnds
<1>2. /\ pc'[Worker] = pc[Worker] /\ pc'[u] = "idle" /\ \A v \in Users \ {u} : pc'[v] = pc[v]
      /\ hand'[Worker] = hand[Worker] /\ \A v \in Users \ {u} : hand'[v] = hand[v]
  BY <1>1, UserGoes DEF TInv, TypeOK, UserLabels
<1>3. \A n \in Messages \ {m} : message'[n] = message[n]
  BY <1>1 DEF TInv, TypeOK
<1>4. \A n \in Range(queue) : n \in Messages /\ n # m
  BY <1>1 DEF TInv, TypeOK, MInv, Queued, Range
<1>5. pc[Worker] # "idle" => hand[Worker] \in Messages \ {m}
  BY <1>1 DEF MInv, InHand
<1>6. Queued'
  BY <1>1, <1>2, <1>3, <1>4 DEF MInv, Queued
<1>7. InHand'
  BY <1>2, <1>3, <1>5 DEF MInv, InHand
<1>8. Waiting'
  <2>1. \A v \in Users \ {u} : pc[v] = "wait" => hand[v] \in Messages \ {m}
    BY <1>1 DEF TInv, Held, MInv, Waiting
  <2> QED BY <1>2, <1>3, <2>1 DEF MInv, Waiting
<1> QED BY <1>6, <1>7, <1>8 DEF MInv

\* The steps of the worker between taking a message and having handled it.
WorkerWorks ==
    \/ ExecRequest \/ RescanHandle \/ Plug \/ DeleteDev \/ FreeDev \/ SystemInit \/ LockForDetect
    \/ DetectSucceeds \/ BlockInitFails \/ DetectFails \/ Retry \/ \E c \in Cards : AllocDev(c)

LEMMA WorksIs ==
    ASSUME TInv, WorkerWorks
    PROVE  /\ UNCHANGED <<message, queue, hand>>
           /\ pc[Worker] \notin {"idle", "handled", "post"} /\ pc'[Worker] \notin {"idle", "post"}
           /\ \A u \in Users : pc'[u] = pc[u]
<1>1. ASSUME NEW c \in Cards, AllocDev(c)
      PROVE  UNCHANGED <<message, queue, hand>> /\ pc[Worker] = "alloc" /\ Goto(Worker, "detect")
  BY <1>1 DEF AllocDev
<1>2. /\ UNCHANGED <<message, queue, hand>> /\ pc[Worker] \notin {"idle", "handled", "post"}
      /\ \E label \in WorkerLabels \ {"idle", "post"} : Goto(Worker, label)
  <2>1. CASE ExecRequest \/ RescanHandle \/ Plug \/ SystemInit \/ LockForDetect
    BY <2>1 DEF ExecRequest, RescanHandle, Plug, SystemInit, LockForDetect, WorkerLabels
  <2>2. CASE DeleteDev \/ FreeDev
    BY <2>2 DEF DeleteDev, FreeDev, AfterDelete, WorkerLabels
  <2>3. CASE DetectSucceeds \/ BlockInitFails \/ DetectFails \/ Retry
    BY <2>3 DEF DetectSucceeds, BlockInitFails, DetectFails, Retry, WorkerLabels
  <2> QED BY <1>1, <2>1, <2>2, <2>3 DEF WorkerWorks, WorkerLabels
<1> QED BY <1>2, WorkerGoes DEF TInv

\* A step of a user inside a call, or into one.
LEMMA UserCalls ==
    ASSUME TInv, NEW u \in Users,
           \/ ClaimHost(u) \/ ReleaseHost(u) \/ DevicePut(u)
           \/ \E call \in {"use", "claim", "release"} : GetDevice(u, call)
    PROVE  /\ UNCHANGED <<message, queue>> /\ hand'[Worker] = hand[Worker] /\ pc'[Worker] = pc[Worker]
           /\ pc[u] # "wait" /\ pc'[u] # "wait"
           /\ \A v \in Users \ {u} : pc'[v] = pc[v] /\ hand'[v] = hand[v]
<1>1. /\ UNCHANGED <<message, queue>> /\ hand'[Worker] = hand[Worker] /\ pc[u] # "wait"
      /\ \E label \in UserLabels \ {"wait"} : Goto(u, label)
      /\ \A v \in Users \ {u} : hand'[v] = hand[v]
  <2>1. CASE ClaimHost(u) \/ ReleaseHost(u)
    BY <2>1 DEF ClaimHost, ReleaseHost, UserLabels, InCall
  <2>2. CASE DevicePut(u)
    BY <2>2 DEF DevicePut, UserLabels, InCall, TInv, TypeOK
  <2>3. ASSUME NEW call \in {"use", "claim", "release"}, GetDevice(u, call)
        PROVE  /\ UNCHANGED <<message, queue>> /\ hand'[Worker] = hand[Worker] /\ pc[u] # "wait"
               /\ call \in UserLabels \ {"wait"} /\ Goto(u, call)
               /\ \A v \in Users \ {u} : hand'[v] = hand[v]
    BY <2>3 DEF GetDevice, UserLabels, InCall, TInv, TypeOK
  <2> QED BY <2>1, <2>2, <2>3
<1> QED BY <1>1, UserGoes DEF TInv

LEMMA InitMessages == Init => MInv
<1> SUFFICES ASSUME Init PROVE MInv
  OBVIOUS
<1>1. Queued
  BY EmptySeq DEF Init, Queued, Range, IsInjective
<1>2. InHand /\ Waiting
  BY DEF Init, InHand, Waiting
<1> QED BY <1>1, <1>2 DEF MInv

LEMMA SendMessages ==
    ASSUME ~Reuse, TInv, MInv, NEW u \in Users, NEW m \in Messages, Request(u, m) \/ Rescan(u, m)
    PROVE  MInv'
<1>1. /\ pc[u] = "idle" /\ hand' = [hand EXCEPT ![u] = m] /\ Goto(u, "wait")
      /\ \E code \in {"REQUEST", "RESCAN"} : AddMsgToQueue(m, code, TRUE)
  BY DEF Request, Rescan, Idle, Send
<1>2. /\ pc'[Worker] = pc[Worker] /\ \A v \in Users \ {u} : pc'[v] = pc[v]
      /\ hand'[Worker] = hand[Worker] /\ hand'[u] = m /\ \A v \in Users \ {u} : hand'[v] = hand[v]
  BY <1>1, UserGoes DEF TInv, TypeOK, UserLabels
<1>3. \A v \in Users : pc[v] = "wait" => hand[v] \in Messages /\ hand[v] # m
  <2>1. ~message[m].memory
    <3>1. m \in FreeMessages
      BY <1>1 DEF AddMsgToQueue, IsNext
    <3> QED BY ONLY <3>1 DEF FreeMessages
  <2>2. \A v \in Users : pc[v] = "wait" => hand[v] \in Messages
    BY DEF TInv, Held
  <2>3. \A v \in Users : pc[v] = "wait" => message[hand[v]].memory
    BY DEF MInv, Waiting
  <2> QED BY ONLY <2>1, <2>2, <2>3
<1>4. PICK code \in {"REQUEST", "RESCAN"} : AddMsgToQueue(m, code, TRUE)
  BY <1>1
<1>5. message'[m].block
  BY <1>4, SentMsg DEF TInv
<1>6. \A v \in Users : pc'[v] = "wait" => (pc[v] = "wait" /\ hand'[v] = hand[v]) \/ (hand'[v] = m /\ message'[m].block)
  BY <1>2, <1>5
<1>7. \A v, w \in Users : pc'[v] = "wait" /\ pc'[w] = "wait" /\ hand'[v] = m /\ hand'[w] = m => v = w
  BY <1>2, <1>3
<1>8. \E block \in BOOLEAN, c \in {"REQUEST", "RESCAN", "PLUG", "UNPLUG"} : AddMsgToQueue(m, c, block)
  BY <1>4
<1> QED BY <1>2, <1>6, <1>7, <1>8, MessageSent

LEMMA SlotMessages ==
    ASSUME ~Reuse, TInv, MInv, NEW m \in Messages, AddDetectMsg(m) \/ AddPlugMsg(m)
    PROVE  MInv'
<1>1. /\ UNCHANGED <<pc, hand>>
      /\ \/ UNCHANGED <<queue, message>>
         \/ \E code \in {"PLUG", "UNPLUG"} : AddMsgToQueue(m, code, FALSE)
  BY DEF AddDetectMsg, AddPlugMsg
<1>2. \A v \in Users : pc[v] = "wait" /\ hand[v] = m => message[m].memory
  BY DEF MInv, Waiting
<1>3. CASE \E code \in {"PLUG", "UNPLUG"} : AddMsgToQueue(m, code, FALSE)
  <2>1. ~message[m].memory
    BY <1>3, SentMsg DEF TInv, FreeMessages
  <2>2. PICK code \in {"PLUG", "UNPLUG"} : AddMsgToQueue(m, code, FALSE)
    BY <1>3
  <2>3. \A v \in Users : pc[v] = "wait" => hand[v] # m
    BY <1>2, <2>1
  <2>4. \E block \in BOOLEAN, c \in {"REQUEST", "RESCAN", "PLUG", "UNPLUG"} : AddMsgToQueue(m, c, block)
    BY <2>2
  <2> QED BY <1>1, <2>3, <2>4, MessageSent
<1> QED BY <1>1, <1>3, MessagesKept

LEMMA MessagesInductive ==
    ASSUME ~Reuse
    PROVE  TInv /\ MInv /\ [Next]_vars => MInv'
<1> SUFFICES ASSUME TInv, MInv, [Next]_vars PROVE MInv'
  OBVIOUS
<1>1. CASE SlotChanges \/ UNCHANGED vars
  BY <1>1, MessagesKept DEF SlotChanges, vars
<1>2. ASSUME NEW m \in Messages, AddDetectMsg(m) \/ AddPlugMsg(m) PROVE MInv'
  BY <1>2, SlotMessages
<1>3. CASE WorkerStep
  <2>1. CASE WorkerWorks
    BY <2>1, WorksIs, MessagesKept
  <2> QED BY <1>3, <2>1, TakeMsgMessages, HandledMessages, PostDoneMessages DEF WorkerStep, WorkerWorks
<1>4. ASSUME NEW u \in Users, NEW m \in Messages, Request(u, m) \/ Rescan(u, m) PROVE MInv'
  BY <1>4, SendMessages
<1>5. ASSUME NEW u \in Users,
             \/ ClaimHost(u) \/ ReleaseHost(u) \/ DevicePut(u)
             \/ \E call \in {"use", "claim", "release"} : GetDevice(u, call)
      PROVE  MInv'
  BY <1>5, UserCalls, MessagesKept
<1>6. ASSUME NEW u \in Users, WaitEnds(u) PROVE MInv'
  BY <1>6, WaitEndsMessages
<1> QED BY <1>1, <1>2, <1>3, <1>4, <1>5, <1>6 DEF Next, UserStep

-----------------------------------------------------------------------------
(* The card and the slot.                                                   *)
LEMMA FollowsInductive == TInv /\ Follows /\ [Next]_vars => Follows'
<1> SUFFICES ASSUME TInv, Follows, [Next]_vars PROVE Follows'
  OBVIOUS
<1>1. CASE SlotChanges
  <2>1. slot'.irq
    BY <1>1 DEF SlotChanges, TInv, TypeOK, Slot
  <2> QED BY <2>1 DEF Follows
<1>2. ASSUME NEW m \in Messages, AddDetectMsg(m) PROVE Follows'
  <2>1. slot'.irq = slot.irq /\ slot'.plugged = slot.plugged /\ slot'.asked
    BY <1>2 DEF AddDetectMsg, TInv, TypeOK, Slot
  <2>2. IF slot.plugged THEN cntlr'.devPluged ELSE cntlr' = cntlr
    BY <1>2 DEF AddDetectMsg, TInv, TypeOK, MmcCntlr
  <2>3. slot.plugged \in BOOLEAN /\ cntlr'.devPluged \in BOOLEAN
    BY <1>2, AddDetectMsgTypes DEF TInv, TypeOK, Slot, MmcCntlr
  <2> QED BY <2>1, <2>2, <2>3 DEF Follows
<1>3. ASSUME NEW m \in Messages, AddPlugMsg(m) PROVE Follows'
  <2>1. slot'.plugged = slot.plugged
    BY <1>3 DEF AddPlugMsg, TInv, TypeOK, Slot
  <2>2. cntlr'.devPluged = slot.plugged
    BY <1>3 DEF AddPlugMsg, TInv, TypeOK, MmcCntlr
  <2> QED BY <2>1, <2>2 DEF Follows
<1>4. CASE WorkerStep \/ UNCHANGED vars
  <2>1. slot' = slot
    BY <1>4 DEF WorkerStep, TakeMsg, ExecRequest, RescanHandle, Plug, DeleteDev, FreeDev, SystemInit, LockForDetect,
                DetectSucceeds, BlockInitFails, DetectFails, Retry, AllocDev, Handled, PostDone, vars
  <2>2. cntlr'.devPluged = cntlr.devPluged
    BY <1>4 DEF WorkerStep, TakeMsg, ExecRequest, RescanHandle, Plug, DeleteDev, FreeDev, SystemInit, LockForDetect,
                DetectSucceeds, BlockInitFails, DetectFails, Retry, AllocDev, Handled, PostDone, vars, Finished,
                TInv, TypeOK, MmcCntlr
  <2> QED BY <2>1, <2>2 DEF Follows
<1>5. ASSUME NEW u \in Users, UserStep(u) \/ \E m \in Messages : Request(u, m) \/ Rescan(u, m) PROVE Follows'
  <2>1. slot' = slot /\ cntlr'.devPluged = cntlr.devPluged
    BY <1>5 DEF UserStep, WaitEnds, ClaimHost, ReleaseHost, DevicePut, Request, Rescan, Send, TInv, TypeOK, MmcCntlr
  <2> QED BY <2>1 DEF Follows
<1>6. ASSUME NEW u \in Users, NEW call \in {"use", "claim", "release"}, GetDevice(u, call) PROVE Follows'
  <2>1. cntlr' = cntlr /\ slot'.irq = slot.irq /\ slot'.plugged = slot.plugged /\ slot'.asked = slot.asked
    BY <1>6 DEF GetDevice, TInv, TypeOK, Slot
  <2> QED BY <2>1 DEF Follows
<1> QED BY <1>1, <1>2, <1>3, <1>4, <1>5, <1>6 DEF Next

\* A step after which the queue holds what it held.
LEMMA KindsKept ==
    ASSUME TypeOK, queue' = queue, \A m \in Range(queue) : message'[m].code = message[m].code
    PROVE  (UnplugQueued' <=> UnplugQueued) /\ (PlugsFollowed' <=> PlugsFollowed)
<1>1. Len(queue) \in Nat /\ \A i \in 1..Len(queue) : queue[i] \in Range(queue)
  BY LenProperties DEF TypeOK, Range
<1>2. \A i \in 1..Len(queue) : Kind(i)' = Kind(i)
  BY <1>1 DEF Kind
<1> QED BY <1>1, <1>2 DEF UnplugQueued, PlugsFollowed

\* A step after which a message is behind the others.
LEMMA KindsAppended ==
    ASSUME TInv, MInv, NEW m \in Messages, NEW code \in {"REQUEST", "PLUG", "UNPLUG"}, NEW block \in BOOLEAN,
           AddMsgToQueue(m, code, block)
    PROVE  /\ UnplugQueued \/ code = "UNPLUG" => UnplugQueued'
           /\ PlugsFollowed /\ code = "REQUEST" => PlugsFollowed'
           /\ code = "UNPLUG" => PlugsFollowed'
<1>1. /\ queue' = Append(queue, m) /\ ~message[m].memory /\ message'[m].code = code
      /\ \A n \in Messages \ {m} : message'[n] = message[n]
  BY SentMsg DEF TInv, FreeMessages
<1>2. /\ Len(queue) \in Nat /\ Len(queue') = Len(queue) + 1
      /\ \A i \in 1..Len(queue) : queue'[i] = queue[i] /\ queue[i] \in Messages /\ queue[i] \in Range(queue)
      /\ queue'[Len(queue) + 1] = m
  BY <1>1, QueueAppended DEF TInv
<1>3. \A i \in 1..Len(queue) : queue[i] # m
  BY <1>1, <1>2 DEF MInv, Queued
<1>4. /\ \A i \in 1..Len(queue) : message'[queue'[i]].code = message[queue[i]].code
      /\ message'[queue'[Len(queue) + 1]].code = code
  BY <1>1, <1>2, <1>3
<1>5. UnplugQueued \/ code = "UNPLUG" => UnplugQueued'
  BY <1>2, <1>4 DEF UnplugQueued, Kind
<1>6. PlugsFollowed /\ code = "REQUEST" => PlugsFollowed'
  BY <1>2, <1>4 DEF PlugsFollowed, Kind
<1>7. code = "UNPLUG" => PlugsFollowed'
  BY <1>2, <1>4 DEF PlugsFollowed, Kind
<1> QED BY <1>5, <1>6, <1>7

\* A step after which the first message is in the worker's hand.
LEMMA KindsTaken ==
    ASSUME TypeOK, queue # <<>>, queue' = Tail(queue), message' = message
    PROVE  /\ UnplugQueued => UnplugQueued' \/ message[Head(queue)].code = "UNPLUG"
           /\ PlugsFollowed => PlugsFollowed'
           /\ PlugsFollowed /\ message[Head(queue)].code = "PLUG" => UnplugQueued'
<1>1. /\ Len(queue) \in Nat \ {0} /\ Len(queue') = Len(queue) - 1 /\ Head(queue) = queue[1]
      /\ \A i \in 1..Len(queue') : queue'[i] = queue[i + 1]
  BY EmptySeq, HeadTailProperties, LenProperties DEF TypeOK
<1>2. \A i \in 1..Len(queue) : i = 1 \/ (i - 1 \in 1..Len(queue') /\ queue'[i - 1] = queue[i])
  BY <1>1
<1>3. UnplugQueued => UnplugQueued' \/ message[Head(queue)].code = "UNPLUG"
  BY <1>1, <1>2 DEF UnplugQueued, Kind
<1>4. ASSUME PlugsFollowed PROVE PlugsFollowed'
  <2>1. ASSUME NEW i \in 1..Len(queue'), message[queue'[i]].code = "PLUG"
        PROVE  \E j \in i + 1..Len(queue') : message[queue'[j]].code = "UNPLUG"
    <3>1. PICK k \in 1..Len(queue) : k = i + 1 /\ message[queue[k]].code = "PLUG"
      BY <1>1, <2>1
    <3>2. \E j \in k + 1..Len(queue) : message[queue[j]].code = "UNPLUG"
      BY <1>4, <3>1 DEF PlugsFollowed, Kind
    <3>3. PICK j \in i + 2..Len(queue) : message[queue[j]].code = "UNPLUG"
      BY <1>1, <3>1, <3>2
    <3>4. j - 1 \in i + 1..Len(queue') /\ queue'[j - 1] = queue[j]
      BY <1>1, <3>3
    <3> QED BY <3>3, <3>4
  <2>2. \A i : Kind(i)' = message[queue'[i]].code
    BY DEF Kind
  <2> QED BY ONLY <2>1, <2>2 DEF PlugsFollowed
<1>5. ASSUME PlugsFollowed, message[Head(queue)].code = "PLUG" PROVE UnplugQueued'
  <2>1. PICK j \in 2..Len(queue) : message[queue[j]].code = "UNPLUG"
    BY <1>1, <1>5 DEF PlugsFollowed, Kind
  <2> QED BY <1>1, <1>2, <2>1 DEF UnplugQueued, Kind
<1> QED BY <1>3, <1>4, <1>5

\* A step that leaves the worker and what is queued alone.
LEMMA SlotKept ==
    ASSUME TInv, SInv, queue' = queue, \A m \in Range(queue) : message'[m].code = message[m].code,
           \A m \in Messages : message'[m].code \in {message[m].code, "NONE"},
           pc'[Worker] = pc[Worker], pc[Worker] # "idle" => message'[hand'[Worker]].code = Code,
           cntlr'.type = cntlr.type, cntlr'.curDev = CurDev, cntlr'.detecting = cntlr.detecting,
           cntlr'.devPluged = cntlr.devPluged
    PROVE  SInv'
<1> SUFFICES ASSUME cntlr.type # "SDIO" PROVE Does' /\ Leaves'
  BY DEF SInv
<1>1. Does /\ Leaves
  BY DEF SInv
<1>2. Does'
  BY <1>1 DEF Does, Code, Plugging, TInv, Tried
<1>3. (UnplugQueued' <=> UnplugQueued) /\ (PlugsFollowed' <=> PlugsFollowed)
  BY KindsKept DEF TInv
<1>4. (Coming' <=> Coming) /\ (Removing' <=> Removing)
  BY DEF Coming, Removing, Code, CurDev, Plugging
<1> QED BY <1>1, <1>2, <1>3, <1>4 DEF Leaves

LEMMA WaitEndsSlot == ASSUME TInv, MInv, SInv, NEW u \in Users, WaitEnds(u) PROVE SInv'
<1> DEFINE m == hand[u]
<1>1. /\ pc[u] = "wait" /\ message[m].sem > 0 /\ UNCHANGED <<queue, cntlr>> /\ Goto(u, "idle")
      /\ message' = [message EXCEPT ![m] = NoMessage] /\ hand' = [hand EXCEPT ![u] = None]
  BY DEF WaitEnds
<1>2. pc'[Worker] = pc[Worker] /\ hand'[Worker] = hand[Worker]
  BY <1>1, UserGoes DEF TInv, TypeOK, UserLabels
<1>3. m \in Messages /\ message[m].handled
  BY <1>1 DEF TInv, Held, MInv, Waiting
<1>4. message'[m].code = "NONE" /\ \A n \in Messages \ {m} : message'[n] = message[n]
  BY <1>1, <1>3, NoMessageIs DEF TInv, TypeOK
<1>5. \A n \in Range(queue) : n \in Messages /\ n # m
  BY <1>3 DEF TInv, TypeOK, MInv, Queued, Range
<1>6. pc[Worker] # "idle" => hand[Worker] \in Messages \ {m}
  BY <1>1 DEF MInv, InHand
<1> QED BY <1>1, <1>2, <1>4, <1>5, <1>6, SlotKept DEF Code, CurDev

\* A thread that sends: of a removable card, a request only.
LEMMA RequestSlot ==
    ASSUME TInv, MInv, SInv, NEW u \in Users, NEW m \in Messages, Request(u, m) \/ Rescan(u, m)
    PROVE  SInv'
<1> SUFFICES ASSUME cntlr.type # "SDIO" PROVE Does' /\ Leaves'
  BY DEF SInv, Request, Rescan, Send
<1>1. /\ AddMsgToQueue(m, "REQUEST", TRUE) /\ UNCHANGED cntlr /\ hand' = [hand EXCEPT ![u] = m] /\ Goto(u, "wait")
      /\ Does /\ Leaves
  BY DEF SInv, Request, Rescan, Send
<1>2. pc'[Worker] = pc[Worker] /\ hand'[Worker] = hand[Worker]
  BY <1>1, UserGoes DEF TInv, TypeOK, UserLabels
<1>3. /\ ~message[m].memory /\ message'[m].code = "REQUEST"
      /\ \A n \in Messages \ {m} : message'[n] = message[n]
  BY <1>1, SentMsg DEF TInv, FreeMessages
<1>4. (UnplugQueued => UnplugQueued') /\ (PlugsFollowed => PlugsFollowed')
  <2>1. \A block \in BOOLEAN, code \in {"REQUEST", "PLUG", "UNPLUG"} :
            AddMsgToQueue(m, code, block) =>
              /\ UnplugQueued => UnplugQueued'
              /\ PlugsFollowed /\ code = "REQUEST" => PlugsFollowed'
    BY KindsAppended
  <2> QED BY <1>1, <2>1
<1>5. pc[Worker] \notin {"idle", "post"} => hand[Worker] \in Messages \ {m}
  BY <1>3 DEF MInv, InHand
<1>6. pc[Worker] \notin {"idle", "post"} => Code' = Code
  BY <1>2, <1>3, <1>5 DEF Code
<1>7. Does'
  BY <1>1, <1>2, <1>3, <1>6 DEF Does, Plugging, TInv, Tried
<1>8. (Coming' <=> Coming) /\ (Removing' <=> Removing)
  BY <1>1, <1>2, <1>6 DEF Coming, Removing, CurDev, Plugging
<1> QED BY <1>1, <1>4, <1>7, <1>8 DEF Leaves

\* A message of the slot does not change what the worker does.
LEMMA SlotMsgDoes ==
    ASSUME TInv, MInv, Does, NEW m \in Messages, UNCHANGED <<pc, hand>>, cntlr'.detecting = cntlr.detecting,
           AddMsgToQueue(m, "PLUG", FALSE) \/ AddMsgToQueue(m, "UNPLUG", FALSE)
    PROVE  Does'
<1>1. /\ ~message[m].memory /\ message'[m].code \in {"PLUG", "UNPLUG"}
      /\ \A n \in Messages \ {m} : message'[n] = message[n]
  BY SentMsg DEF TInv, FreeMessages
<1>2. pc[Worker] \notin {"idle", "post"} => hand[Worker] \in Messages \ {m}
  BY <1>1 DEF MInv, InHand
<1>3. pc[Worker] \notin {"idle", "post"} => Code' = Code
  BY <1>1, <1>2 DEF Code
<1> QED BY <1>1, <1>3 DEF Does, Plugging, TInv, Tried

LEMMA AddDetectMsgSlot == ASSUME TInv, MInv, SInv, NEW m \in Messages, AddDetectMsg(m) PROVE SInv'
<1>1. CASE slot.plugged
  <2>1. /\ cntlr'.devPluged /\ cntlr'.detecting = cntlr.detecting /\ cntlr'.type = cntlr.type
        /\ UNCHANGED <<pc, hand>> /\ AddMsgToQueue(m, "PLUG", FALSE)
    BY <1>1 DEF AddDetectMsg, TInv, TypeOK, MmcCntlr
  <2> QED BY <2>1, SlotMsgDoes DEF SInv, Leaves
<1>2. CASE ~slot.plugged
  <2>1. UNCHANGED <<cntlr, queue, message, pc, hand>>
    BY <1>2 DEF AddDetectMsg
  <2> QED BY <2>1, SlotKept DEF Code, CurDev
<1> QED BY <1>1, <1>2

LEMMA AddPlugMsgSlot == ASSUME TInv, MInv, SInv, NEW m \in Messages, AddPlugMsg(m) PROVE SInv'
<1>1. /\ cntlr'.devPluged = slot.plugged /\ cntlr'.detecting = cntlr.detecting /\ cntlr'.type = cntlr.type
      /\ cntlr'.curDev = CurDev /\ UNCHANGED <<pc, hand>>
  BY DEF AddPlugMsg, TInv, TypeOK, MmcCntlr, CurDev
<1>2. slot.plugged \in BOOLEAN /\ cntlr.devPluged \in BOOLEAN
  BY DEF TInv, TypeOK, Slot, MmcCntlr
<1>3. CASE slot.plugged = cntlr.devPluged
  <2>1. UNCHANGED <<queue, message>>
    BY <1>3 DEF AddPlugMsg
  <2> QED BY <1>1, <1>3, <2>1, SlotKept DEF Code, CurDev
<1>4. CASE slot.plugged /\ ~cntlr.devPluged
  <2>1. AddMsgToQueue(m, "PLUG", FALSE)
    BY <1>4 DEF AddPlugMsg
  <2> QED BY <1>1, <1>4, <2>1, SlotMsgDoes DEF SInv, Leaves
<1>5. CASE ~slot.plugged /\ cntlr.devPluged
  <2>1. AddMsgToQueue(m, "UNPLUG", FALSE)
    BY <1>5 DEF AddPlugMsg
  <2>2. UnplugQueued' /\ PlugsFollowed'
    <3>1. \A block \in BOOLEAN, code \in {"REQUEST", "PLUG", "UNPLUG"} :
              AddMsgToQueue(m, code, block) /\ code = "UNPLUG" => UnplugQueued' /\ PlugsFollowed'
      BY KindsAppended
    <3> QED BY <2>1, <3>1
  <2> QED BY <1>1, <2>1, <2>2, SlotMsgDoes DEF SInv, Leaves
<1> QED BY <1>2, <1>3, <1>4, <1>5

LEMMA TakeMsgSlot == ASSUME TInv, MInv, SInv, TakeMsg PROVE SInv'
<1> SUFFICES ASSUME cntlr.type # "SDIO" PROVE Does' /\ Leaves'
  BY DEF SInv, TakeMsg
<1> DEFINE m == Head(queue)
<1>1. /\ Does /\ Leaves /\ pc[Worker] = "idle" /\ UNCHANGED <<message, cntlr>>
      /\ queue # <<>> /\ queue' = Tail(queue) /\ hand' = [hand EXCEPT ![Worker] = m] /\ Goto(Worker, message[m].code)
  BY DEF SInv, TakeMsg
<1>2. m \in Messages /\ message[m].code \in {"REQUEST", "PLUG", "UNPLUG", "NONE"}
  <2>1. m \in Messages
    BY <1>1, HeadTailProperties DEF TInv, TypeOK
  <2> QED BY <1>1, <2>1 DEF TInv, TypeOK, MmcMsg, Does
<1>3. pc'[Worker] = message[m].code /\ Code' = message[m].code
  BY <1>1, <1>2, WorkerGoes DEF TInv, TypeOK, WorkerLabels, Code
<1>4. Does'
  BY <1>1, <1>2, <1>3 DEF Does, Plugging, TInv, Tried
<1>5. /\ UnplugQueued => UnplugQueued' \/ message[m].code = "UNPLUG"
      /\ PlugsFollowed => PlugsFollowed'
      /\ PlugsFollowed /\ message[m].code = "PLUG" => UnplugQueued'
  BY <1>1, KindsTaken DEF TInv
<1>6. ~Removing /\ (message[m].code = "UNPLUG" => Removing')
  BY <1>1, <1>3 DEF Removing
<1>7. Coming' => Coming \/ message[m].code = "PLUG"
  BY <1>1, <1>2, <1>3 DEF Coming, CurDev, Plugging
<1> QED BY <1>1, <1>4, <1>5, <1>6, <1>7 DEF Leaves

\* The worker is done with the message in its hand.
LEMMA WorkerDoneSlot == ASSUME TInv, MInv, SInv, Handled \/ PostDone PROVE SInv'
<1> SUFFICES ASSUME cntlr.type # "SDIO" PROVE Does' /\ Leaves'
  BY DEF SInv, Handled, PostDone
<1>1. /\ Does /\ Leaves /\ pc[Worker] \in {"handled", "post"} /\ UNCHANGED <<cntlr, queue>>
      /\ \E label \in {"idle", "post"} : Goto(Worker, label)
  BY DEF SInv, Handled, PostDone
<1>2. pc'[Worker] \in {"idle", "post"}
  BY <1>1, WorkerGoes DEF TInv, WorkerLabels
<1>3. /\ hand[Worker] \in Messages /\ \A m \in Messages \ {hand[Worker]} : message'[m] = message[m]
      /\ message'[hand[Worker]].code \in {message[hand[Worker]].code, "NONE"}
  <2>1. hand[Worker] \in Messages
    BY <1>1 DEF MInv, InHand
  <2> QED BY <2>1, HandledIs, PostedIs, NoMessageIs DEF TInv
<1>4. \A m \in Range(queue) : m \in Messages /\ m # hand[Worker]
  BY DEF TInv, TypeOK, MInv, Queued, Range
<1>5. (UnplugQueued' <=> UnplugQueued) /\ (PlugsFollowed' <=> PlugsFollowed)
  BY <1>1, <1>3, <1>4, KindsKept DEF TInv
<1>6. Does'
  BY <1>1, <1>2, <1>3 DEF Does, Plugging, TInv, Tried
<1>7. ~Removing /\ (Coming' => Coming)
  BY <1>1, <1>2 DEF Removing, Coming, CurDev, Plugging
<1> QED BY <1>1, <1>5, <1>6, <1>7 DEF Leaves

\* A step of the worker between the two.
LEMMA WorkKept ==
    ASSUME TInv, SInv, WorkerWorks, cntlr'.type = cntlr.type, cntlr'.devPluged = cntlr.devPluged,
           cntlr.type # "SDIO" /\ Does => Does' /\ (Coming' => Coming) /\ (Coming' /\ Removing => Removing')
    PROVE  SInv'
<1>1. (UnplugQueued' <=> UnplugQueued) /\ (PlugsFollowed' <=> PlugsFollowed)
  BY WorksIs, KindsKept DEF TInv
<1> QED BY <1>1 DEF SInv, Leaves

\* Of a step that leaves the card alone.
LEMMA StepsSlot ==
    ASSUME TInv, CInv, SInv, ExecRequest \/ RescanHandle \/ Plug \/ SystemInit \/ LockForDetect \/ Retry
    PROVE  SInv'
<1>1. /\ UNCHANGED <<message, queue, hand>> /\ Code' = Code /\ WorkerWorks
  BY WorksIs DEF WorkerWorks, Code
<1>2. /\ cntlr'.type = cntlr.type /\ cntlr'.devPluged = cntlr.devPluged /\ CurDev' = CurDev
      /\ cntlr'.detecting => cntlr.detecting \/ pc[Worker] = "lock"
  BY DEF ExecRequest, RescanHandle, Plug, SystemInit, LockForDetect, Retry, Finished, TInv, TypeOK, MmcCntlr, CurDev
<1>3. /\ pc[Worker] \in {"REQUEST", "RESCAN"} \cup Plugging
      /\ pc[Worker] = "REQUEST" => pc'[Worker] = "handled"
      /\ pc[Worker] \in Plugging => pc'[Worker] \in Plugging \cup {"UNPLUG", "handled"}
  <2>1. /\ pc[Worker] \in {"REQUEST", "RESCAN"} \cup Plugging
        /\ \E label \in WorkerLabels :
              /\ Goto(Worker, label)
              /\ pc[Worker] = "REQUEST" => label = "handled"
              /\ pc[Worker] \in Plugging => label \in Plugging \cup {"UNPLUG", "handled"}
    BY DEF ExecRequest, RescanHandle, Plug, SystemInit, LockForDetect, Retry, WorkerLabels, Plugging
  <2> QED BY <2>1, WorkerGoes DEF TInv
<1>4. ASSUME Does PROVE Does' /\ (Coming' => Coming) /\ ~Removing
  <2>1. CASE pc[Worker] = "REQUEST"
    BY <1>1, <1>2, <1>3, <1>4, <2>1 DEF Does, Plugging, Coming, Removing
  <2>2. CASE pc[Worker] \in Plugging
    BY <1>1, <1>2, <1>3, <1>4, <2>2 DEF Does, Plugging, Coming, Removing
  <2> QED BY <1>3, <1>4, <2>1, <2>2 DEF Does
<1> QED BY <1>1, <1>2, <1>4, WorkKept

\* Of a detection.
LEMMA DetectSlot ==
    ASSUME TInv, CInv, SInv, DetectSucceeds \/ BlockInitFails \/ DetectFails \/ \E c \in Cards : AllocDev(c)
    PROVE  SInv'
<1>1. /\ UNCHANGED <<message, queue, hand>> /\ Code' = Code /\ WorkerWorks
  BY WorksIs DEF WorkerWorks, Code
<1>2. /\ cntlr'.type = cntlr.type /\ cntlr'.devPluged = cntlr.devPluged
      /\ cntlr'.detecting => cntlr.detecting
  BY DEF DetectSucceeds, BlockInitFails, DetectFails, AllocDev, Finished, TInv, TypeOK, MmcCntlr
<1>3. /\ pc[Worker] \in {"alloc", "detect"} /\ pc'[Worker] \in {"detect", "deleting", "failed", "handled"}
  <2>1. /\ pc[Worker] \in {"alloc", "detect"}
        /\ \E label \in {"detect", "deleting", "failed", "handled"} : Goto(Worker, label)
    BY DEF DetectSucceeds, BlockInitFails, DetectFails, AllocDev
  <2> QED BY <2>1, WorkerGoes DEF TInv, WorkerLabels
<1>4. ASSUME Does PROVE Does' /\ Coming /\ ~Removing
  BY <1>1, <1>2, <1>3, <1>4 DEF Does, Plugging, Coming, Removing
<1> QED BY <1>1, <1>2, <1>4, WorkKept

\* Of a removal.
LEMMA RemovalSlot == ASSUME TInv, CInv, SInv, DeleteDev \/ FreeDev PROVE SInv'
<1>1. /\ UNCHANGED <<message, queue, hand>> /\ Code' = Code /\ WorkerWorks
  BY WorksIs DEF WorkerWorks, Code
<1>2. /\ cntlr'.type = cntlr.type /\ cntlr'.devPluged = cntlr.devPluged
      /\ cntlr'.detecting = cntlr.detecting
  BY DEF DeleteDev, FreeDev, TInv, TypeOK, MmcCntlr
<1>3. ASSUME Does, DeleteDev PROVE Does' /\ (Coming' => Coming) /\ (Coming' /\ Removing => Removing')
  <2>1. CASE CurDev = None \/ ~card[CurDev].present
    <3>1. pc[Worker] = "UNPLUG" /\ CurDev = None /\ CurDev' = None /\ Goto(Worker, AfterDelete)
      BY <1>3, <2>1 DEF DeleteDev, CInv, OneCard, CurDev
    <3>2. pc'[Worker] = AfterDelete
      BY <3>1, WorkerGoes DEF TInv, AfterDelete, WorkerLabels
    <3> QED BY <1>1, <1>2, <1>3, <3>1, <3>2 DEF Does, Plugging, Coming, Removing, AfterDelete
  <2>2. CASE ~(CurDev = None \/ ~card[CurDev].present)
    <3>1. pc[Worker] = "UNPLUG" /\ CurDev # None /\ CurDev' = CurDev /\ Goto(Worker, "deleting")
      BY <1>3, <2>2 DEF DeleteDev, CurDev, TInv, TypeOK, MmcCntlr
    <3>2. pc'[Worker] = "deleting"
      BY <3>1, WorkerGoes DEF TInv, WorkerLabels
    <3> QED BY <1>1, <1>2, <1>3, <3>1, <3>2 DEF Does, Plugging, Coming, Removing
  <2> QED BY <2>1, <2>2
<1>4. ASSUME Does, FreeDev PROVE Does' /\ (Coming' => Coming) /\ (Coming' /\ Removing => Removing')
  <2>1. pc[Worker] = "deleting" /\ CurDev # None /\ CurDev' = None
    BY <1>4 DEF FreeDev, CInv, OneCard, CurDev, TInv, TypeOK, MmcCntlr
  <2>2. pc'[Worker] = IF cntlr.detecting THEN "failed" ELSE AfterDelete
    BY <1>4, WorkerGoes DEF FreeDev, TInv, AfterDelete, WorkerLabels
  <2> QED BY <1>1, <1>2, <1>4, <2>1, <2>2 DEF Does, Plugging, Coming, Removing, AfterDelete
<1> QED BY <1>1, <1>2, <1>3, <1>4, WorkKept

LEMMA InitSlot == Init => Follows /\ SInv
<1> SUFFICES ASSUME Init PROVE Follows /\ SInv
  OBVIOUS
<1>1. slot.plugged \in BOOLEAN /\ ~slot.asked /\ cntlr.devPluged = FALSE /\ ~cntlr.detecting /\ CurDev = None
  BY DEF Init, CurDev
<1>2. pc[Worker] = "idle" /\ queue = <<>> /\ \A m \in Messages : message[m].code = "NONE"
  BY NoMessageIs DEF Init
<1>3. Len(queue) = 0
  BY <1>2, EmptySeq
<1>4. Follows
  BY <1>1 DEF Follows
<1>5. Does
  BY <1>1, <1>2 DEF Does, Plugging
<1>6. Leaves
  BY <1>1, <1>2, <1>3 DEF Leaves, PlugsFollowed, Coming, Plugging
<1> QED BY <1>4, <1>5, <1>6 DEF SInv

LEMMA SlotInductive == TInv /\ CInv /\ MInv /\ SInv /\ [Next]_vars => SInv'
<1> SUFFICES ASSUME TInv, CInv, MInv, SInv, [Next]_vars PROVE SInv'
  OBVIOUS
<1>1. CASE SlotChanges \/ UNCHANGED vars
  <2>1. UNCHANGED <<cntlr, queue, message, pc, hand>>
    BY <1>1 DEF SlotChanges, vars
  <2> QED BY <2>1, SlotKept DEF Code, CurDev
<1>2. ASSUME NEW m \in Messages, AddDetectMsg(m) \/ AddPlugMsg(m) PROVE SInv'
  BY <1>2, AddDetectMsgSlot, AddPlugMsgSlot
<1>3. CASE WorkerStep
  BY <1>3, TakeMsgSlot, WorkerDoneSlot, StepsSlot, DetectSlot, RemovalSlot DEF WorkerStep
<1>4. ASSUME NEW u \in Users, NEW m \in Messages, Request(u, m) \/ Rescan(u, m) PROVE SInv'
  BY <1>4, RequestSlot
<1>5. ASSUME NEW u \in Users,
             \/ ClaimHost(u) \/ ReleaseHost(u) \/ DevicePut(u)
             \/ \E call \in {"use", "claim", "release"} : GetDevice(u, call)
      PROVE  SInv'
  <2>1. /\ cntlr'.type = cntlr.type /\ cntlr'.curDev = CurDev /\ cntlr'.detecting = cntlr.detecting
        /\ cntlr'.devPluged = cntlr.devPluged
    BY <1>5 DEF ClaimHost, ReleaseHost, DevicePut, GetDevice, TInv, TypeOK, MmcCntlr, CurDev
  <2>2. UNCHANGED <<message, queue>> /\ hand'[Worker] = hand[Worker] /\ pc'[Worker] = pc[Worker]
    BY <1>5, UserCalls
  <2> QED BY <2>1, <2>2, SlotKept DEF Code
<1>6. ASSUME NEW u \in Users, WaitEnds(u) PROVE SInv'
  BY <1>6, WaitEndsSlot
<1> QED BY <1>1, <1>2, <1>3, <1>4, <1>5, <1>6 DEF Next, UserStep

(* When all messages are handled, the controller of a card that can be      *)
(* taken out has no card that has left the slot: behind every card that a   *)
(* message has found or may find, the message that removes it is queued.    *)
THEOREM Settles ==
    ASSUME ~Reuse
    PROVE  Spec => []SettlesOnSlot
<1>1. TInv /\ CInv /\ Follows /\ SInv => SettlesOnSlot
  <2> SUFFICES ASSUME TInv, CInv, Follows, SInv, queue = <<>>, pc[Worker] = "idle", ~slot.irq, slot.asked,
                      cntlr.type # "SDIO"
               PROVE  cntlr.devPluged = slot.plugged /\ (CurDev # None => slot.plugged /\ card[CurDev].present)
    BY DEF SettlesOnSlot
  <2>1. cntlr.devPluged = slot.plugged /\ cntlr.devPluged \in BOOLEAN
    BY DEF Follows, TInv, TypeOK, MmcCntlr
  <2>2. ~UnplugQueued /\ ~Removing
    BY EmptySeq DEF UnplugQueued, Removing
  <2>3. ~cntlr.devPluged => CurDev = None
    BY <2>2 DEF SInv, Leaves, Coming
  <2>4. CurDev # None => card[CurDev].present
    BY DEF CInv, OneCard
  <2> QED BY <2>1, <2>3, <2>4
<1> QED BY <1>1, InitTypes, TypesInductive, InitCard, CardInductive, InitMessages, MessagesInductive,
           InitSlot, FollowsInductive, SlotInductive, PTL DEF Spec

=============================================================================
