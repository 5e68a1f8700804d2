---------------------------- MODULE VNodeAdapter ----------------------------
(***************************************************************************)
(* The device file of a CAPACITY service (core/adapter/vnode/src/          *)
(* hdf_vnode_adapter.c): every opener is a client with a queue of device   *)
(* events of its own, and the driver sends events to one client or to all. *)
(*                                                                         *)
(* A client's mutex covers each of its operations, so each is one step.    *)
(* The adapter's mutex is held while an event goes from client to client;  *)
(* operations of clients fall in between.                                  *)
(***************************************************************************)
EXTENDS Integers, Sequences, SequencesExt

CONSTANTS
    Clients,    \* the files that may be open
    QueueMax,   \* EVENT_QUEUE_MAX, 100 in the code
    MayFail,    \* TRUE: memory for an event may run out
    MaxEvents,  \* bound: how many events the driver sends
    MaxWakeups  \* bound: how many wakeups wait at a client

ASSUME QueueMaxAssumption == QueueMax \in Nat \ {0}
ASSUME BoundsAssumption == MayFail \in BOOLEAN /\ MaxEvents \in Nat /\ MaxWakeups \in Nat

VARIABLES
    clientList,  \* adapter->clientList
    client,      \* the fields of each client
    closing,     \* the clients whose release has begun
    sending,     \* the event being sent and the clients it has not reached
    nextEvent,   \* the events are numbered in the order they are sent
    lastRead,    \* history: the last event each client has read
    crashed      \* a sender has worked on something that is no event, and died

vars == <<clientList, client, closing, sending, nextEvent, lastRead, crashed>>

Statuses == {"RUNNING", "LISTENING", "STOPPED", "EXITED"}
Events   == 1..MaxEvents
NoEvent  == [event |-> 0, left |-> <<>>]

ClientRecord == [status : Statuses, eventQueue : Seq(Events), eventQueueSize : Int, wakeup : Nat]

\* HdfNewVNodeAdapterClient, the fields.
NewClient == [status |-> "RUNNING", eventQueue |-> <<>>, eventQueueSize |-> 0, wakeup |-> 0]

IsOpen(c) == c \in Range(clientList)

\* The release of c has not begun.
InUse(c) == IsOpen(c) /\ c \notin closing

\* A call on the file of c gets the client's mutex: the kernel lets no call in
\* once the release has begun, and a sender that has died keeps the mutex.
Usable(c) == InUse(c) /\ (crashed => c # Head(sending.left))

\* Nobody holds adapter->mutex.
Unlocked == sending = NoEvent

Set(c, fields) == client' = [client EXCEPT ![c] = fields]

-----------------------------------------------------------------------------
Init ==
    /\ clientList = <<>>
    /\ client = [c \in Clients |-> NewClient]
    /\ closing = {}
    /\ sending = NoEvent
    /\ nextEvent = 1
    /\ lastRead = [c \in Clients |-> 0]
    /\ crashed = FALSE

(* HdfVNodeAdapterOpen. *)
Open(c) ==
    /\ ~IsOpen(c) /\ Unlocked
    /\ clientList' = Append(clientList, c)
    /\ Set(c, NewClient)
    /\ lastRead' = [lastRead EXCEPT ![c] = 0]
    /\ UNCHANGED <<closing, sending, nextEvent, crashed>>

(* HdfVNodeAdapterClose, up to the lock in HdfDestoryVNodeAdapterClient: the *)
(* status is written without the client's mutex.                            *)
CloseBegin(c) ==
    /\ InUse(c)
    /\ closing' = closing \cup {c}
    /\ Set(c, [client[c] EXCEPT !.status = "STOPPED"])
    /\ UNCHANGED <<clientList, sending, nextEvent, lastRead, crashed>>

(* The rest of it: the client leaves the list and is freed with its events. *)
CloseEnd(c) ==
    /\ c \in closing /\ Unlocked
    /\ \E i \in DOMAIN clientList : clientList[i] = c /\ clientList' = RemoveAt(clientList, i)
    /\ closing' = closing \ {c}
    /\ Set(c, NewClient)
    /\ UNCHANGED <<sending, nextEvent, lastRead, crashed>>

(* HDF_LISTEN_EVENT_START *)
StartListening(c) ==
    /\ Usable(c)
    /\ Set(c, [client[c] EXCEPT !.status = "LISTENING"])
    /\ UNCHANGED <<clientList, closing, sending, nextEvent, lastRead, crashed>>

\* Mutant of CleanEventQueue: the events stay.
CleanNothing(c, status) == Set(c, [client[c] EXCEPT !.status = status])

\* HdfVnodeCleanEventQueue empties the queue and leaves its size as it was.
CleanEventQueue(c, status) ==
    Set(c, [client[c] EXCEPT !.status = status, !.eventQueue = <<>>])

(* HDF_LISTEN_EVENT_STOP and HDF_LISTEN_EVENT_EXIT *)
StopListening(c, status) ==
    /\ Usable(c)
    /\ CleanEventQueue(c, status)
    /\ UNCHANGED <<clientList, closing, sending, nextEvent, lastRead, crashed>>

(* HDF_LISTEN_EVENT_WAKEUP *)
Wakeup(c) ==
    /\ Usable(c)
    /\ client[c].status = "LISTENING" /\ client[c].wakeup < MaxWakeups
    /\ Set(c, [client[c] EXCEPT !.wakeup = @ + 1])
    /\ UNCHANGED <<clientList, closing, sending, nextEvent, lastRead, crashed>>

\* What poll finds: the mask of HdfVNodeAdapterPoll.
PollMask(c) ==
    IF client[c].status = "EXITED" THEN "POLLHUP"
    ELSE IF client[c].eventQueue # <<>> \/ client[c].wakeup > 0 THEN "POLLIN" ELSE "none"

(* HdfVNodeAdapterPoll: a wakeup is used up only when it is what poll found. *)
Poll(c) ==
    /\ Usable(c)
    /\ PollMask(c) # "none"
    /\ Set(c, IF PollMask(c) = "POLLIN" /\ client[c].eventQueue = <<>>
              THEN [client[c] EXCEPT !.wakeup = @ - 1] ELSE client[c])
    /\ UNCHANGED <<clientList, closing, sending, nextEvent, lastRead, crashed>>

\* Mutant of ReadDevEvent: a buffer that is too small still counts as a read.
ReadDevEventCounts(c, fits) ==
    /\ Usable(c)
    /\ client[c].eventQueue # <<>>
    /\ IF fits
       THEN /\ Set(c, [client[c] EXCEPT !.eventQueue = Tail(@), !.eventQueueSize = @ - 1])
            /\ lastRead' = [lastRead EXCEPT ![c] = Head(client[c].eventQueue)]
       ELSE Set(c, [client[c] EXCEPT !.eventQueueSize = @ - 1]) /\ UNCHANGED lastRead
    /\ UNCHANGED <<clientList, closing, sending, nextEvent, crashed>>

(* HDF_READ_DEV_EVENT: an event too large for the caller's buffer, or one   *)
(* that cannot be copied, stays where it is.                                *)
ReadDevEvent(c, fits) ==
    /\ Usable(c)
    /\ client[c].eventQueue # <<>>
    /\ IF fits
       THEN /\ Set(c, [client[c] EXCEPT !.eventQueue = Tail(@), !.eventQueueSize = @ - 1])
            /\ lastRead' = [lastRead EXCEPT ![c] = Head(client[c].eventQueue)]
       ELSE UNCHANGED <<client, lastRead>>
    /\ UNCHANGED <<clientList, closing, sending, nextEvent, crashed>>

(* HdfVNodeAdapterSendDevEvent takes the adapter's mutex and walks the list. *)
Send(left) ==
    /\ Unlocked /\ nextEvent <= MaxEvents
    /\ left # <<>>
    /\ sending' = [event |-> nextEvent, left |-> left]
    /\ nextEvent' = nextEvent + 1
    /\ UNCHANGED <<clientList, client, closing, lastRead, crashed>>

\* Done with the client the event is at.
NextClient == sending' = IF Len(sending.left) = 1 THEN NoEvent ELSE [sending EXCEPT !.left = Tail(@)]

IsFull(c) == client[c].eventQueueSize >= QueueMax

\* Mutant of Queued: the new event is put in front.
QueuedFirst(c) ==
    LET kept == IF IsFull(c) THEN Tail(client[c].eventQueue) ELSE client[c].eventQueue
    IN  [client[c] EXCEPT !.eventQueue = <<sending.event>> \o kept,
                          !.eventQueueSize = IF IsFull(c) THEN @ ELSE @ + 1]

\* The client after the event has been queued, the oldest one dropped if need be.
Queued(c) ==
    LET kept == IF IsFull(c) THEN Tail(client[c].eventQueue) ELSE client[c].eventQueue
    IN  [client[c] EXCEPT !.eventQueue = Append(kept, sending.event),
                          !.eventQueueSize = IF IsFull(c) THEN @ ELSE @ + 1]

(* VNodeAdapterSendDevEventToClient *)
SendToClient ==
    /\ sending # NoEvent /\ ~crashed
    /\ LET c == Head(sending.left)
       IN  IF client[c].status # "LISTENING" THEN UNCHANGED client
           ELSE /\ ~(IsFull(c) /\ client[c].eventQueue = <<>>)
                /\ Set(c, Queued(c))
    /\ NextClient
    /\ UNCHANGED <<clientList, closing, nextEvent, lastRead, crashed>>

(* The same without memory: the oldest event is dropped all the same, and   *)
(* the clients behind this one are left out.                                *)
SendOutOfMemory ==
    /\ MayFail /\ sending # NoEvent /\ ~crashed
    /\ LET c == Head(sending.left)
       IN  /\ client[c].status = "LISTENING"
           /\ ~(IsFull(c) /\ client[c].eventQueue = <<>>)
           /\ IF IsFull(c)
              THEN Set(c, [client[c] EXCEPT !.eventQueue = Tail(@), !.eventQueueSize = @ - 1])
              ELSE UNCHANGED client
    /\ sending' = NoEvent
    /\ UNCHANGED <<clientList, closing, nextEvent, lastRead, crashed>>

(* HdfVnodeAdapterDropOldEventLocked on an empty queue takes the head of    *)
(* the list for an event and frees it: the sender dies with both mutexes.   *)
DropFromEmpty ==
    /\ sending # NoEvent /\ ~crashed
    /\ LET c == Head(sending.left)
       IN  client[c].status = "LISTENING" /\ IsFull(c) /\ client[c].eventQueue = <<>>
    /\ crashed' = TRUE
    /\ UNCHANGED <<clientList, client, closing, sending, nextEvent, lastRead>>

ClientStep(c) ==
    \/ Open(c) \/ CloseBegin(c) \/ CloseEnd(c)
    \/ StartListening(c) \/ Wakeup(c) \/ Poll(c)
    \/ \E status \in {"STOPPED", "EXITED"} : StopListening(c, status)
    \/ \E fits \in BOOLEAN : ReadDevEvent(c, fits)

\* An event goes to all clients or, with HdfDeviceSendEventToClient, to one.
DriverStep ==
    \/ Send(clientList) \/ \E c \in Range(clientList) : Send(<<c>>)
    \/ SendToClient \/ SendOutOfMemory \/ DropFromEmpty

Next == DriverStep \/ \E c \in Clients : ClientStep(c)

Spec == Init /\ [][Next]_vars

-----------------------------------------------------------------------------
TypeOK ==
    /\ clientList \in Seq(Clients)
    /\ client \in [Clients -> ClientRecord]
    /\ closing \subseteq Range(clientList)
    /\ sending \in [event : 0..MaxEvents, left : Seq(Clients)]
    /\ nextEvent \in 1..(MaxEvents + 1)
    /\ lastRead \in [Clients -> 0..MaxEvents]
    /\ crashed \in BOOLEAN

(* A client that does not read costs the kernel EVENT_QUEUE_MAX events and  *)
(* no more, although the size that is compared with the limit is kept apart *)
(* from the list and not corrected when the list is emptied.                *)
QueueBounded == \A c \in Clients : Len(client[c].eventQueue) <= QueueMax

(* Events reach a client in the order the driver sent them, also when one   *)
(* is sent to it alone among others sent to all: what it has read and what  *)
(* it has yet to read is in ascending order.                                *)
EventsInOrder ==
    \A c \in Clients :
        LET q == <<lastRead[c]>> \o client[c].eventQueue
        IN  \A i, j \in DOMAIN q : i < j => q[i] < q[j]

(* A client that has told the driver to stop, or never told it to start,    *)
(* holds no events, so none from before is read after the next start; only  *)
(* the release of a client leaves its queue to be emptied a little later.   *)
NothingQueuedUnlessListening ==
    \A c \in Clients :
        client[c].status # "LISTENING" /\ c \notin closing => client[c].eventQueue = <<>>

(* What HdfVnodeAdapterDropOldEventLocked logs, "dev event queue full, drop *)
(* old one": no event that was sent to a listening client is given up while *)
(* fewer than EVENT_QUEUE_MAX events wait.                                  *)
DropsOnlyWhenFull ==
    \A c \in Clients :
        sending # NoEvent /\ c = Head(sending.left) /\ client[c].status = "LISTENING" /\ IsFull(c) =>
            Len(client[c].eventQueue) = QueueMax
=============================================================================
