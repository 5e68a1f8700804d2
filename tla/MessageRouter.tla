--------------------------- MODULE MessageRouter ---------------------------
(***************************************************************************)
(* The message engine of the wifi framework (model/network/wifi/platform/  *)
(* src/message): services register with a router on a dispatcher, and send *)
(* each other messages that the dispatcher's thread handles in order of    *)
(* priority.  Built as the repository builds it, with the local node only. *)
(*                                                                         *)
(* Remote services and dispatchers are shared objects: whoever uses one    *)
(* holds a unit of its reference count, and the last to let go destroys    *)
(* it.  Callers are the threads that use the router; a dispatcher stands   *)
(* for its thread as well.                                                 *)
(***************************************************************************)
EXTENDS Integers, Sequences, FiniteSets, SequencesExt

CONSTANTS
    Callers,      \* threads that call the router
    Admins,       \* those of them that start, register and shut down; the
                  \* others send
    Services,     \* service ids
    Slots,        \* dispatcher ids
    Dispatchers,  \* dispatcher objects, each with a thread of its own
    Remotes,      \* RemoteService objects
    Messages,     \* message contexts, each sent once
    Traffic,      \* the requests the drivers make
    Priority,     \* the priority of the commands of each service
    Levels,       \* priorities of a dispatcher, 0 the highest
    QueueSize,    \* messages a dispatcher holds per priority
    MaxRefs,      \* MAX_OBJ_REF_COUNT
    MaxStarts,    \* bound: how often the router is started
    Overlap       \* TRUE: two threads may be inside Disref of one object

Threads == Callers \cup Dispatchers
Objects == Remotes \cup Dispatchers

ASSUME DistinctAssumption ==
    Admins \subseteq Callers /\ Callers \cap Objects = {} /\ Remotes \cap Dispatchers = {}
ASSUME FiniteAssumption ==
    /\ IsFiniteSet(Callers) /\ IsFiniteSet(Services)
    /\ IsFiniteSet(Dispatchers) /\ IsFiniteSet(Remotes)
    /\ Slots \subseteq Nat /\ IsFiniteSet(Slots)
ASSUME MessageBounds ==
    /\ Levels \in Nat \ {0} /\ Priority \in [Services -> 0..(Levels - 1)]
    /\ QueueSize \in Nat \ {0} /\ MaxRefs \in Nat
    /\ MaxStarts \in Nat /\ Overlap \in BOOLEAN

CONSTANT None
ASSUME NoneAssumption == None \notin Objects \cup Services \cup Messages \cup Threads

\* A message context; the kind of a request that was handled becomes "rsp".
Contexts ==
    [state : {"unused", "live", "freed"}, kind : {"none", "async", "sync", "rsp"},
     from : Services \cup {None}, to : Services \cup {None}, callback : BOOLEAN,
     told : 0..1, err : {"ok", "full", "failed"}]
Blank == [state |-> "unused", kind |-> "none", from |-> None, to |-> None,
          callback |-> FALSE, told |-> 0, err |-> "ok"]
AsyncRequest(s, r, callback) ==
    [Blank EXCEPT !.kind = "async", !.from = s, !.to = r, !.callback = callback]
SyncRequest(r) == [Blank EXCEPT !.kind = "sync", !.to = r]
ASSUME TrafficAssumption ==
    \A request \in Traffic :
        \/ \E r \in Services : request = SyncRequest(r)
        \/ \E s, r \in Services, callback \in BOOLEAN : request = AsyncRequest(s, r, callback)

VARIABLES
    router,   \* g_routerStatus, the owner of g_routerMutex, starts so far
    index,    \* g_servicesIndex: the object registered for each id
    slots,    \* g_dispatchers
    remote,   \* service id and dispatcher of each RemoteService
    shared,   \* INHERT_SHARED_OBJ of every object: status, refCount
    queue,    \* the priority queue of each dispatcher
    message,  \* the message contexts
    pc,       \* where each thread is
    hand,     \* the message and the objects each thread works with
    drop,     \* what each thread has still to Disref, in order
    owned     \* the ids whose Service the users hold

vars == <<router, index, slots, remote, shared, queue, message, pc, hand, drop, owned>>

\* The order of the status values of message_types.h.
UpToRunning == {"STOPPED", "STARTTING", "RUNNING"}
Statuses    == {"none", "freed", "STOPPING", "TODESTROY"} \cup UpToRunning
Nothing     == [m |-> None, o |-> None, rsp |-> None, pri |-> 0]
Init ==
    /\ router = [status |-> "STOPPED", lock |-> None, starts |-> 0]
    /\ index = [s \in Services |-> None]
    /\ slots = [i \in Slots |-> None]
    /\ remote = [r \in Remotes |-> [id |-> None, dispatcher |-> None]]
    /\ shared = [x \in Objects |-> [status |-> "none", refs |-> 0]]
    /\ queue = [d \in Dispatchers |-> [p \in 0..(Levels - 1) |-> <<>>]]
    /\ message = [m \in Messages |-> Blank]
    /\ pc = [t \in Threads |-> IF t \in Callers THEN "idle" ELSE "off"]
    /\ hand = [t \in Threads |-> Nothing]
    /\ drop = [t \in Threads |-> <<>>]
    /\ owned = {}

-----------------------------------------------------------------------------
Goto(t, label)   == pc' = [pc EXCEPT ![t] = label]
Unlocked         == router.lock = None
MessageOf(t)     == hand[t].m
Keeping(m)       == [Nothing EXCEPT !.m = m]
Freed(told, err) == [Blank EXCEPT !.state = "freed", !.told = told, !.err = err]
Forget(ms)       == [m \in Messages |-> IF m \in ms THEN Freed(0, "ok") ELSE message[m]]
Queued(d)        == UNION {ToSet(queue[d][p]) : p \in 0..(Levels - 1)}

\* ReferenceRemoteService and ReferenceMessageDispatcher hand out a unit.
CanRef(x) == shared[x].status \in UpToRunning /\ shared[x].refs < MaxRefs

\* shared after n more units of x have been handed out.
Ref(x, n) == [shared EXCEPT ![x].refs = @ + n]

\* An object, a message context that has not been used; they are all alike.
IsNext(x, X) == X # {} /\ x = CHOOSE y \in X : TRUE
Fresh(X)     == {x \in X : shared[x].status = "none"}
Unsent       == {m \in Messages : message[m].state = "unused"}

\* The thread goes on with what it has to release, and then to label.
Release(t, xs) == drop' = [drop EXCEPT ![t] = xs]

(* StartMessageRouter *)
Start(t) ==
    /\ pc[t] = "idle" /\ Unlocked
    /\ router.status = "STOPPED" /\ router.starts < MaxStarts
    /\ router' = [router EXCEPT !.status = "RUNNING", !.starts = @ + 1]
    /\ index' = [s \in Services |-> None]
    /\ UNCHANGED <<slots, remote, shared, queue, message, pc, hand, drop, owned>>

(* AddDispatcher, up to the thread's start: CreateLocalDispatcher and        *)
(* StartDispatcher, which waits while the status is STARTTING.              *)
AddDispatcher(t, d) ==
    /\ pc[t] = "idle"
    /\ IsNext(d, Fresh(Dispatchers))
    /\ shared' = [shared EXCEPT ![d] = [status |-> "STARTTING", refs |-> 1]]
    /\ pc' = [pc EXCEPT ![t] = "starting", ![d] = "begin"]
    /\ hand' = [hand EXCEPT ![t].o = d]
    /\ UNCHANGED <<router, index, slots, remote, queue, message, drop, owned>>

(* RunDispatcher, up to its loop. *)
BeginThread(d) ==
    /\ pc[d] = "begin"
    /\ shared' = [Ref(d, 1) EXCEPT ![d].status = "RUNNING"]
    /\ Goto(d, "check")
    /\ UNCHANGED <<router, index, slots, remote, queue, message, hand, drop, owned>>

(* RegDispatcher; a dispatcher that cannot be registered is shut down. *)
RegDispatcher(t, i) ==
    LET d == hand[t].o
    IN  /\ pc[t] = "starting" /\ shared[d].status # "STARTTING" /\ Unlocked
        /\ IF router.status = "RUNNING" /\ slots[i] = None
           THEN /\ slots' = [slots EXCEPT ![i] = d]
                /\ Goto(t, "idle")
                /\ UNCHANGED <<shared, drop>>
           ELSE /\ shared' = [shared EXCEPT ![d].status = "STOPPING"]
                /\ Release(t, <<d>>) /\ Goto(t, "drop")
                /\ UNCHANGED slots
        /\ hand' = [hand EXCEPT ![t] = Nothing]
        /\ UNCHANGED <<router, index, remote, queue, message, owned>>

-----------------------------------------------------------------------------
(* InitService, the part under g_routerMutex: RegistServiceInner takes a    *)
(* unit of the dispatcher, and the new object another.                      *)
InitService(t, s, i, r) ==
    LET d == slots[i]
    IN  /\ pc[t] = "idle" /\ Unlocked
        /\ router.status = "RUNNING"
        /\ IsNext(r, Fresh(Remotes))
        /\ d # None /\ CanRef(d) /\ shared[d].refs + 1 < MaxRefs
        /\ remote' = [remote EXCEPT ![r] = [id |-> s, dispatcher |-> d]]
        /\ IF index[s] = None
           THEN /\ index' = [index EXCEPT ![s] = r]
                /\ shared' = [Ref(d, 2) EXCEPT ![r] = [status |-> "RUNNING", refs |-> 1]]
                /\ Release(t, <<d>>)
                /\ owned' = owned \cup {s}
           ELSE /\ shared' = [Ref(d, 2) EXCEPT ![r] = [status |-> "TODESTROY", refs |-> 1]]
                /\ Release(t, <<d, r>>)
                /\ UNCHANGED <<index, owned>>
        /\ Goto(t, "drop")
        /\ UNCHANGED <<router, slots, queue, message, hand>>

(* DestroyService: UnregistServiceInner keeps the mutex until it has         *)
(* released the object; with nothing registered the Service stays.          *)
DestroyService(t, s) ==
    LET r == index[s]
    IN  /\ pc[t] = "idle" /\ Unlocked
        /\ s \in owned /\ r # None
        /\ router' = [router EXCEPT !.lock = t]
        /\ index' = [index EXCEPT ![s] = None]
        /\ shared' = [shared EXCEPT ![r].status = "TODESTROY"]
        /\ Release(t, <<r>>) /\ Goto(t, "drop")
        /\ owned' = owned \ {s}
        /\ UNCHANGED <<slots, remote, queue, message, hand>>

(* DoShutdownMessageRouter, first the services, then one dispatcher after   *)
(* the other.                                                               *)
Shutdown(t) ==
    LET all == {index[s] : s \in Services} \ {None}
    IN  /\ pc[t] = "idle" /\ Unlocked
        /\ router.status = "RUNNING"
        /\ router' = [router EXCEPT !.status = "STOPPING", !.lock = t]
        /\ index' = [s \in Services |-> None]
        /\ shared' = [x \in Objects |-> IF x \in all THEN [shared[x] EXCEPT !.status = "TODESTROY"]
                                        ELSE shared[x]]
        /\ Release(t, SetToSeq(all)) /\ Goto(t, "drop")
        /\ UNCHANGED <<slots, remote, queue, message, hand, owned>>

ShuttingDown(t) ==
    pc[t] = "drop" /\ drop[t] = <<>> /\ router.lock = t /\ router.status = "STOPPING"

\* Mutant of ShutdownDispatcher: the thread is not told.
ShutdownUntold(t, i) ==
    /\ ShuttingDown(t)
    /\ slots[i] # None /\ \A j \in Slots : j < i => slots[j] = None
    /\ slots' = [slots EXCEPT ![i] = None]
    /\ Release(t, <<slots[i]>>)
    /\ UNCHANGED <<router, index, remote, shared, queue, message, pc, hand, owned>>

\* ShutdownDispatcher and the release of the router's unit.
ShutdownDispatcher(t, i) ==
    LET d == slots[i]
    IN  /\ ShuttingDown(t)
        /\ d # None /\ \A j \in Slots : j < i => slots[j] = None
        /\ slots' = [slots EXCEPT ![i] = None]
        /\ shared' = IF shared[d].status \in {"RUNNING", "STARTTING"}
                     THEN [shared EXCEPT ![d].status = "STOPPING"] ELSE shared
        /\ Release(t, <<d>>)
        /\ UNCHANGED <<router, index, remote, queue, message, pc, hand, owned>>

ShutdownEnd(t) ==
    /\ ShuttingDown(t) /\ \A i \in Slots : slots[i] = None
    /\ router' = [router EXCEPT !.status = "STOPPED", !.lock = None]
    /\ Goto(t, "idle")
    /\ UNCHANGED <<index, slots, remote, shared, queue, message, hand, drop, owned>>

-----------------------------------------------------------------------------
(* Disreference lowers the count and reads it again.  The two are one step  *)
(* where threads are inside it in turn.  Whoever finds the count used up    *)
(* destroys the object: DestroyLocalDispatcher frees the messages that came *)
(* after its thread's last, DestroyLocalNodeRemoteService gives back the    *)
(* service's unit of the dispatcher.                                        *)
Disref(t) ==
    LET x    == Head(drop[t])
        left == IF pc[t] = "read" THEN shared[x].refs ELSE shared[x].refs - 1
    IN  /\ pc[t] = "read" \/ (pc[t] = "drop" /\ drop[t] # <<>>)
        /\ Goto(t, IF Overlap /\ pc[t] = "drop" THEN "read" ELSE "drop")
        /\ IF left > 0 \/ (Overlap /\ pc[t] = "drop")
           THEN /\ shared' = [shared EXCEPT ![x].refs = left]
                /\ drop' = [drop EXCEPT ![t] = IF Overlap /\ pc[t] = "drop" THEN @ ELSE Tail(@)]
                /\ UNCHANGED <<queue, message>>
           ELSE /\ shared' = [shared EXCEPT ![x] = [status |-> "freed", refs |-> 0]]
                /\ IF x \in Dispatchers
                   THEN /\ message' = Forget(Queued(x))
                        /\ queue' = [queue EXCEPT ![x] = [p \in DOMAIN @ |-> <<>>]]
                        /\ Release(t, Tail(drop[t]))
                   ELSE /\ Release(t, <<remote[x].dispatcher>> \o Tail(drop[t]))
                        /\ UNCHANGED <<queue, message>>
        /\ UNCHANGED <<router, index, slots, remote, hand, owned>>

(* A caller has released everything: what it still holds of the message is  *)
(* freed, the mutex it may hold is given back.                              *)
Return(t) ==
    /\ t \in Callers
    /\ pc[t] = "drop" /\ drop[t] = <<>> /\ ~ShuttingDown(t)
    /\ message' = Forget({MessageOf(t)})
    /\ router' = [router EXCEPT !.lock = IF @ = t THEN None ELSE @]
    /\ hand' = [hand EXCEPT ![t] = Nothing]
    /\ Goto(t, "idle")
    /\ UNCHANGED <<index, slots, remote, shared, queue, drop, owned>>

-----------------------------------------------------------------------------
(* SideCarSendAsyncMessage, SideCarSendOneWayMessage (no callback), and      *)
(* SideCarSendSyncMessage or DispatchToMessage, whose sender is not used.   *)
Send(t, m, request) ==
    /\ pc[t] = "idle"
    /\ IsNext(m, Unsent)
    /\ request.kind = "async" => request.from \in owned
    /\ message' = [message EXCEPT ![m] = [request EXCEPT !.state = "live"]]
    /\ hand' = [hand EXCEPT ![t] = [Keeping(m) EXCEPT !.pri = Priority[request.to]]]
    /\ Goto(t, "target")
    /\ UNCHANGED <<router, index, slots, remote, shared, queue, drop, owned>>

\* RefRemoteService finds no object it can refer to: the index is looked at
\* without the mutex first.
Registered(s)  == s # None /\ index[s] # None
Unavailable(s) == Registered(s) => Unlocked /\ ~CanRef(index[s])
Available(s)   == Registered(s) /\ Unlocked /\ CanRef(index[s])

RefTarget(t) ==
    LET s == message[MessageOf(t)].to
    IN  /\ pc[t] = "target"
        /\ \/ /\ Unavailable(s) /\ Release(t, <<>>) /\ Goto(t, "drop")
              /\ UNCHANGED <<shared, hand>>
           \/ /\ Available(s) /\ shared' = Ref(index[s], 1)
              /\ hand' = [hand EXCEPT ![t].o = index[s]]
              /\ Goto(t, "send") /\ UNCHANGED drop
        /\ UNCHANGED <<router, index, slots, remote, queue, message, owned>>

\* A synchronous request is handled by the caller's own thread.
SendSync(t) ==
    LET m == MessageOf(t)
    IN  /\ pc[t] = "send" /\ message[m].kind = "sync"
        /\ message' = [message EXCEPT ![m].kind = "rsp"]
        /\ hand' = [hand EXCEPT ![t] = Keeping(m)]
        /\ Release(t, <<hand[t].o>>) /\ Goto(t, "drop")
        /\ UNCHANGED <<router, index, slots, remote, shared, queue, owned>>

\* AppendToLocalDispatcher reads the status, and then pushes.
SendAsync(t) ==
    LET d == remote[hand[t].o].dispatcher
    IN  /\ pc[t] = "send" /\ message[MessageOf(t)].kind = "async"
        /\ IF shared[d].status = "RUNNING"
           THEN Goto(t, "push") /\ UNCHANGED <<hand, drop>>
           ELSE /\ hand' = [hand EXCEPT ![t] = Keeping(MessageOf(t))]
                /\ Release(t, <<hand[t].o>>) /\ Goto(t, "drop")
        /\ UNCHANGED <<router, index, slots, remote, shared, queue, message, owned>>

IsFull(d, p) == Len(queue[d][p]) >= QueueSize
Enqueued(d, p, m) == [queue EXCEPT ![d][p] = Append(@, m)]

\* Mutant of Push: what was pushed is still the sender's to free.
PushKeeps(t) ==
    LET d == remote[hand[t].o].dispatcher
        p == hand[t].pri
    IN  /\ t \in Callers /\ pc[t] = "push"
        /\ queue' = IF IsFull(d, p) THEN queue ELSE Enqueued(d, p, MessageOf(t))
        /\ hand' = [hand EXCEPT ![t] = Keeping(MessageOf(t))]
        /\ Release(t, <<hand[t].o>>) /\ Goto(t, "drop")
        /\ UNCHANGED <<router, index, slots, remote, shared, message, owned>>

\* PushPriorityQueue; what was pushed is no longer the sender's.
Push(t) ==
    LET d == remote[hand[t].o].dispatcher
        p == hand[t].pri
    IN  /\ t \in Callers /\ pc[t] = "push"
        /\ IF IsFull(d, p) THEN hand' = [hand EXCEPT ![t] = Keeping(MessageOf(t))] /\ UNCHANGED queue
           ELSE /\ queue' = Enqueued(d, p, MessageOf(t))
                /\ hand' = [hand EXCEPT ![t] = Nothing]
        /\ Release(t, <<hand[t].o>>) /\ Goto(t, "drop")
        /\ UNCHANGED <<router, index, slots, remote, shared, message, owned>>

-----------------------------------------------------------------------------
\* Mutant of PopLevel: the highest level is looked at, and no other.
PopHighest(d) ==
    /\ pc[d] = "check" /\ shared[d].status = "RUNNING"
    /\ queue[d][0] # <<>>
    /\ hand' = [hand EXCEPT ![d] = Keeping(Head(queue[d][0]))]
    /\ queue' = [queue EXCEPT ![d][0] = Tail(@)]
    /\ Goto(d, "handle")
    /\ UNCHANGED <<router, index, slots, remote, shared, message, drop, owned>>

(* The loop of RunDispatcher reads the status, and PopPriorityQueue looks at *)
(* one level after the other.  The status and the first level are one step: *)
(* when the router stops in between, the services are gone already, and a   *)
(* message that is popped is freed as one that is left.                     *)
PopLevel(d) ==
    LET p == hand[d].pri
    IN  /\ pc[d] = "pop" \/ (pc[d] = "check" /\ shared[d].status = "RUNNING")
        /\ IF queue[d][p] # <<>>
           THEN /\ hand' = [hand EXCEPT ![d] = Keeping(Head(queue[d][p]))]
                /\ queue' = [queue EXCEPT ![d][p] = Tail(@)]
                /\ Goto(d, "handle")
           ELSE /\ hand' = [hand EXCEPT ![d].pri = IF p + 1 < Levels THEN p + 1 ELSE 0]
                /\ Goto(d, IF p + 1 < Levels THEN "pop" ELSE "check")
                /\ UNCHANGED queue
        /\ UNCHANGED <<router, index, slots, remote, shared, message, drop, owned>>

\* The loop ends.
StopRunning(d) ==
    /\ pc[d] = "check" /\ shared[d].status # "RUNNING"
    /\ Goto(d, "drain")
    /\ UNCHANGED <<router, index, slots, remote, shared, queue, message, hand, drop, owned>>

\* An errCode that is not ME_SUCCESS: ReleaseMessageContext, and no callback.
GiveUp(d, err, xs) ==
    /\ message' = [message EXCEPT ![MessageOf(d)] = Freed(0, err)]
    /\ hand' = [hand EXCEPT ![d] = Nothing]
    /\ Release(d, xs) /\ Goto(d, "drop")

(* HandleAsyncResponse *)
HandleResponse(d) ==
    LET m == MessageOf(d)
    IN  /\ pc[d] = "handle" /\ message[m].kind = "rsp"
        /\ message' = [message EXCEPT ![m] = Freed(@.told + 1, "ok")]
        /\ Goto(d, "check")
        /\ hand' = [hand EXCEPT ![d] = Nothing]
        /\ UNCHANGED <<router, index, slots, remote, shared, queue, drop, owned>>

(* HandleRequestMessage, in its steps: the target, its handler, the sender, *)
(* its dispatcher.                                                          *)
RefHandler(d) ==
    LET s == message[MessageOf(d)].to
    IN  /\ pc[d] = "handle" /\ message[MessageOf(d)].kind = "async"
        /\ \/ Unavailable(s) /\ GiveUp(d, "failed", <<>>) /\ UNCHANGED shared
           \/ /\ Available(s) /\ shared' = Ref(index[s], 1)
              /\ hand' = [hand EXCEPT ![d].o = index[s]]
              /\ Goto(d, "exec") /\ UNCHANGED <<message, drop>>
        /\ UNCHANGED <<router, index, slots, remote, queue, owned>>

ExecRequest(d) ==
    LET m == MessageOf(d)
    IN  /\ pc[d] = "exec"
        /\ IF message[m].callback
           THEN message' = [message EXCEPT ![m].kind = "rsp"] /\ Goto(d, "reply") /\ UNCHANGED <<hand, drop>>
           ELSE /\ message' = Forget({m})
                /\ hand' = [hand EXCEPT ![d] = Nothing]
                /\ Release(d, <<hand[d].o>>) /\ Goto(d, "drop")
        /\ UNCHANGED <<router, index, slots, remote, shared, queue, owned>>

RefSender(d) ==
    LET s == message[MessageOf(d)].from
    IN  /\ pc[d] = "reply"
        /\ \/ Unavailable(s) /\ GiveUp(d, "failed", <<hand[d].o>>) /\ UNCHANGED shared
           \/ /\ Available(s) /\ shared' = Ref(index[s], 1)
              /\ hand' = [hand EXCEPT ![d].rsp = index[s]]
              /\ Goto(d, "append") /\ UNCHANGED <<message, drop>>
        /\ UNCHANGED <<router, index, slots, remote, queue, owned>>

\* The dispatcher the response goes to.
ReplyVia(d) == remote[hand[d].rsp].dispatcher

\* Mutant of Both: the service the response went to is not released.
TargetOnly(d) == <<hand[d].o>>

\* What a handled request has to release.
Both(d) == <<hand[d].o, hand[d].rsp>>

AppendReply(d) ==
    /\ pc[d] = "append"
    /\ IF shared[ReplyVia(d)].status = "RUNNING"
       THEN Goto(d, "push") /\ UNCHANGED <<message, hand, drop>>
       ELSE GiveUp(d, "failed", Both(d))
    /\ UNCHANGED <<router, index, slots, remote, shared, queue, owned>>

\* Responses go to HIGHEST_PRIORITY.
PushReply(d) ==
    /\ d \in Dispatchers /\ pc[d] = "push"
    /\ IF IsFull(ReplyVia(d), 0) THEN GiveUp(d, "full", Both(d)) /\ UNCHANGED queue
       ELSE /\ queue' = Enqueued(ReplyVia(d), 0, MessageOf(d))
            /\ hand' = [hand EXCEPT ![d] = Nothing]
            /\ Release(d, Both(d)) /\ Goto(d, "drop")
            /\ UNCHANGED message
    /\ UNCHANGED <<router, index, slots, remote, shared, owned>>

HandlingDone(d) ==
    /\ d \in Dispatchers /\ pc[d] = "drop" /\ drop[d] = <<>>
    /\ Goto(d, IF hand[d].o = d THEN "off" ELSE "check")
    /\ UNCHANGED <<router, index, slots, remote, shared, queue, message, hand, drop, owned>>

(* ReleaseAllMessage, then the thread's own unit of the dispatcher.         *)
Drain(d) ==
    /\ pc[d] = "drain"
    /\ IF Queued(d) # {}
       THEN /\ message' = Forget(Queued(d))
            /\ queue' = [queue EXCEPT ![d] = [p \in DOMAIN @ |-> <<>>]]
            /\ UNCHANGED <<shared, pc, hand, drop>>
       ELSE /\ shared' = [shared EXCEPT ![d].status = "TODESTROY"]
            /\ hand' = [hand EXCEPT ![d].o = d]
            /\ Release(d, <<d>>) /\ Goto(d, "drop")
            /\ UNCHANGED <<queue, message>>
    /\ UNCHANGED <<router, index, slots, remote, owned>>

-----------------------------------------------------------------------------
Administer(t) ==
    \/ Start(t) \/ \E d \in Dispatchers : AddDispatcher(t, d)
    \/ \E s \in Services, i \in Slots, r \in Remotes : InitService(t, s, i, r)
    \/ \E s \in Services : DestroyService(t, s)
    \/ Shutdown(t)

Request(t) == \E m \in Messages, request \in Traffic : Send(t, m, request)

\* The steps of a call in progress.
CallerStep(t) ==
    \/ \E i \in Slots : RegDispatcher(t, i) \/ ShutdownDispatcher(t, i)
    \/ ShutdownEnd(t) \/ Return(t)
    \/ RefTarget(t) \/ SendSync(t) \/ SendAsync(t) \/ Push(t)
    \/ Disref(t)

DispatcherStep(d) ==
    \/ BeginThread(d) \/ StopRunning(d) \/ PopLevel(d)
    \/ HandleResponse(d) \/ RefHandler(d) \/ ExecRequest(d) \/ RefSender(d)
    \/ AppendReply(d) \/ PushReply(d) \/ HandlingDone(d) \/ Drain(d)
    \/ Disref(d)

Next ==
    \/ \E t \in Admins : Administer(t)
    \/ \E t \in Callers \ Admins : Request(t)
    \/ \E t \in Callers : CallerStep(t)
    \/ \E d \in Dispatchers : DispatcherStep(d)

Spec == Init /\ [][Next]_vars

\* Threads that have begun something are scheduled.
FairSpec ==
    /\ Spec
    /\ \A t \in Callers : WF_vars(CallerStep(t))
    /\ \A d \in Dispatchers : WF_vars(DispatcherStep(d))

-----------------------------------------------------------------------------
CallerLabels     == {"idle", "starting", "target", "send", "push", "drop", "read"}
DispatcherLabels == {"off", "begin", "check", "pop", "handle", "exec", "reply", "append", "push",
                     "drain", "drop", "read"}
Hands == [m : Messages \cup {None}, o : Objects \cup {None}, rsp : Remotes \cup {None},
          pri : 0..(Levels - 1)]

TypeOK ==
    /\ router \in [status : {"STOPPED", "RUNNING", "STOPPING"}, lock : Callers \cup {None},
                   starts : 0..MaxStarts]
    /\ index \in [Services -> Remotes \cup {None}]
    /\ slots \in [Slots -> Dispatchers \cup {None}]
    /\ remote \in [Remotes -> [id : Services \cup {None}, dispatcher : Dispatchers \cup {None}]]
    /\ shared \in [Objects -> [status : Statuses, refs : Int]]
    /\ queue \in [Dispatchers -> [0..(Levels - 1) -> Seq(Messages)]]
    /\ \A d \in Dispatchers, p \in 0..(Levels - 1) : Len(queue[d][p]) <= QueueSize
    /\ message \in [Messages -> Contexts]
    /\ pc \in [Threads -> CallerLabels \cup DispatcherLabels]
    /\ \A t \in Threads : pc[t] \in IF t \in Callers THEN CallerLabels ELSE DispatcherLabels
    /\ hand \in [Threads -> Hands]
    /\ drop \in [Threads -> Seq(Objects)]
    /\ owned \subseteq Services

Live(x) == shared[x].status \notin {"none", "freed"}

\* Who uses x, each with a unit of its own: the index, the slots, the services of
\* a dispatcher, its thread, and threads for what they work with or have still to
\* release.  What is to be released is numbered from the end of its list.
Indexed(x)    == {s \in Services : index[s] = x}
Placed(x)     == {i \in Slots : slots[i] = x}
Hosted(x)     == {r \in Remotes : Live(r) /\ remote[r].dispatcher = x}
Running(x)    == {d \in Dispatchers : d = x /\ pc[d] \notin {"off", "begin"} /\ hand[d].o # d}
Using(x)      == {t \in Threads : hand[t].o = x /\
                     pc[t] \in {"starting", "send", "push", "exec", "reply", "append"}}
Answering(x)  == {t \in Threads : hand[t].rsp = x /\ pc[t] \in {"append", "push"}}
Dropping(x)   ==
    UNION {{<<t, Len(drop[t]) - i>> : i \in {i \in DOMAIN drop[t] :
               drop[t][i] = x /\ ~(i = 1 /\ pc[t] = "read")}} : t \in Threads}

Units(x) ==
    Cardinality(Indexed(x)) + Cardinality(Placed(x)) + Cardinality(Hosted(x))
        + Cardinality(Running(x)) + Cardinality(Using(x)) + Cardinality(Answering(x))
        + Cardinality(Dropping(x))

(* A service or a dispatcher lives exactly as long as somebody uses it: its *)
(* count is the number of its users, whatever is unregistered, sent or shut *)
(* down meanwhile, and nobody is left with an object that was destroyed.    *)
CountsUsers ==
    \A x \in Objects : Units(x) = IF Live(x) THEN shared[x].refs ELSE 0

\* Where a message context is held, or waits.
Holders(m) == {t \in Threads : hand[t].m = m}
Places(m)  == UNION {{<<d, p, i>> : i \in {i \in DOMAIN queue[d][p] : queue[d][p][i] = m}} :
                         d \in Dispatchers, p \in 0..(Levels - 1)}

(* Every message context in memory belongs to one thread or waits in one    *)
(* queue, and one that was freed to none: no refused message is freed by    *)
(* both sides, and none is forgotten.                                       *)
OneOwner ==
    \A m \in Messages :
        Cardinality(Holders(m)) + Cardinality(Places(m)) =
            IF message[m].state = "live" THEN 1 ELSE 0

Waiting(m) == \E d \in Dispatchers : m \in Queued(d)

(* A request that was accepted is answered: its handler runs and then the   *)
(* callback, unless the router stops, one of the two services leaves, or    *)
(* the dispatcher of the sender is full when the response comes.            *)
Answered ==
    \A m \in Messages :
        Waiting(m) /\ message[m].callback ~>
            \/ message[m].told = 1
            \/ message[m].err = "full"
            \/ router.status # "RUNNING"
            \/ \E s \in {message[m].to, message[m].from} : ~Registered(s)

(* When the router has been shut down for good, every message, service and  *)
(* dispatcher is freed in the end, those in use at that time included.      *)
ShutdownFreesAll ==
    (router.status = "STOPPED" /\ router.starts = MaxStarts) ~>
        /\ \A x \in Objects : ~Live(x)
        /\ \A m \in Messages : message[m].state # "live"
=============================================================================
