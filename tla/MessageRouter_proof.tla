------------------------ MODULE MessageRouter_proof ------------------------
(***************************************************************************)
(* Theorems about MessageRouter, for any finite sets of threads, services, *)
(* slots and objects, any messages, requests and bounds.                   *)
(***************************************************************************)
EXTENDS MessageRouter, FiniteSetTheorems, SequenceTheorems, TLAPS

Known(x) == shared[x].status # "none"

WithMessage == {"target", "send", "push", "handle", "exec", "reply", "append"}
WithTarget  == {"send", "push", "exec", "reply", "append"}
Releasing   == {"drop", "read"}

\* What a thread has in hand and still to release at each place of its call.
Fits(t, label, h, xs) ==
    /\ label \in IF t \in Callers THEN CallerLabels ELSE DispatcherLabels
    /\ IF label \in WithMessage THEN h.m \in Messages
       ELSE h.m = None \/ (t \in Callers /\ label \in Releasing)
    /\ IF label \in WithTarget THEN h.o \in Remotes
       ELSE IF label = "starting" THEN h.o \in Dispatchers
       ELSE h.o = None \/ (h.o = t /\ label \in Releasing \cup {"off"})
    /\ IF t \in Dispatchers /\ label \in {"append", "push"} THEN h.rsp \in Remotes ELSE h.rsp = None
    /\ label \notin Releasing => xs = <<>>
    /\ label = "read" => xs # <<>> /\ Overlap

AllFit == \A t \in Threads : Fits(t, pc[t], hand[t], drop[t])

\* The mutex is held by a thread that releases objects, and no message.
HoldsMutex == router.lock # None => pc[router.lock] \in Releasing /\ hand[router.lock].m = None

\* Services are registered while the router runs, each object for its own id.
IndexRunning ==
    \A s \in Services : index[s] # None => router.status = "RUNNING" /\ remote[index[s]].id = s

\* What somebody refers to has been made, a dispatcher with its thread.
KnownTo(h, xs) ==
    /\ h.o # None => Known(h.o)
    /\ h.rsp # None => Known(h.rsp)
    /\ \A i \in DOMAIN xs : Known(xs[i])

ThreadsKnow == \A t \in Threads : KnownTo(hand[t], drop[t])

PlacedKnown ==
    /\ \A s \in Services : index[s] # None => Known(index[s])
    /\ \A i \in Slots : slots[i] # None => Known(slots[i])
    /\ \A r \in Remotes : Known(r) => /\ remote[r].dispatcher \in Dispatchers
                                      /\ Known(remote[r].dispatcher)

UnknownOff == \A d \in Dispatchers : ~Known(d) => pc[d] = "off" /\ hand[d].o = None

\* A callback is yet to come for every message in memory.
ToldLater == \A m \in Messages : message[m].state = "live" => message[m].told = 0

WInv == /\ TypeOK /\ AllFit /\ HoldsMutex /\ IndexRunning
        /\ ThreadsKnow /\ PlacedKnown /\ UnknownOff /\ ToldLater

-----------------------------------------------------------------------------
(* What a step does to one thread. *)

Labels == CallerLabels \cup DispatcherLabels

Moves(t, label, h, xs) ==
    /\ pc' = [pc EXCEPT ![t] = label]
    /\ hand' = [hand EXCEPT ![t] = h]
    /\ drop' = [drop EXCEPT ![t] = xs]

LEMMA HandsAre ==
  /\ Nothing = [m |-> None, o |-> None, rsp |-> None, pri |-> 0] /\ Nothing \in Hands
  /\ \A m \in Messages \cup {None} :
        Keeping(m) = [m |-> m, o |-> None, rsp |-> None, pri |-> 0] /\ Keeping(m) \in Hands
BY MessageBounds DEF Nothing, Keeping, Hands

\* Nobody is two things at once.
LEMMA Distinct ==
  /\ None \notin Objects /\ None \notin Threads /\ None \notin Services /\ None \notin Messages
  /\ None \notin Remotes /\ None \notin Dispatchers /\ None \notin Callers
  /\ \A t \in Dispatchers : t \notin Callers /\ t \notin Remotes /\ t \in Threads /\ t \in Objects
  /\ \A t \in Callers : t \notin Dispatchers /\ t \in Threads /\ t \notin Objects /\ t \notin Remotes
  /\ \A r \in Remotes : r \notin Dispatchers /\ r \in Objects
  /\ Objects = Remotes \cup Dispatchers /\ Threads = Callers \cup Dispatchers
  /\ \A t \in Admins : t \in Callers
BY DistinctAssumption, NoneAssumption DEF Objects, Threads

\* Other threads stay where they are.
LEMMA MovesKeep ==
  ASSUME WInv, NEW t \in Threads, NEW label, NEW h \in Hands, NEW xs \in Seq(Objects),
         Moves(t, label, h, xs), Fits(t, label, h, xs), KnownTo(h, xs)',
         \A x \in Objects : Known(x) => Known(x)'
  PROVE  /\ pc' \in [Threads -> Labels] /\ hand' \in [Threads -> Hands]
         /\ drop' \in [Threads -> Seq(Objects)]
         /\ AllFit' /\ ThreadsKnow'
         /\ \A u \in Threads : pc'[u] \in IF u \in Callers THEN CallerLabels ELSE DispatcherLabels
<1>1. /\ pc \in [Threads -> Labels] /\ hand \in [Threads -> Hands]
      /\ drop \in [Threads -> Seq(Objects)]
  BY DEF WInv, TypeOK, Labels
<1>2. label \in Labels
  BY DEF Fits, Labels
<1>3. /\ pc' \in [Threads -> Labels] /\ hand' \in [Threads -> Hands]
      /\ drop' \in [Threads -> Seq(Objects)]
      /\ pc'[t] = label /\ hand'[t] = h /\ drop'[t] = xs
      /\ \A u \in Threads \ {t} : pc'[u] = pc[u] /\ hand'[u] = hand[u] /\ drop'[u] = drop[u]
  BY <1>1, <1>2 DEF Moves
<1>4. ASSUME NEW u \in Threads PROVE Fits(u, pc[u], hand[u], drop[u])'
  <2>1. CASE u = t
    BY <1>3, <2>1 DEF Fits
  <2>2. CASE u # t
    <3>1. Fits(u, pc[u], hand[u], drop[u])
      BY DEF WInv, AllFit
    <3> QED
      BY <1>3, <2>2, <3>1 DEF Fits
  <2> QED
    BY <2>1, <2>2
<1>5. ASSUME NEW u \in Threads PROVE KnownTo(hand[u], drop[u])'
  <2>1. CASE u = t
    BY <1>3, <2>1 DEF KnownTo, Known
  <2>2. CASE u # t
    <3>1. hand'[u] = hand[u] /\ drop'[u] = drop[u]
      BY <1>3, <2>2
    <3>2. KnownTo(hand[u], drop[u])
      BY DEF WInv, ThreadsKnow
    <3>3. /\ hand[u].o # None => hand[u].o \in Objects
          /\ hand[u].rsp # None => hand[u].rsp \in Objects
          /\ \A i \in DOMAIN drop[u] : drop[u][i] \in Objects
      <4>1. hand[u] \in Hands /\ drop[u] \in Seq(Objects)
        BY <1>1
      <4> QED
        BY <4>1, Distinct DEF Hands
    <3> QED
      BY <3>1, <3>2, <3>3 DEF KnownTo, Known
  <2> QED
    BY <2>1, <2>2
<1>6. \A u \in Threads : pc'[u] \in IF u \in Callers THEN CallerLabels ELSE DispatcherLabels
  BY <1>4 DEF Fits
<1> QED
  BY <1>3, <1>4, <1>5, <1>6 DEF AllFit, ThreadsKnow

-----------------------------------------------------------------------------
(* What a step does to the shared objects, the queues and the messages. *)

SharedType == [status : Statuses, refs : Int]
QueuesOK   == /\ queue \in [Dispatchers -> [0..(Levels - 1) -> Seq(Messages)]]
              /\ \A d \in Dispatchers, p \in 0..(Levels - 1) : Len(queue[d][p]) <= QueueSize
MessagesOK == message \in [Messages -> Contexts] /\ ToldLater

LEMMA SharedKeeps ==
  ASSUME WInv, NEW x \in Objects, NEW rec \in SharedType, rec.status # "none", Known(x),
         shared' = [shared EXCEPT ![x] = rec]
  PROVE  /\ shared' \in [Objects -> SharedType]
         /\ \A y \in Objects : Known(y) <=> Known(y)'
         /\ shared'[x] = rec /\ \A y \in Objects \ {x} : shared'[y] = shared[y]
BY DEF WInv, TypeOK, SharedType, Known

LEMMA RefKeeps ==
  ASSUME WInv, NEW x \in Objects, NEW n \in Int, Known(x), shared' = Ref(x, n)
  PROVE  /\ shared' \in [Objects -> SharedType]
         /\ \A y \in Objects : Known(y) <=> Known(y)'
         /\ shared'[x] = [status |-> shared[x].status, refs |-> shared[x].refs + n]
         /\ \A y \in Objects \ {x} : shared'[y] = shared[y]
BY DEF WInv, TypeOK, SharedType, Known, Ref

LEMMA StatusKeeps ==
  ASSUME WInv, NEW x \in Objects, NEW status \in Statuses \ {"none"}, Known(x),
         shared' = [shared EXCEPT ![x].status = status]
  PROVE  /\ shared' \in [Objects -> SharedType]
         /\ \A y \in Objects : Known(y) <=> Known(y)'
         /\ shared'[x] = [status |-> status, refs |-> shared[x].refs]
         /\ \A y \in Objects \ {x} : shared'[y] = shared[y]
BY DEF WInv, TypeOK, SharedType, Known

LEMMA FreedIs ==
  ASSUME NEW told \in 0..1, NEW err \in {"ok", "full", "failed"}
  PROVE  /\ Freed(told, err) \in Contexts /\ Freed(told, err).state = "freed"
         /\ Freed(told, err).told = told
BY DEF Freed, Blank, Contexts

LEMMA MessageKeeps ==
  ASSUME MessagesOK, NEW m \in Messages, NEW rec \in Contexts, rec.state = "live" => rec.told = 0,
         message' = [message EXCEPT ![m] = rec]
  PROVE  /\ MessagesOK' /\ message'[m] = rec
         /\ \A n \in Messages \ {m} : message'[n] = message[n]
BY DEF MessagesOK, ToldLater

LEMMA ForgetKeeps ==
  ASSUME MessagesOK, NEW ms, message' = Forget(ms)
  PROVE  /\ MessagesOK'
         /\ \A n \in Messages : message'[n] = IF n \in ms THEN Freed(0, "ok") ELSE message[n]
BY FreedIs DEF MessagesOK, ToldLater, Forget

LEMMA QueueEmptied ==
  ASSUME QueuesOK, NEW d \in Dispatchers, queue' = [queue EXCEPT ![d] = [p \in DOMAIN @ |-> <<>>]]
  PROVE  /\ QueuesOK' /\ \A p \in 0..(Levels - 1) : queue'[d][p] = <<>>
         /\ \A e \in Dispatchers \ {d} : queue'[e] = queue[e]
<1>1. \A p \in 0..(Levels - 1) : queue'[d][p] = <<>>
  BY DEF QueuesOK
<1>2. /\ \A e \in Dispatchers \ {d} : queue'[e] = queue[e]
      /\ queue' \in [Dispatchers -> [0..(Levels - 1) -> Seq(Messages)]]
  BY DEF QueuesOK
<1>3. Len(<<>>) <= QueueSize
  BY MessageBounds
<1> QED
  BY <1>1, <1>2, <1>3 DEF QueuesOK

(* A step of one thread that leaves the router, its index, the slots and    *)
(* the services alone.                                                      *)
LEMMA StepKeeps ==
  ASSUME WInv, NEW t \in Threads, NEW label, NEW h \in Hands, NEW xs \in Seq(Objects),
         Moves(t, label, h, xs), Fits(t, label, h, xs), KnownTo(h, xs),
         UNCHANGED <<router, index, slots, remote, owned>>,
         shared' \in [Objects -> SharedType], \A x \in Objects : Known(x) <=> Known(x)',
         pc[t] # "off", router.lock = t => label \in Releasing /\ h.m = None,
         QueuesOK', MessagesOK'
  PROVE  WInv'
<1>1. KnownTo(h, xs)'
  BY Distinct DEF KnownTo, Known, Hands
<1>2. /\ pc' \in [Threads -> Labels] /\ hand' \in [Threads -> Hands]
      /\ drop' \in [Threads -> Seq(Objects)]
      /\ AllFit' /\ ThreadsKnow'
      /\ \A u \in Threads : pc'[u] \in IF u \in Callers THEN CallerLabels ELSE DispatcherLabels
  BY <1>1, MovesKeep
<1>3. TypeOK'
  BY <1>2 DEF WInv, TypeOK, Labels, SharedType, QueuesOK, MessagesOK
<1>4. /\ pc'[t] = label /\ hand'[t] = h
      /\ \A u \in Threads \ {t} : pc'[u] = pc[u] /\ hand'[u] = hand[u]
  BY DEF WInv, TypeOK, Moves
<1>5. HoldsMutex'
  <2>1. router.lock # None => router.lock \in Threads
    BY Distinct DEF WInv, TypeOK
  <2> QED
    BY <1>4, <2>1 DEF WInv, HoldsMutex
<1>6. IndexRunning'
  BY DEF WInv, IndexRunning
<1>7. PlacedKnown'
  <2>1. \A s \in Services : index[s] # None => index[s] \in Objects
    BY Distinct DEF WInv, TypeOK
  <2>2. \A i \in Slots : slots[i] # None => slots[i] \in Objects
    BY Distinct DEF WInv, TypeOK
  <2>3. \A r \in Remotes : r \in Objects
    BY Distinct
  <2>4. \A d \in Dispatchers : d \in Objects
    BY Distinct
  <2> QED
    BY <2>1, <2>2, <2>3, <2>4 DEF WInv, PlacedKnown, Known
<1>8. UnknownOff'
  <2> SUFFICES ASSUME NEW d \in Dispatchers, ~Known(d)' PROVE pc'[d] = "off" /\ hand'[d].o = None
    BY DEF UnknownOff, Known
  <2>1. d \in Objects /\ d \in Threads /\ ~Known(d)
    BY Distinct
  <2>2. pc[d] = "off" /\ hand[d].o = None
    BY <2>1 DEF WInv, UnknownOff
  <2> QED
    BY <1>4, <2>1, <2>2
<1> QED
  BY <1>2, <1>3, <1>5, <1>6, <1>7, <1>8 DEF WInv, MessagesOK

LEMMA QueueAt ==
  ASSUME QueuesOK, NEW d \in Dispatchers, NEW p \in 0..(Levels - 1), NEW q \in Seq(Messages),
         Len(q) <= QueueSize, queue' = [queue EXCEPT ![d] = [queue[d] EXCEPT ![p] = q]]
  PROVE  /\ QueuesOK' /\ queue'[d][p] = q
         /\ \A e \in Dispatchers, r \in 0..(Levels - 1) :
               e # d \/ r # p => queue'[e][r] = queue[e][r]
<1> DEFINE row == [queue[d] EXCEPT ![p] = q]
<1>1. /\ row \in [0..(Levels - 1) -> Seq(Messages)] /\ row[p] = q
      /\ \A r \in 0..(Levels - 1) : r # p => row[r] = queue[d][r]
  BY DEF QueuesOK
<1>2. /\ queue' \in [Dispatchers -> [0..(Levels - 1) -> Seq(Messages)]]
      /\ queue'[d] = row /\ \A e \in Dispatchers : e # d => queue'[e] = queue[e]
  <2> HIDE DEF row
  <2>1. queue' = [queue EXCEPT ![d] = row]
    BY DEF row
  <2> QED
    BY <1>1, <2>1 DEF QueuesOK
<1> HIDE DEF row
<1> QED
  BY <1>1, <1>2 DEF QueuesOK

\* Putting a message on a queue that is not full, and taking the oldest off.
LEMMA EnqueueKeeps ==
  ASSUME QueuesOK, NEW d \in Dispatchers, NEW p \in 0..(Levels - 1), NEW m \in Messages,
         ~IsFull(d, p), queue' = Enqueued(d, p, m)
  PROVE  /\ QueuesOK' /\ queue'[d][p] = Append(queue[d][p], m)
         /\ \A e \in Dispatchers, q \in 0..(Levels - 1) :
               e # d \/ q # p => queue'[e][q] = queue[e][q]
<1>1. queue[d][p] \in Seq(Messages) /\ Len(queue[d][p]) < QueueSize
  BY MessageBounds DEF QueuesOK, IsFull
<1>2. /\ Append(queue[d][p], m) \in Seq(Messages)
      /\ Len(Append(queue[d][p], m)) <= QueueSize
  BY <1>1, MessageBounds
<1>3. queue' = [queue EXCEPT ![d] = [queue[d] EXCEPT ![p] = Append(queue[d][p], m)]]
  BY DEF Enqueued
<1> QED
  BY <1>2, <1>3, QueueAt

LEMMA DequeueKeeps ==
  ASSUME QueuesOK, NEW d \in Dispatchers, NEW p \in 0..(Levels - 1), queue[d][p] # <<>>,
         queue' = [queue EXCEPT ![d][p] = Tail(@)]
  PROVE  /\ QueuesOK' /\ queue'[d][p] = Tail(queue[d][p]) /\ Head(queue[d][p]) \in Messages
         /\ \A e \in Dispatchers, q \in 0..(Levels - 1) :
               e # d \/ q # p => queue'[e][q] = queue[e][q]
<1>1. queue[d][p] \in Seq(Messages) /\ Len(queue[d][p]) <= QueueSize
  BY DEF QueuesOK
<1>2. /\ Tail(queue[d][p]) \in Seq(Messages) /\ Head(queue[d][p]) \in Messages
      /\ Len(Tail(queue[d][p])) <= QueueSize
  BY <1>1, MessageBounds
<1>3. queue' = [queue EXCEPT ![d] = [queue[d] EXCEPT ![p] = Tail(queue[d][p])]]
  OBVIOUS
<1>4. PICK q \in Seq(Messages) : q = Tail(queue[d][p])
  BY <1>2
<1>5. Len(q) <= QueueSize /\ queue' = [queue EXCEPT ![d] = [queue[d] EXCEPT ![p] = q]]
  BY <1>2, <1>3, <1>4, Zenon
<1>6. /\ QueuesOK' /\ queue'[d][p] = q
      /\ \A e \in Dispatchers, r \in 0..(Levels - 1) :
               e # d \/ r # p => queue'[e][r] = queue[e][r]
  BY <1>5, QueueAt
<1> QED
  BY <1>2, <1>4, <1>6, Zenon

-----------------------------------------------------------------------------
(* The steps of callers that send. *)

LEMMA InHand ==
  ASSUME WInv, NEW t \in Threads
  PROVE  /\ Fits(t, pc[t], hand[t], drop[t]) /\ KnownTo(hand[t], drop[t])
         /\ hand[t] \in Hands /\ drop[t] \in Seq(Objects)
         /\ router.lock = t => pc[t] \in Releasing /\ hand[t].m = None
         /\ MessagesOK /\ QueuesOK /\ shared \in [Objects -> SharedType]
<1>1. router.lock = t => pc[t] \in Releasing /\ hand[t].m = None
  BY Distinct DEF WInv, HoldsMutex
<1> QED
  BY <1>1 DEF WInv, AllFit, ThreadsKnow, TypeOK, MessagesOK, QueuesOK, SharedType

\* At each of these places the thread has a message and, further on, a service.
LEMMA WorkingHand ==
  ASSUME WInv, NEW t \in Threads, pc[t] \in WithMessage
  PROVE  /\ hand[t].m \in Messages /\ drop[t] = <<>> /\ router.lock # t
         /\ IF pc[t] \in WithTarget THEN hand[t].o \in Remotes /\ Known(hand[t].o) ELSE hand[t].o = None
         /\ IF t \in Dispatchers /\ pc[t] \in {"append", "push"}
            THEN hand[t].rsp \in Remotes /\ Known(hand[t].rsp) ELSE hand[t].rsp = None
<1>1. Fits(t, pc[t], hand[t], drop[t]) /\ KnownTo(hand[t], drop[t])
      /\ (router.lock = t => pc[t] \in Releasing)
  BY InHand
<1>2. pc[t] \notin Releasing /\ pc[t] # "starting" /\ pc[t] # "off"
  BY DEF WithMessage, Releasing
<1> QED
  BY <1>1, <1>2, Distinct DEF Fits, KnownTo

LEMMA SameQueues == QueuesOK /\ UNCHANGED queue => QueuesOK'
BY DEF QueuesOK

LEMMA SameMessages == MessagesOK /\ UNCHANGED message => MessagesOK'
BY DEF MessagesOK, ToldLater

LEMMA SameShared ==
  WInv /\ UNCHANGED shared =>
     shared' \in [Objects -> SharedType] /\ \A x \in Objects : Known(x) <=> Known(x)'
BY DEF WInv, TypeOK, SharedType, Known

\* Freeing what the thread has in hand, as dispatchers do.
LEMMA KindKeeps ==
  ASSUME MessagesOK, NEW m \in Messages, message' = [message EXCEPT ![m].kind = "rsp"]
  PROVE  /\ MessagesOK' /\ message'[m].state = message[m].state
         /\ \A n \in Messages \ {m} : message'[n] = message[n]
BY DEF MessagesOK, ToldLater, Contexts

\* What may stand in a list of objects to release.
LEMMA ToRelease ==
  /\ <<>> \in Seq(Objects) /\ KnownTo(Nothing, <<>>)
  /\ \A m \in Messages \cup {None} : KnownTo(Keeping(m), <<>>)
  /\ \A x \in Objects : <<x>> \in Seq(Objects)
  /\ \A x, y \in Objects : <<x, y>> \in Seq(Objects)
  /\ \A x \in Objects : Known(x) =>
        KnownTo(Nothing, <<x>>) /\ \A m \in Messages \cup {None} : KnownTo(Keeping(m), <<x>>)
  /\ \A x, y \in Objects : Known(x) /\ Known(y) => KnownTo(Nothing, <<x, y>>)
BY HandsAre DEF KnownTo

\* A thread that releases has nothing else, but for a caller's message.
LEMMA FitsReleasing ==
  ASSUME NEW t \in Threads, NEW xs
  PROVE  /\ Fits(t, "drop", Nothing, xs)
         /\ t \in Callers => \A m \in Messages : Fits(t, "drop", Keeping(m), xs)
BY HandsAre, Distinct DEF Fits, Releasing, WithMessage, WithTarget, CallerLabels, DispatcherLabels

LEMMA ReleaseKeeps ==
  ASSUME WInv, NEW t \in Threads, pc[t] \in WithMessage, NEW h,
         h = Nothing \/ (t \in Callers /\ \E m \in Messages : h = Keeping(m)),
         NEW xs \in Seq(Objects), KnownTo(Nothing, xs), Moves(t, "drop", h, xs),
         UNCHANGED <<router, index, slots, remote, owned, shared>>, QueuesOK', MessagesOK'
  PROVE  WInv'
<1>1. h \in Hands /\ h.o = None /\ h.rsp = None
  BY HandsAre
<1>2. Fits(t, "drop", h, xs)
  BY FitsReleasing
<1>3. KnownTo(h, xs)
  BY <1>1 DEF KnownTo
<1>4. router.lock # t /\ pc[t] # "off"
  BY WorkingHand DEF WithMessage
<1>5. shared' \in [Objects -> SharedType] /\ \A x \in Objects : Known(x) <=> Known(x)'
  BY SameShared
<1> QED
  BY <1>1, <1>2, <1>3, <1>4, <1>5, StepKeeps

LEMMA SendKeeps ==
  ASSUME WInv, NEW t \in Callers, NEW m \in Messages, NEW request \in Traffic, Send(t, m, request)
  PROVE  /\ \E h \in Hands : Moves(t, "target", h, <<>>) /\ h.m = m /\ h.o = None /\ h.rsp = None
         /\ hand[t].m = None /\ hand[t].o = None /\ hand[t].rsp = None
         /\ m \in Unsent /\ message' = [message EXCEPT ![m] = [request EXCEPT !.state = "live"]]
         /\ WInv' /\ request \in Contexts
<1> DEFINE h == [Keeping(m) EXCEPT !.pri = Priority[request.to]]
<1>1. /\ t \in Threads /\ pc[t] = "idle" /\ drop[t] = <<>> /\ hand[t].m = None
      /\ hand[t].o = None /\ hand[t].rsp = None /\ router.lock # t
  BY InHand, Distinct DEF Send, Fits, Releasing, WithMessage, WithTarget
<1>2. request.to \in Services /\ request \in Contexts /\ request.told = 0
  <2>1. CASE \E r \in Services : request = SyncRequest(r)
    <3>1. PICK r \in Services : request = SyncRequest(r)
      BY <2>1
    <3>2. request = [state |-> "unused", kind |-> "sync", from |-> None, to |-> r,
                     callback |-> FALSE, told |-> 0, err |-> "ok"]
      BY <3>1 DEF SyncRequest, Blank
    <3> QED
      BY <3>2 DEF Contexts
  <2>2. CASE \E s, r \in Services, callback \in BOOLEAN : request = AsyncRequest(s, r, callback)
    <3>1. PICK s \in Services, r \in Services, callback \in BOOLEAN : request = AsyncRequest(s, r, callback)
      BY <2>2
    <3>2. request = [state |-> "unused", kind |-> "async", from |-> s, to |-> r,
                     callback |-> callback, told |-> 0, err |-> "ok"]
      BY <3>1 DEF AsyncRequest, Blank
    <3> QED
      BY <3>2 DEF Contexts
  <2> QED
    BY <2>1, <2>2, TrafficAssumption
<1>3. h = [m |-> m, o |-> None, rsp |-> None, pri |-> Priority[request.to]]
  BY HandsAre
<1>4. h \in Hands
  BY <1>2, <1>3, MessageBounds DEF Hands
<1>5. Moves(t, "target", h, <<>>)
  BY <1>1 DEF Send, Goto, Moves, WInv, TypeOK
<1>6. m \in Unsent
  BY DEF Send, IsNext
<1>7. /\ [request EXCEPT !.state = "live"] \in Contexts
      /\ [request EXCEPT !.state = "live"].told = 0
  BY <1>2 DEF Contexts
<1>8. message' = [message EXCEPT ![m] = [request EXCEPT !.state = "live"]]
  BY DEF Send
<1>9. MessagesOK' /\ QueuesOK'
  BY <1>1, <1>7, <1>8, InHand, MessageKeeps, SameQueues DEF Send
<1>10. Fits(t, "target", h, <<>>) /\ KnownTo(h, <<>>)
  <2> HIDE DEF h
  <2> QED
    BY <1>3, Distinct DEF Fits, KnownTo, WithMessage, WithTarget, Releasing, CallerLabels
<1>11. WInv'
  <2> HIDE DEF h
  <2> QED
    BY <1>1, <1>4, <1>5, <1>9, <1>10, StepKeeps, SameShared, ToRelease DEF Send
<1> QED
  <2> HIDE DEF h
  <2> QED
    BY <1>1, <1>2, <1>3, <1>4, <1>5, <1>6, <1>8, <1>11

LEMMA HandWith ==
  ASSUME NEW h \in Hands, NEW r \in Remotes
  PROVE  /\ [h EXCEPT !.o = r] = [m |-> h.m, o |-> r, rsp |-> h.rsp, pri |-> h.pri]
         /\ [h EXCEPT !.o = r] \in Hands
         /\ [h EXCEPT !.rsp = r] = [m |-> h.m, o |-> h.o, rsp |-> r, pri |-> h.pri]
         /\ [h EXCEPT !.rsp = r] \in Hands
<1>1. r \in Objects
  BY Distinct
<1> QED
  BY <1>1 DEF Hands

LEMMA Addressed ==
  ASSUME WInv, NEW m \in Messages
  PROVE  message[m].to \in Services \cup {None} /\ message[m].from \in Services \cup {None}
<1>1. message[m] \in Contexts
  BY DEF WInv, TypeOK
<1> QED
  BY ONLY <1>1 DEF Contexts

LEMMA RefTargetKeeps ==
  ASSUME WInv, NEW t \in Callers, RefTarget(t)
  PROVE  /\ pc[t] = "target"
         /\ \/ Moves(t, "drop", hand[t], <<>>) /\ UNCHANGED shared
            \/ \E s \in Services :
                  /\ index[s] \in Remotes /\ CanRef(index[s]) /\ shared' = Ref(index[s], 1)
                  /\ Moves(t, "send", [hand[t] EXCEPT !.o = index[s]], <<>>)
         /\ WInv'
<1> DEFINE s == message[hand[t].m].to
<1>1. /\ t \in Threads /\ pc[t] = "target" /\ pc[t] \in WithMessage /\ pc[t] \notin WithTarget
  BY Distinct DEF RefTarget, WithMessage, WithTarget
<1>2. /\ hand[t].m \in Messages /\ drop[t] = <<>> /\ router.lock # t
      /\ hand[t].o = None /\ hand[t].rsp = None
  BY <1>1, Distinct, WorkingHand
<1>3. hand[t] \in Hands
  BY <1>1, InHand
<1>4. MessagesOK' /\ QueuesOK'
  BY <1>1, InHand, SameMessages, SameQueues DEF RefTarget
<1>5. CASE Release(t, <<>>) /\ Goto(t, "drop") /\ UNCHANGED <<shared, hand>>
  <2>1. Moves(t, "drop", hand[t], <<>>)
    BY <1>1, <1>5 DEF Release, Goto, Moves, WInv, TypeOK
  <2>2. Fits(t, "drop", hand[t], <<>>) /\ KnownTo(hand[t], <<>>)
    BY <1>2, Distinct DEF Fits, KnownTo, Releasing, WithMessage, WithTarget, CallerLabels
  <2> QED
    BY <1>1, <1>2, <1>3, <1>4, <1>5, <2>1, <2>2, StepKeeps, SameShared, ToRelease DEF RefTarget
<1>6. CASE /\ Available(s) /\ shared' = Ref(index[s], 1)
           /\ hand' = [hand EXCEPT ![t].o = index[s]]
           /\ Goto(t, "send") /\ UNCHANGED drop
  <2> DEFINE h == [hand[t] EXCEPT !.o = index[s]]
  <2>1. s \in Services
    BY <1>2, <1>6, Addressed DEF Available, Registered
  <2>2. index[s] \in Remotes /\ Known(index[s]) /\ CanRef(index[s])
    BY <1>6, <2>1 DEF Available, Registered, WInv, TypeOK, PlacedKnown
  <2>3. /\ h = [m |-> hand[t].m, o |-> index[s], rsp |-> None, pri |-> hand[t].pri]
        /\ h \in Hands
    BY <1>2, <1>3, <2>2, HandWith
  <2>4. Moves(t, "send", h, <<>>)
    BY <1>1, <1>2, <1>6 DEF Goto, Moves, WInv, TypeOK
  <2>5. Fits(t, "send", h, <<>>) /\ KnownTo(h, <<>>)
    <3> HIDE DEF h
    <3> QED
      BY <1>2, <2>2, <2>3, Distinct DEF Fits, KnownTo, Releasing, WithMessage, WithTarget, CallerLabels
  <2>6. index[s] \in Objects
    BY <2>2, Distinct
  <2>7. shared' \in [Objects -> SharedType] /\ \A y \in Objects : Known(y) <=> Known(y)'
    <3> HIDE DEF s
    <3>1. 1 \in Int
      OBVIOUS
    <3> QED
      BY <1>6, <2>2, <2>6, <3>1, RefKeeps
  <2>8. WInv'
    <3> HIDE DEF h, s
    <3> QED
      BY <1>1, <1>2, <1>4, <2>3, <2>4, <2>5, <2>7, StepKeeps, ToRelease DEF RefTarget
  <2> QED
    BY <1>1, <1>6, <2>1, <2>2, <2>4, <2>8
<1> QED
  BY <1>5, <1>6 DEF RefTarget, MessageOf

LEMMA SendSyncKeeps ==
  ASSUME WInv, NEW t \in Callers, SendSync(t)
  PROVE  /\ pc[t] = "send" /\ Moves(t, "drop", Keeping(hand[t].m), <<hand[t].o>>)
         /\ WInv'
<1>1. /\ t \in Threads /\ pc[t] = "send" /\ pc[t] \in WithMessage /\ pc[t] \in WithTarget
  BY Distinct DEF SendSync, WithMessage, WithTarget
<1>2. /\ hand[t].m \in Messages /\ router.lock # t
      /\ hand[t].o \in Objects /\ Known(hand[t].o)
  BY <1>1, Distinct, WorkingHand
<1>3. Moves(t, "drop", Keeping(hand[t].m), <<hand[t].o>>)
  BY DEF SendSync, Release, Goto, Moves, MessageOf
<1>4. MessagesOK' /\ QueuesOK'
  BY <1>1, <1>2, InHand, KindKeeps, SameQueues DEF SendSync, MessageOf
<1> QED
  BY <1>1, <1>2, <1>3, <1>4, ToRelease, ReleaseKeeps DEF SendSync

LEMMA SendAsyncKeeps ==
  ASSUME WInv, NEW t \in Callers, SendAsync(t)
  PROVE  /\ pc[t] = "send"
         /\ \/ Moves(t, "push", hand[t], <<>>)
            \/ Moves(t, "drop", Keeping(hand[t].m), <<hand[t].o>>)
         /\ WInv'
<1>1. /\ t \in Threads /\ pc[t] = "send" /\ pc[t] \in WithMessage /\ pc[t] \in WithTarget
  BY Distinct DEF SendAsync, WithMessage, WithTarget
<1>2. /\ hand[t].m \in Messages /\ router.lock # t /\ drop[t] = <<>> /\ hand[t].rsp = None
      /\ hand[t].o \in Objects /\ Known(hand[t].o) /\ hand[t].o \in Remotes
  BY <1>1, Distinct, WorkingHand
<1>3. MessagesOK' /\ QueuesOK' /\ hand[t] \in Hands
  BY <1>1, InHand, SameMessages, SameQueues DEF SendAsync
<1>4. CASE Goto(t, "push") /\ UNCHANGED <<hand, drop>>
  <2>1. Moves(t, "push", hand[t], <<>>)
    BY <1>1, <1>2, <1>4 DEF Goto, Moves, WInv, TypeOK
  <2>2. Fits(t, "push", hand[t], <<>>) /\ KnownTo(hand[t], <<>>)
    BY <1>2, Distinct DEF Fits, KnownTo, Releasing, WithMessage, WithTarget, CallerLabels
  <2> QED
    BY <1>1, <1>2, <1>3, <2>1, <2>2, ToRelease, StepKeeps, SameShared DEF SendAsync
<1>5. CASE /\ hand' = [hand EXCEPT ![t] = Keeping(MessageOf(t))]
           /\ Release(t, <<hand[t].o>>) /\ Goto(t, "drop")
  <2>1. Moves(t, "drop", Keeping(hand[t].m), <<hand[t].o>>)
    BY <1>5 DEF Release, Goto, Moves, MessageOf
  <2> QED
    BY <1>1, <1>2, <1>3, <2>1, ToRelease, ReleaseKeeps DEF SendAsync
<1> QED
  BY <1>4, <1>5 DEF SendAsync

LEMMA PushKeepsAll ==
  ASSUME WInv, NEW t \in Callers, Push(t)
  PROVE  /\ pc[t] = "push" /\ hand[t].m \in Messages /\ hand[t].o \in Remotes
         /\ remote[hand[t].o].dispatcher \in Dispatchers /\ hand[t].pri \in 0..(Levels - 1)
         /\ \/ Moves(t, "drop", Keeping(hand[t].m), <<hand[t].o>>) /\ UNCHANGED queue
            \/ /\ Moves(t, "drop", Nothing, <<hand[t].o>>)
               /\ ~IsFull(remote[hand[t].o].dispatcher, hand[t].pri)
               /\ queue' = Enqueued(remote[hand[t].o].dispatcher, hand[t].pri, hand[t].m)
         /\ WInv'
<1> DEFINE d == remote[hand[t].o].dispatcher
           p == hand[t].pri
<1>1. /\ t \in Threads /\ pc[t] = "push" /\ pc[t] \in WithMessage /\ pc[t] \in WithTarget
  BY Distinct DEF Push, WithMessage, WithTarget
<1>2. /\ hand[t].m \in Messages /\ hand[t].o \in Remotes
      /\ hand[t].o \in Objects /\ Known(hand[t].o)
  BY <1>1, Distinct, WorkingHand
<1>3. d \in Dispatchers /\ p \in 0..(Levels - 1)
  <2>1. hand[t] \in Hands
    BY <1>1, InHand
  <2> QED
    BY <1>2, <2>1 DEF WInv, PlacedKnown, Hands
<1>4. MessagesOK'
  BY <1>1, InHand, SameMessages DEF Push
<1>5. CASE IsFull(d, p) /\ hand' = [hand EXCEPT ![t] = Keeping(MessageOf(t))] /\ UNCHANGED queue
  <2>1. Moves(t, "drop", Keeping(hand[t].m), <<hand[t].o>>)
    BY <1>5 DEF Push, Release, Goto, Moves, MessageOf
  <2>2. QueuesOK'
    BY <1>1, <1>5, InHand, SameQueues
  <2> QED
    BY <1>1, <1>2, <1>3, <1>4, <1>5, <2>1, <2>2, ToRelease, ReleaseKeeps DEF Push
<1>6. CASE ~IsFull(d, p) /\ queue' = Enqueued(d, p, MessageOf(t)) /\ hand' = [hand EXCEPT ![t] = Nothing]
  <2>1. Moves(t, "drop", Nothing, <<hand[t].o>>)
    BY <1>6 DEF Push, Release, Goto, Moves
  <2>2. QueuesOK'
    BY <1>1, <1>2, <1>3, <1>6, InHand, EnqueueKeeps DEF MessageOf
  <2> QED
    BY <1>1, <1>2, <1>3, <1>4, <1>6, <2>1, <2>2, ToRelease, ReleaseKeeps DEF Push, MessageOf
<1> QED
  BY <1>5, <1>6 DEF Push

-----------------------------------------------------------------------------
(* The steps of dispatchers' threads. *)

\* At the head of its loop a dispatcher has nothing.
LEMMA LoopHand ==
  ASSUME WInv, NEW d \in Dispatchers, pc[d] \in {"begin", "check", "pop", "drain"}
  PROVE  /\ d \in Threads /\ drop[d] = <<>> /\ router.lock # d /\ pc[d] # "off" /\ Known(d)
         /\ hand[d] \in Hands /\ hand[d].m = None /\ hand[d].o = None /\ hand[d].rsp = None
<1>1. d \in Threads /\ pc[d] \notin Releasing /\ d \notin Callers /\ d \in Objects
  BY Distinct DEF Releasing
<1>2. /\ Fits(d, pc[d], hand[d], drop[d]) /\ hand[d] \in Hands
      /\ (router.lock = d => pc[d] \in Releasing)
  BY <1>1, InHand
<1>3. Known(d)
  BY DEF WInv, UnknownOff
<1> QED
  BY <1>1, <1>2, <1>3 DEF Fits, WithMessage, WithTarget

LEMMA BeginThreadKeeps ==
  ASSUME WInv, NEW d \in Dispatchers, BeginThread(d)
  PROVE  /\ Moves(d, "check", hand[d], <<>>) /\ pc[d] = "begin"
         /\ shared'[d] = [status |-> "RUNNING", refs |-> shared[d].refs + 1]
         /\ \A x \in Objects \ {d} : shared'[x] = shared[x]
         /\ WInv'
<1>1. pc[d] = "begin"
  BY DEF BeginThread
<1>2. Moves(d, "check", hand[d], <<>>)
  BY <1>1, LoopHand DEF BeginThread, Goto, Moves, WInv, TypeOK
<1>3. Fits(d, "check", hand[d], <<>>) /\ KnownTo(hand[d], <<>>)
  BY <1>1, LoopHand, Distinct DEF Fits, KnownTo, WithMessage, WithTarget, Releasing, DispatcherLabels
<1>4. d \in Objects /\ Known(d) /\ shared \in [Objects -> SharedType]
  BY <1>1, LoopHand, Distinct DEF WInv, TypeOK, SharedType
<1>5. shared' = [Ref(d, 1) EXCEPT ![d].status = "RUNNING"]
  BY DEF BeginThread
<1>6. /\ shared' \in [Objects -> SharedType]
      /\ \A y \in Objects : Known(y) <=> Known(y)'
      /\ shared'[d] = [status |-> "RUNNING", refs |-> shared[d].refs + 1]
      /\ \A x \in Objects \ {d} : shared'[x] = shared[x]
  <2>1. /\ Ref(d, 1) \in [Objects -> SharedType]
        /\ Ref(d, 1)[d] = [status |-> shared[d].status, refs |-> shared[d].refs + 1]
        /\ \A x \in Objects \ {d} : Ref(d, 1)[x] = shared[x]
    BY <1>4 DEF Ref, SharedType
  <2>2. "RUNNING" \in Statuses
    BY DEF Statuses, UpToRunning
  <2> QED
    BY <1>4, <1>5, <2>1, <2>2 DEF SharedType, Known
<1>7. QueuesOK' /\ MessagesOK'
  BY <1>1, LoopHand, InHand, SameQueues, SameMessages DEF BeginThread
<1> QED
  BY <1>1, <1>2, <1>3, <1>6, <1>7, LoopHand, StepKeeps, ToRelease DEF BeginThread

LEMMA StopRunningKeeps ==
  ASSUME WInv, NEW d \in Dispatchers, StopRunning(d)
  PROVE  Moves(d, "drain", hand[d], <<>>) /\ pc[d] = "check" /\ WInv'
<1>1. pc[d] = "check"
  BY DEF StopRunning
<1>2. Moves(d, "drain", hand[d], <<>>)
  BY <1>1, LoopHand DEF StopRunning, Goto, Moves, WInv, TypeOK
<1>3. Fits(d, "drain", hand[d], <<>>) /\ KnownTo(hand[d], <<>>)
  BY <1>1, LoopHand, Distinct DEF Fits, KnownTo, WithMessage, WithTarget, Releasing, DispatcherLabels
<1>4. QueuesOK' /\ MessagesOK'
  BY <1>1, LoopHand, InHand, SameQueues, SameMessages DEF StopRunning
<1> QED
  BY <1>1, <1>2, <1>3, <1>4, LoopHand, StepKeeps, SameShared, ToRelease DEF StopRunning

LEMMA PopLevelKeeps ==
  ASSUME WInv, NEW d \in Dispatchers, PopLevel(d)
  PROVE  /\ pc[d] \in {"check", "pop"} /\ hand[d].pri \in 0..(Levels - 1)
         /\ \/ /\ queue[d][hand[d].pri] # <<>>
               /\ Moves(d, "handle", Keeping(Head(queue[d][hand[d].pri])), <<>>)
               /\ queue' = [queue EXCEPT ![d][hand[d].pri] = Tail(@)]
            \/ \E label \in {"pop", "check"}, h \in Hands :
                  /\ Moves(d, label, h, <<>>) /\ UNCHANGED queue
                  /\ h.m = None /\ h.o = None /\ h.rsp = None
         /\ WInv'
<1> DEFINE p == hand[d].pri
<1>1. pc[d] \in {"check", "pop"} /\ pc[d] \in {"begin", "check", "pop", "drain"}
  BY DEF PopLevel
<1>2. /\ d \in Threads /\ drop[d] = <<>> /\ router.lock # d /\ pc[d] # "off"
      /\ hand[d] \in Hands /\ hand[d].m = None /\ hand[d].o = None /\ hand[d].rsp = None
  BY <1>1, LoopHand
<1>3. p \in 0..(Levels - 1)
  BY <1>2 DEF Hands
<1>4. MessagesOK' /\ QueuesOK
  BY <1>2, InHand, SameMessages DEF PopLevel
<1>5. CASE /\ queue[d][p] # <<>>
           /\ hand' = [hand EXCEPT ![d] = Keeping(Head(queue[d][p]))]
           /\ queue' = [queue EXCEPT ![d][p] = Tail(@)]
           /\ Goto(d, "handle")
  <2>1. Head(queue[d][p]) \in Messages /\ QueuesOK'
    BY <1>3, <1>4, <1>5, DequeueKeeps
  <2>2. Moves(d, "handle", Keeping(Head(queue[d][p])), <<>>)
    BY <1>2, <1>5 DEF PopLevel, Goto, Moves, WInv, TypeOK
  <2>3. Fits(d, "handle", Keeping(Head(queue[d][p])), <<>>)
    <3> HIDE DEF p
    <3>1. ASSUME NEW m \in Messages PROVE Fits(d, "handle", Keeping(m), <<>>)
      BY HandsAre, Distinct DEF Fits, WithMessage, WithTarget, Releasing, DispatcherLabels
    <3> QED
      BY <2>1, <3>1
  <2>4. WInv'
    <3> HIDE DEF p
    <3> QED
      BY <1>2, <1>4, <2>1, <2>2, <2>3, HandsAre, StepKeeps, SameShared, ToRelease DEF PopLevel
  <2> QED
    BY <1>1, <1>3, <1>5, <2>2, <2>4
<1>6. CASE /\ hand' = [hand EXCEPT ![d].pri = IF p + 1 < Levels THEN p + 1 ELSE 0]
           /\ Goto(d, IF p + 1 < Levels THEN "pop" ELSE "check")
           /\ UNCHANGED queue
  <2> DEFINE next  == IF p + 1 < Levels THEN p + 1 ELSE 0
             label == IF p + 1 < Levels THEN "pop" ELSE "check"
             h     == [hand[d] EXCEPT !.pri = next]
  <2>1. next \in 0..(Levels - 1) /\ label \in {"pop", "check"}
    BY <1>3, MessageBounds
  <2>2. h = [m |-> None, o |-> None, rsp |-> None, pri |-> next] /\ h \in Hands
    <3> HIDE DEF next
    <3> QED
      BY <1>2, <2>1 DEF Hands
  <2>3. Moves(d, label, h, <<>>)
    <3> HIDE DEF next, label
    <3>1. hand' = [hand EXCEPT ![d].pri = next] /\ pc' = [pc EXCEPT ![d] = label]
      BY <1>6 DEF Goto, next, label
    <3> QED
      BY <1>2, <3>1 DEF PopLevel, Moves, WInv, TypeOK
  <2>4. Fits(d, label, h, <<>>) /\ KnownTo(h, <<>>)
    <3> HIDE DEF h, label, next
    <3> QED
      BY <2>1, <2>2, Distinct DEF Fits, KnownTo, WithMessage, WithTarget, Releasing, DispatcherLabels
  <2>5. QueuesOK'
    BY <1>4, <1>6, SameQueues
  <2>6. WInv'
    <3> HIDE DEF h, label, p, next
    <3> QED
      BY <1>2, <1>4, <2>2, <2>3, <2>4, <2>5, StepKeeps, SameShared, ToRelease DEF PopLevel
  <2>7. h.m = None /\ h.o = None /\ h.rsp = None
    <3> HIDE DEF h
    <3> QED
      BY <2>2
  <2> QED
    <3> HIDE DEF h, label, next
    <3> QED
      BY <1>1, <1>3, <1>6, <2>1, <2>2, <2>3, <2>6, <2>7
<1> QED
  BY <1>5, <1>6 DEF PopLevel

\* Giving up frees the message and releases the objects.
LEMMA GiveUpIs ==
  ASSUME WInv, NEW d \in Dispatchers, pc[d] \in WithMessage, NEW err \in {"ok", "full", "failed"},
         NEW xs, GiveUp(d, err, xs)
  PROVE  /\ Moves(d, "drop", Nothing, xs) /\ MessagesOK'
         /\ message' = [message EXCEPT ![hand[d].m] = Freed(0, err)]
<1>1. hand[d].m \in Messages /\ MessagesOK
  BY Distinct, WorkingHand, InHand
<1>2. Moves(d, "drop", Nothing, xs)
  BY DEF GiveUp, Release, Goto, Moves
<1>3. message' = [message EXCEPT ![hand[d].m] = Freed(0, err)]
  BY DEF GiveUp, MessageOf
<1>4. Freed(0, err) \in Contexts /\ Freed(0, err).state = "freed"
  BY FreedIs
<1> QED
  BY <1>1, <1>2, <1>3, <1>4, MessageKeeps

LEMMA HandleResponseKeeps ==
  ASSUME WInv, NEW d \in Dispatchers, HandleResponse(d), message[hand[d].m].state = "live"
  PROVE  /\ pc[d] = "handle" /\ Moves(d, "check", Nothing, <<>>)
         /\ message' = [message EXCEPT ![hand[d].m] = Freed(1, "ok")]
         /\ WInv'
<1>1. pc[d] = "handle" /\ pc[d] \in WithMessage /\ d \in Threads /\ pc[d] # "off"
  BY Distinct DEF HandleResponse, WithMessage
<1>2. hand[d].m \in Messages /\ drop[d] = <<>> /\ router.lock # d
  BY <1>1, WorkingHand
<1>3. Moves(d, "check", Nothing, <<>>)
  BY <1>1, <1>2 DEF HandleResponse, Goto, Moves, WInv, TypeOK
<1>4. message[hand[d].m].told = 0
  BY <1>2 DEF WInv, ToldLater
<1>5. message' = [message EXCEPT ![hand[d].m] = Freed(1, "ok")]
  <2>1. message' = [message EXCEPT ![hand[d].m] = Freed(message[hand[d].m].told + 1, "ok")]
    BY DEF HandleResponse, MessageOf
  <2> QED
    BY <1>4, <2>1
<1>6. Freed(1, "ok") \in Contexts /\ Freed(1, "ok").state = "freed"
  BY FreedIs
<1>7. MessagesOK' /\ QueuesOK'
  BY <1>1, <1>2, <1>5, <1>6, InHand, MessageKeeps, SameQueues DEF HandleResponse
<1>8. Fits(d, "check", Nothing, <<>>)
  BY HandsAre, Distinct DEF Fits, WithMessage, WithTarget, Releasing, DispatcherLabels
<1> QED
  BY <1>1, <1>2, <1>3, <1>5, <1>7, <1>8, HandsAre, StepKeeps, SameShared, ToRelease DEF HandleResponse

LEMMA RefHandlerKeeps ==
  ASSUME WInv, NEW d \in Dispatchers, RefHandler(d)
  PROVE  /\ pc[d] = "handle"
         /\ \/ /\ Moves(d, "drop", Nothing, <<>>) /\ UNCHANGED shared
               /\ message' = [message EXCEPT ![hand[d].m] = Freed(0, "failed")]
            \/ /\ UNCHANGED message
               /\ \E s \in Services :
                     /\ index[s] \in Remotes /\ CanRef(index[s]) /\ shared' = Ref(index[s], 1)
                     /\ Moves(d, "exec", [hand[d] EXCEPT !.o = index[s]], <<>>)
         /\ WInv'
<1> DEFINE s == message[hand[d].m].to
<1>1. /\ d \in Threads /\ pc[d] = "handle" /\ pc[d] \in WithMessage /\ pc[d] \notin WithTarget
      /\ pc[d] \notin {"append", "push"} /\ pc[d] # "off"
  BY Distinct DEF RefHandler, WithMessage, WithTarget
<1>2. /\ hand[d].m \in Messages /\ drop[d] = <<>> /\ router.lock # d
      /\ hand[d].o = None /\ hand[d].rsp = None
  BY <1>1, WorkingHand
<1>3. hand[d] \in Hands /\ QueuesOK'
  BY <1>1, InHand, SameQueues DEF RefHandler
<1>4. CASE GiveUp(d, "failed", <<>>) /\ UNCHANGED shared
  BY <1>1, <1>3, <1>4, GiveUpIs, ReleaseKeeps, ToRelease DEF RefHandler
<1>5. CASE /\ Available(s) /\ shared' = Ref(index[s], 1)
           /\ hand' = [hand EXCEPT ![d].o = index[s]]
           /\ Goto(d, "exec") /\ UNCHANGED <<message, drop>>
  <2> DEFINE h == [hand[d] EXCEPT !.o = index[s]]
  <2>1. s \in Services
    BY <1>2, <1>5, Addressed DEF Available, Registered
  <2>2. index[s] \in Remotes /\ Known(index[s]) /\ CanRef(index[s])
    BY <1>5, <2>1 DEF Available, Registered, WInv, TypeOK, PlacedKnown
  <2>3. /\ h = [m |-> hand[d].m, o |-> index[s], rsp |-> None, pri |-> hand[d].pri]
        /\ h \in Hands
    BY <1>2, <1>3, <2>2, HandWith
  <2>4. Moves(d, "exec", h, <<>>)
    BY <1>1, <1>2, <1>5 DEF Goto, Moves, WInv, TypeOK
  <2>5. Fits(d, "exec", h, <<>>) /\ KnownTo(h, <<>>)
    <3> HIDE DEF h
    <3> QED
      BY <1>2, <2>2, <2>3, Distinct DEF Fits, KnownTo, Releasing, WithMessage, WithTarget, DispatcherLabels
  <2>6. index[s] \in Objects
    BY <2>2, Distinct
  <2>7. shared' \in [Objects -> SharedType] /\ \A y \in Objects : Known(y) <=> Known(y)'
    <3> HIDE DEF s
    <3>1. 1 \in Int
      OBVIOUS
    <3> QED
      BY <1>5, <2>2, <2>6, <3>1, RefKeeps
  <2>8. MessagesOK'
    BY <1>1, <1>5, InHand, SameMessages
  <2>9. WInv'
    <3> HIDE DEF h, s
    <3> QED
      BY <1>1, <1>2, <1>3, <2>3, <2>4, <2>5, <2>7, <2>8, StepKeeps, ToRelease DEF RefHandler
  <2> QED
    BY <1>1, <1>5, <2>1, <2>2, <2>4, <2>9
<1> QED
  BY <1>4, <1>5 DEF RefHandler, MessageOf

LEMMA ExecRequestKeeps ==
  ASSUME WInv, NEW d \in Dispatchers, ExecRequest(d)
  PROVE  /\ pc[d] = "exec"
         /\ \/ Moves(d, "reply", hand[d], <<>>) /\ message' = [message EXCEPT ![hand[d].m].kind = "rsp"]
            \/ Moves(d, "drop", Nothing, <<hand[d].o>>) /\ message' = Forget({hand[d].m})
         /\ WInv'
<1>1. /\ d \in Threads /\ pc[d] = "exec" /\ pc[d] \in WithMessage /\ pc[d] \in WithTarget
      /\ pc[d] \notin {"append", "push"} /\ pc[d] # "off"
  BY Distinct DEF ExecRequest, WithMessage, WithTarget
<1>2. /\ hand[d].m \in Messages /\ drop[d] = <<>> /\ router.lock # d
      /\ hand[d].o \in Remotes /\ Known(hand[d].o) /\ hand[d].rsp = None /\ hand[d].o \in Objects
  BY <1>1, Distinct, WorkingHand
<1>3. hand[d] \in Hands /\ QueuesOK' /\ MessagesOK
  BY <1>1, InHand, SameQueues DEF ExecRequest
<1>4. CASE /\ message' = [message EXCEPT ![MessageOf(d)].kind = "rsp"]
           /\ Goto(d, "reply") /\ UNCHANGED <<hand, drop>>
  <2>1. Moves(d, "reply", hand[d], <<>>)
    BY <1>1, <1>2, <1>4 DEF Goto, Moves, WInv, TypeOK
  <2>2. Fits(d, "reply", hand[d], <<>>) /\ KnownTo(hand[d], <<>>)
    BY <1>2, Distinct DEF Fits, KnownTo, Releasing, WithMessage, WithTarget, DispatcherLabels
  <2>3. MessagesOK'
    BY <1>2, <1>3, <1>4, KindKeeps DEF MessageOf
  <2> QED
    BY <1>1, <1>2, <1>3, <1>4, <2>1, <2>2, <2>3, ToRelease, StepKeeps, SameShared DEF ExecRequest, MessageOf
<1>5. CASE /\ message' = Forget({MessageOf(d)})
           /\ hand' = [hand EXCEPT ![d] = Nothing]
           /\ Release(d, <<hand[d].o>>) /\ Goto(d, "drop")
  <2>1. Moves(d, "drop", Nothing, <<hand[d].o>>)
    BY <1>5 DEF Release, Goto, Moves
  <2>2. MessagesOK'
    BY <1>3, <1>5, ForgetKeeps
  <2> QED
    BY <1>1, <1>2, <1>3, <1>5, <2>1, <2>2, ToRelease, ReleaseKeeps DEF ExecRequest, MessageOf
<1> QED
  BY <1>4, <1>5 DEF ExecRequest

LEMMA RefSenderKeeps ==
  ASSUME WInv, NEW d \in Dispatchers, RefSender(d)
  PROVE  /\ pc[d] = "reply"
         /\ \/ /\ Moves(d, "drop", Nothing, <<hand[d].o>>) /\ UNCHANGED shared
               /\ message' = [message EXCEPT ![hand[d].m] = Freed(0, "failed")]
            \/ /\ UNCHANGED message
               /\ \E s \in Services :
                     /\ index[s] \in Remotes /\ CanRef(index[s]) /\ shared' = Ref(index[s], 1)
                     /\ Moves(d, "append", [hand[d] EXCEPT !.rsp = index[s]], <<>>)
         /\ WInv'
<1> DEFINE s == message[hand[d].m].from
<1>1. /\ d \in Threads /\ pc[d] = "reply" /\ pc[d] \in WithMessage /\ pc[d] \in WithTarget
      /\ pc[d] \notin {"append", "push"} /\ pc[d] # "off"
  BY Distinct DEF RefSender, WithMessage, WithTarget
<1>2. /\ hand[d].m \in Messages /\ drop[d] = <<>> /\ router.lock # d
      /\ hand[d].o \in Remotes /\ Known(hand[d].o) /\ hand[d].rsp = None /\ hand[d].o \in Objects
  BY <1>1, Distinct, WorkingHand
<1>3. hand[d] \in Hands /\ QueuesOK'
  BY <1>1, InHand, SameQueues DEF RefSender
<1>4. CASE GiveUp(d, "failed", <<hand[d].o>>) /\ UNCHANGED shared
  BY <1>1, <1>2, <1>3, <1>4, GiveUpIs, ReleaseKeeps, ToRelease DEF RefSender
<1>5. CASE /\ Available(s) /\ shared' = Ref(index[s], 1)
           /\ hand' = [hand EXCEPT ![d].rsp = index[s]]
           /\ Goto(d, "append") /\ UNCHANGED <<message, drop>>
  <2> DEFINE h == [hand[d] EXCEPT !.rsp = index[s]]
  <2>1. s \in Services
    BY <1>2, <1>5, Addressed DEF Available, Registered
  <2>2. index[s] \in Remotes /\ Known(index[s]) /\ CanRef(index[s])
    BY <1>5, <2>1 DEF Available, Registered, WInv, TypeOK, PlacedKnown
  <2>3. /\ h = [m |-> hand[d].m, o |-> hand[d].o, rsp |-> index[s], pri |-> hand[d].pri]
        /\ h \in Hands
    BY <1>2, <1>3, <2>2, HandWith
  <2>4. Moves(d, "append", h, <<>>)
    BY <1>1, <1>2, <1>5 DEF Goto, Moves, WInv, TypeOK
  <2>5. Fits(d, "append", h, <<>>) /\ KnownTo(h, <<>>)
    <3> HIDE DEF h
    <3> QED
      BY <1>2, <2>2, <2>3, Distinct DEF Fits, KnownTo, Releasing, WithMessage, WithTarget, DispatcherLabels
  <2>6. index[s] \in Objects
    BY <2>2, Distinct
  <2>7. shared' \in [Objects -> SharedType] /\ \A y \in Objects : Known(y) <=> Known(y)'
    <3> HIDE DEF s
    <3>1. 1 \in Int
      OBVIOUS
    <3> QED
      BY <1>5, <2>2, <2>6, <3>1, RefKeeps
  <2>8. MessagesOK'
    BY <1>1, <1>5, InHand, SameMessages
  <2>9. WInv'
    <3> HIDE DEF h, s
    <3> QED
      BY <1>1, <1>2, <1>3, <2>3, <2>4, <2>5, <2>7, <2>8, StepKeeps, ToRelease DEF RefSender
  <2> QED
    BY <1>1, <1>5, <2>1, <2>2, <2>4, <2>9
<1> QED
  BY <1>4, <1>5 DEF RefSender, MessageOf

\* Both services of a response.
LEMMA BothHeld ==
  ASSUME WInv, NEW d \in Dispatchers, pc[d] \in {"append", "push"}
  PROVE  /\ d \in Threads /\ pc[d] \in WithMessage /\ pc[d] # "off"
         /\ hand[d].m \in Messages /\ drop[d] = <<>> /\ router.lock # d
         /\ hand[d].o \in Remotes /\ hand[d].rsp \in Remotes
         /\ Both(d) = <<hand[d].o, hand[d].rsp>> /\ Both(d) \in Seq(Objects) /\ KnownTo(Nothing, Both(d))
         /\ ReplyVia(d) \in Dispatchers
         /\ hand[d] \in Hands /\ KnownTo(hand[d], <<>>)
<1>1. /\ d \in Threads /\ pc[d] \in WithMessage /\ pc[d] \in WithTarget /\ pc[d] # "off"
  BY Distinct DEF WithMessage, WithTarget
<1>2. /\ hand[d].m \in Messages /\ drop[d] = <<>> /\ router.lock # d
      /\ hand[d].o \in Remotes /\ Known(hand[d].o) /\ hand[d].rsp \in Remotes /\ Known(hand[d].rsp)
  BY <1>1, WorkingHand
<1>3. Both(d) = <<hand[d].o, hand[d].rsp>> /\ hand[d].o \in Objects /\ hand[d].rsp \in Objects
  BY <1>2, Distinct DEF Both
<1>4. ReplyVia(d) \in Dispatchers
  BY <1>2 DEF ReplyVia, WInv, PlacedKnown
<1>5. hand[d] \in Hands
  BY <1>1, InHand
<1>6. KnownTo(hand[d], <<>>)
  BY <1>2 DEF KnownTo
<1> QED
  BY <1>1, <1>2, <1>3, <1>4, <1>5, <1>6, ToRelease

LEMMA AppendReplyKeeps ==
  ASSUME WInv, NEW d \in Dispatchers, AppendReply(d)
  PROVE  /\ pc[d] = "append"
         /\ \/ Moves(d, "push", hand[d], <<>>) /\ UNCHANGED message
            \/ /\ Moves(d, "drop", Nothing, <<hand[d].o, hand[d].rsp>>)
               /\ message' = [message EXCEPT ![hand[d].m] = Freed(0, "failed")]
         /\ WInv'
<1>1. pc[d] = "append" /\ pc[d] \in {"append", "push"}
  BY DEF AppendReply
<1>2. QueuesOK'
  BY <1>1, BothHeld, InHand, SameQueues DEF AppendReply
<1>3. CASE Goto(d, "push") /\ UNCHANGED <<message, hand, drop>>
  <2>1. Moves(d, "push", hand[d], <<>>)
    BY <1>1, <1>3, BothHeld DEF Goto, Moves, WInv, TypeOK
  <2>2. Fits(d, "push", hand[d], <<>>)
    BY <1>1, BothHeld, Distinct DEF Fits, Releasing, WithMessage, WithTarget, DispatcherLabels
  <2>3. MessagesOK'
    BY <1>1, <1>3, BothHeld, InHand, SameMessages
  <2> QED
    BY <1>1, <1>2, <1>3, <2>1, <2>2, <2>3, BothHeld, ToRelease, StepKeeps, SameShared DEF AppendReply
<1>4. CASE GiveUp(d, "failed", Both(d))
  BY <1>1, <1>2, <1>4, BothHeld, GiveUpIs, ReleaseKeeps DEF AppendReply
<1> QED
  BY <1>3, <1>4 DEF AppendReply

LEMMA PushReplyKeeps ==
  ASSUME WInv, NEW d \in Dispatchers, PushReply(d)
  PROVE  /\ pc[d] = "push" /\ hand[d].m \in Messages /\ ReplyVia(d) \in Dispatchers
         /\ Moves(d, "drop", Nothing, <<hand[d].o, hand[d].rsp>>)
         /\ \/ UNCHANGED queue /\ message' = [message EXCEPT ![hand[d].m] = Freed(0, "full")]
            \/ /\ ~IsFull(ReplyVia(d), 0)
               /\ queue' = Enqueued(ReplyVia(d), 0, hand[d].m) /\ UNCHANGED message
         /\ WInv'
<1>1. pc[d] = "push" /\ pc[d] \in {"append", "push"}
  BY DEF PushReply
<1>2. QueuesOK /\ MessagesOK
  BY <1>1, BothHeld, InHand
<1>3. CASE GiveUp(d, "full", Both(d)) /\ UNCHANGED queue
  <2>1. QueuesOK'
    BY <1>2, <1>3, SameQueues
  <2> QED
    BY <1>1, <1>3, <2>1, BothHeld, GiveUpIs, ReleaseKeeps DEF PushReply
<1>4. CASE /\ ~IsFull(ReplyVia(d), 0)
           /\ queue' = Enqueued(ReplyVia(d), 0, MessageOf(d))
           /\ hand' = [hand EXCEPT ![d] = Nothing]
           /\ Release(d, Both(d)) /\ Goto(d, "drop")
           /\ UNCHANGED message
  <2>1. Moves(d, "drop", Nothing, Both(d))
    BY <1>4 DEF Release, Goto, Moves
  <2>2. 0 \in 0..(Levels - 1)
    BY MessageBounds
  <2>3. QueuesOK'
    BY <1>1, <1>2, <1>4, <2>2, BothHeld, EnqueueKeeps DEF MessageOf
  <2>4. MessagesOK'
    BY <1>2, <1>4, SameMessages
  <2> QED
    BY <1>1, <1>4, <2>1, <2>3, <2>4, BothHeld, ReleaseKeeps DEF PushReply, MessageOf
<1> QED
  BY <1>3, <1>4 DEF PushReply

\* A thread that releases: what it has in hand, and nothing it works with.
LEMMA ReleasingHand ==
  ASSUME WInv, NEW t \in Threads, pc[t] \in Releasing
  PROVE  /\ hand[t] \in Hands /\ hand[t].rsp = None /\ KnownTo(hand[t], drop[t])
         /\ hand[t].o = None \/ (hand[t].o = t /\ t \in Dispatchers)
         /\ t \in Dispatchers => hand[t].m = None
         /\ drop[t] \in Seq(Objects) /\ pc[t] # "off"
         /\ router.lock = t => hand[t].m = None
         /\ QueuesOK /\ MessagesOK
<1>1. /\ Fits(t, pc[t], hand[t], drop[t]) /\ KnownTo(hand[t], drop[t]) /\ hand[t] \in Hands
      /\ drop[t] \in Seq(Objects) /\ QueuesOK /\ MessagesOK
      /\ (router.lock = t => hand[t].m = None)
  BY InHand
<1>2. pc[t] \notin WithMessage /\ pc[t] \notin WithTarget /\ pc[t] \notin {"starting", "append", "push", "off"}
  BY DEF Releasing, WithMessage, WithTarget
<1>3. hand[t].o \in Objects \cup {None}
  BY <1>1 DEF Hands
<1> QED
  BY <1>1, <1>2, <1>3, Distinct DEF Fits

LEMMA HandlingDoneKeeps ==
  ASSUME WInv, NEW d \in Dispatchers, HandlingDone(d)
  PROVE  /\ pc[d] = "drop" /\ drop[d] = <<>> /\ hand[d].m = None
         /\ Moves(d, IF hand[d].o = d THEN "off" ELSE "check", hand[d], <<>>)
         /\ WInv'
<1> DEFINE label == IF hand[d].o = d THEN "off" ELSE "check"
<1>1. d \in Threads /\ pc[d] = "drop" /\ pc[d] \in Releasing /\ drop[d] = <<>>
  BY Distinct DEF HandlingDone, Releasing
<1>2. /\ hand[d] \in Hands /\ hand[d].m = None /\ hand[d].rsp = None /\ KnownTo(hand[d], <<>>)
      /\ hand[d].o = None \/ hand[d].o = d
      /\ QueuesOK /\ MessagesOK /\ d # None
  BY <1>1, ReleasingHand, Distinct
<1>3. Moves(d, label, hand[d], <<>>)
  BY <1>1 DEF HandlingDone, Goto, Moves, WInv, TypeOK
<1>4. Fits(d, label, hand[d], <<>>)
  BY <1>2, Distinct DEF Fits, Releasing, WithMessage, WithTarget, DispatcherLabels
<1>5. d \notin Callers
  BY Distinct
<1>6. router.lock # d
  BY <1>5, Distinct DEF WInv, TypeOK
<1>7. QueuesOK' /\ MessagesOK'
  BY <1>2, SameQueues, SameMessages DEF HandlingDone
<1>8. pc[d] # "off"
  BY <1>1
<1>9. WInv'
  <2> HIDE DEF label
  <2> QED
    BY <1>1, <1>2, <1>3, <1>4, <1>6, <1>7, <1>8, ToRelease, StepKeeps, SameShared DEF HandlingDone
<1> QED
  BY <1>1, <1>2, <1>3, <1>9

LEMMA DrainKeeps ==
  ASSUME WInv, NEW d \in Dispatchers, Drain(d)
  PROVE  /\ pc[d] = "drain" /\ hand[d].m = None /\ hand[d].o = None /\ hand[d].rsp = None
         /\ \/ /\ Moves(d, "drain", hand[d], <<>>) /\ UNCHANGED shared
               /\ message' = Forget(Queued(d))
               /\ queue' = [queue EXCEPT ![d] = [p \in DOMAIN @ |-> <<>>]]
            \/ /\ Moves(d, "drop", [hand[d] EXCEPT !.o = d], <<d>>)
               /\ shared' = [shared EXCEPT ![d].status = "TODESTROY"]
               /\ UNCHANGED <<queue, message>>
         /\ WInv'
<1>1. pc[d] = "drain" /\ pc[d] \in {"begin", "check", "pop", "drain"}
  BY DEF Drain
<1>2. /\ d \in Threads /\ drop[d] = <<>> /\ router.lock # d /\ pc[d] # "off" /\ Known(d)
      /\ hand[d] \in Hands /\ hand[d].m = None /\ hand[d].o = None /\ hand[d].rsp = None
      /\ d \in Objects /\ d # None
  BY <1>1, LoopHand, Distinct
<1>3. QueuesOK /\ MessagesOK
  BY <1>2, InHand
<1>4. CASE /\ message' = Forget(Queued(d))
           /\ queue' = [queue EXCEPT ![d] = [p \in DOMAIN @ |-> <<>>]]
           /\ UNCHANGED <<shared, pc, hand, drop>>
  <2>1. Moves(d, "drain", hand[d], <<>>)
    BY <1>1, <1>2, <1>4 DEF Moves, WInv, TypeOK
  <2>2. Fits(d, "drain", hand[d], <<>>) /\ KnownTo(hand[d], <<>>)
    BY <1>2, Distinct DEF Fits, KnownTo, WithMessage, WithTarget, Releasing, DispatcherLabels
  <2>3. QueuesOK'
    BY <1>3, <1>4, QueueEmptied
  <2>4. MessagesOK'
    BY <1>3, <1>4, ForgetKeeps
  <2>5. WInv'
    BY <1>2, <1>4, <2>1, <2>2, <2>3, <2>4, StepKeeps, SameShared, ToRelease DEF Drain
  <2> QED
    BY <1>1, <1>2, <1>4, <2>1, <2>5
<1>5. CASE /\ shared' = [shared EXCEPT ![d].status = "TODESTROY"]
           /\ hand' = [hand EXCEPT ![d].o = d]
           /\ Release(d, <<d>>) /\ Goto(d, "drop")
           /\ UNCHANGED <<queue, message>>
  <2> DEFINE h == [hand[d] EXCEPT !.o = d]
  <2>1. Moves(d, "drop", h, <<d>>)
    BY <1>5 DEF Release, Goto, Moves
  <2>2. h = [m |-> None, o |-> d, rsp |-> None, pri |-> hand[d].pri] /\ h \in Hands
    BY <1>2 DEF Hands
  <2>3. /\ Fits(d, "drop", h, <<d>>) /\ KnownTo(h, <<d>>)
    <3> HIDE DEF h
    <3> QED
      BY <1>2, <2>2, Distinct DEF Fits, KnownTo, WithMessage, WithTarget, Releasing, DispatcherLabels
  <2>4. /\ shared' \in [Objects -> SharedType] /\ \A y \in Objects : Known(y) <=> Known(y)'
    <3>1. "TODESTROY" \in Statuses \ {"none"}
      BY DEF Statuses
    <3> QED
      BY <1>2, <1>5, <3>1, StatusKeeps
  <2>5. QueuesOK' /\ MessagesOK'
    BY <1>3, <1>5, SameQueues, SameMessages
  <2>6. WInv'
    <3> HIDE DEF h
    <3> QED
      BY <1>2, <2>1, <2>2, <2>3, <2>4, <2>5, StepKeeps, ToRelease DEF Drain
  <2> QED
    BY <1>1, <1>2, <1>5, <2>1, <2>6
<1> QED
  BY <1>4, <1>5 DEF Drain

(* Disreference.                                                            *)
LEMMA DisrefKeeps ==
  ASSUME WInv, NEW t \in Threads, Disref(t)
  PROVE  /\ drop[t] # <<>> /\ pc[t] \in Releasing
         /\ \E label \in {"drop", "read"}, xs \in Seq(Objects) : Moves(t, label, hand[t], xs)
         /\ \/ UNCHANGED <<queue, message>>
            \/ /\ Head(drop[t]) \in Dispatchers /\ message' = Forget(Queued(Head(drop[t])))
               /\ queue' = [queue EXCEPT ![Head(drop[t])] = [p \in DOMAIN @ |-> <<>>]]
         /\ WInv'
<1> DEFINE x     == Head(drop[t])
           left  == IF pc[t] = "read" THEN shared[x].refs ELSE shared[x].refs - 1
           first == Overlap /\ pc[t] = "drop"
           label == IF first THEN "read" ELSE "drop"
<1>1. pc[t] \in Releasing /\ drop[t] # <<>>
  <2>1. pc[t] = "read" => drop[t] # <<>>
    BY InHand DEF Fits
  <2> QED
    BY <2>1 DEF Disref, Releasing
<1>2. /\ hand[t] \in Hands /\ hand[t].rsp = None /\ KnownTo(hand[t], drop[t])
      /\ hand[t].o = None \/ (hand[t].o = t /\ t \in Dispatchers)
      /\ t \in Dispatchers => hand[t].m = None
      /\ drop[t] \in Seq(Objects) /\ pc[t] # "off"
      /\ router.lock = t => hand[t].m = None
      /\ QueuesOK /\ MessagesOK
  BY <1>1, ReleasingHand
<1>3. x \in Objects /\ Known(x) /\ Tail(drop[t]) \in Seq(Objects) /\ KnownTo(hand[t], Tail(drop[t]))
  <2>1. /\ x = drop[t][1] /\ 1 \in DOMAIN drop[t] /\ Len(drop[t]) \in Nat /\ x \in Objects
        /\ Tail(drop[t]) \in Seq(Objects)
    BY <1>1, <1>2
  <2>2. /\ DOMAIN Tail(drop[t]) = 1..(Len(drop[t]) - 1)
        /\ \A i \in DOMAIN Tail(drop[t]) : Tail(drop[t])[i] = drop[t][i + 1] /\ i + 1 \in DOMAIN drop[t]
    BY <1>1, <1>2
  <2> QED
    BY <1>2, <2>1, <2>2 DEF KnownTo
<1>4. left \in Int
  BY <1>3 DEF WInv, TypeOK
<1>5. ASSUME NEW xs \in Seq(Objects), label = "read" => xs # <<>>
      PROVE  Fits(t, label, hand[t], xs)
  <2>1. label = "read" => Overlap
    OBVIOUS
  <2>2. label \in {"drop", "read"}
    OBVIOUS
  <2> HIDE DEF label
  <2>3. label \in CallerLabels /\ label \in DispatcherLabels /\ label \in Releasing
        /\ label \notin WithMessage /\ label \notin WithTarget /\ label \notin {"append", "push", "starting"}
    BY <2>2 DEF CallerLabels, DispatcherLabels, Releasing, WithMessage, WithTarget
  <2>4. t \in Callers \/ t \in Dispatchers
    BY Distinct
  <2> QED
    BY <1>2, <1>5, <2>1, <2>3, <2>4 DEF Fits
<1>6. label \in {"drop", "read"} /\ label \in Releasing
  BY DEF Releasing
<1>7. CASE /\ shared' = [shared EXCEPT ![x].refs = left]
           /\ drop' = [drop EXCEPT ![t] = IF first THEN @ ELSE Tail(@)]
           /\ UNCHANGED <<queue, message>>
  <2> DEFINE xs == IF first THEN drop[t] ELSE Tail(drop[t])
  <2>1. xs \in Seq(Objects) /\ KnownTo(hand[t], xs) /\ (label = "read" => xs # <<>>)
    BY <1>1, <1>2, <1>3
  <2>2. Moves(t, label, hand[t], xs)
    <3>1. drop' = [drop EXCEPT ![t] = xs]
      BY <1>7
    <3>2. pc' = [pc EXCEPT ![t] = label] /\ hand' = hand
      BY DEF Disref, Goto
    <3> HIDE DEF xs, label
    <3> QED
      BY <3>1, <3>2 DEF Moves, WInv, TypeOK
  <2>3. /\ shared' \in [Objects -> SharedType] /\ \A y \in Objects : Known(y) <=> Known(y)'
    <3> HIDE DEF left, x
    <3> QED
      BY <1>3, <1>4, <1>7 DEF WInv, TypeOK, SharedType, Known
  <2>4. QueuesOK' /\ MessagesOK'
    BY <1>2, <1>7, SameQueues, SameMessages
  <2>5. WInv'
    <3>1. UNCHANGED <<router, index, slots, remote, owned>>
      BY DEF Disref
    <3> HIDE DEF label, xs, x, left, first
    <3> QED
      BY <1>2, <1>5, <1>6, <2>1, <2>2, <2>3, <2>4, <3>1, StepKeeps
  <2> QED
    BY <1>1, <1>6, <1>7, <2>1, <2>2, <2>5
<1>8. CASE /\ ~first
           /\ shared' = [shared EXCEPT ![x] = [status |-> "freed", refs |-> 0]]
           /\ IF x \in Dispatchers
              THEN /\ message' = Forget(Queued(x))
                   /\ queue' = [queue EXCEPT ![x] = [p \in DOMAIN @ |-> <<>>]]
                   /\ Release(t, Tail(drop[t]))
              ELSE /\ Release(t, <<remote[x].dispatcher>> \o Tail(drop[t]))
                   /\ UNCHANGED <<queue, message>>
  <2> DEFINE xs == IF x \in Dispatchers THEN Tail(drop[t])
                   ELSE <<remote[x].dispatcher>> \o Tail(drop[t])
  <2>1. xs \in Seq(Objects) /\ KnownTo(hand[t], xs)
    <3>1. CASE x \in Dispatchers
      BY <1>3, <3>1
    <3>2. CASE x \notin Dispatchers
      <4> DEFINE d == remote[x].dispatcher
                 q == Tail(drop[t])
      <4>1. d \in Objects /\ Known(d)
        BY <1>3, <3>2, Distinct DEF WInv, PlacedKnown
      <4> HIDE DEF d, q
      <4>2. q \in Seq(Objects) /\ KnownTo(hand[t], q)
        BY <1>3 DEF q
      <4>3. /\ <<d>> \o q \in Seq(Objects) /\ DOMAIN (<<d>> \o q) = 1..(Len(q) + 1)
            /\ (<<d>> \o q)[1] = d
            /\ \A i \in 2..(Len(q) + 1) : (<<d>> \o q)[i] = q[i - 1] /\ i - 1 \in DOMAIN q
        BY <4>1, <4>2
      <4>4. KnownTo(hand[t], <<d>> \o q)
        <5>1. \A i \in 1..(Len(q) + 1) : i = 1 \/ i \in 2..(Len(q) + 1)
          BY <4>2
        <5> QED
          BY <4>1, <4>2, <4>3, <5>1 DEF KnownTo
      <4> QED
        BY <3>2, <4>3, <4>4 DEF d, q
    <3> QED
      BY <3>1, <3>2
  <2>2. Moves(t, "drop", hand[t], xs)
    BY <1>8 DEF Disref, Goto, Release, Moves, WInv, TypeOK
  <2>3. Fits(t, "drop", hand[t], xs)
    <3>1. label = "drop"
      BY <1>8
    <3> QED
      BY <1>5, <2>1, <3>1
  <2>4. /\ shared' \in [Objects -> SharedType] /\ \A y \in Objects : Known(y) <=> Known(y)'
    <3>1. [status |-> "freed", refs |-> 0] \in SharedType
      BY DEF SharedType, Statuses
    <3> HIDE DEF x
    <3> QED
      BY <1>3, <1>8, <3>1, SharedKeeps
  <2>5. QueuesOK' /\ MessagesOK'
    <3> HIDE DEF x
    <3> QED
      BY <1>2, <1>8, SameQueues, SameMessages, ForgetKeeps, QueueEmptied
  <2>6. WInv'
    <3>1. UNCHANGED <<router, index, slots, remote, owned>> /\ "drop" \in Releasing
      BY DEF Disref, Releasing
    <3> HIDE DEF label, xs, x, left, first
    <3> QED
      BY <1>2, <2>1, <2>2, <2>3, <2>4, <2>5, <3>1, StepKeeps
  <2> QED
    <3> HIDE DEF xs
    <3> QED
      BY <1>1, <1>8, <2>1, <2>2, <2>6
<1>9. \/ /\ shared' = [shared EXCEPT ![x].refs = left]
         /\ drop' = [drop EXCEPT ![t] = IF first THEN @ ELSE Tail(@)]
         /\ UNCHANGED <<queue, message>>
      \/ /\ ~first
         /\ shared' = [shared EXCEPT ![x] = [status |-> "freed", refs |-> 0]]
         /\ IF x \in Dispatchers
            THEN /\ message' = Forget(Queued(x))
                 /\ queue' = [queue EXCEPT ![x] = [p \in DOMAIN @ |-> <<>>]]
                 /\ Release(t, Tail(drop[t]))
            ELSE /\ Release(t, <<remote[x].dispatcher>> \o Tail(drop[t]))
                 /\ UNCHANGED <<queue, message>>
  BY DEF Disref
<1> QED
  BY <1>7, <1>8, <1>9

-----------------------------------------------------------------------------
(* The steps that start, register and shut down. *)

RouterOK ==
    /\ router \in [status : {"STOPPED", "RUNNING", "STOPPING"}, lock : Callers \cup {None},
                   starts : 0..MaxStarts]
    /\ index \in [Services -> Remotes \cup {None}]
    /\ slots \in [Slots -> Dispatchers \cup {None}]
    /\ remote \in [Remotes -> [id : Services \cup {None}, dispatcher : Dispatchers \cup {None}]]
    /\ owned \subseteq Services

LEMMA RouterIs == WInv => RouterOK /\ shared \in [Objects -> SharedType] /\ QueuesOK /\ MessagesOK
BY DEF WInv, TypeOK, RouterOK, SharedType, QueuesOK, MessagesOK

LEMMA RouterKeeps ==
  ASSUME WInv, NEW t \in Callers, NEW label, NEW h \in Hands, NEW xs \in Seq(Objects),
         Moves(t, label, h, xs), Fits(t, label, h, xs), KnownTo(h, xs)',
         shared' \in [Objects -> SharedType], \A x \in Objects : Known(x) => Known(x)',
         RouterOK', HoldsMutex', IndexRunning', PlacedKnown', QueuesOK', MessagesOK'
  PROVE  WInv'
<1>1. /\ pc' \in [Threads -> Labels] /\ hand' \in [Threads -> Hands]
      /\ drop' \in [Threads -> Seq(Objects)]
      /\ AllFit' /\ ThreadsKnow'
      /\ \A u \in Threads : pc'[u] \in IF u \in Callers THEN CallerLabels ELSE DispatcherLabels
  BY MovesKeep, Distinct
<1>2. TypeOK'
  BY <1>1 DEF TypeOK, RouterOK, Labels, SharedType, QueuesOK, MessagesOK
<1>3. UnknownOff'
  <2> SUFFICES ASSUME NEW d \in Dispatchers, ~Known(d)' PROVE pc'[d] = "off" /\ hand'[d].o = None
    BY DEF UnknownOff, Known
  <2>1. d \in Objects /\ d \in Threads /\ d # t
    BY Distinct
  <2>2. pc[d] = "off" /\ hand[d].o = None
    BY <2>1 DEF WInv, UnknownOff
  <2> QED
    BY <2>1, <2>2 DEF Moves, WInv, TypeOK
<1> QED
  BY <1>1, <1>2, <1>3 DEF WInv, MessagesOK

\* Where a caller is that begins something, or has nothing to do.
LEMMA IdleHand ==
  ASSUME WInv, NEW t \in Callers, pc[t] \in {"idle", "starting"}
  PROVE  /\ t \in Threads /\ hand[t] \in Hands /\ drop[t] = <<>> /\ router.lock # t
         /\ hand[t].m = None /\ hand[t].rsp = None /\ KnownTo(hand[t], <<>>)
         /\ pc[t] = "idle" => hand[t].o = None
         /\ pc[t] = "starting" => hand[t].o \in Dispatchers /\ hand[t].o \in Objects /\ Known(hand[t].o)
<1>1. t \in Threads /\ pc[t] \notin Releasing
  BY Distinct DEF Releasing
<1>2. /\ Fits(t, pc[t], hand[t], drop[t]) /\ KnownTo(hand[t], drop[t]) /\ hand[t] \in Hands
      /\ (router.lock = t => pc[t] \in Releasing)
  BY <1>1, InHand
<1>3. drop[t] = <<>>
  BY <1>1, <1>2 DEF Fits
<1>4. hand[t].m = None /\ hand[t].rsp = None
  BY <1>1, <1>2, Distinct DEF Fits, WithMessage
<1>5. pc[t] = "idle" => hand[t].o = None
  BY <1>1, <1>2, Distinct DEF Fits, WithTarget
<1>6. pc[t] = "starting" => hand[t].o \in Dispatchers
  BY <1>1, <1>2, Distinct DEF Fits, WithTarget
<1> QED
  BY <1>1, <1>2, <1>3, <1>4, <1>5, <1>6, Distinct DEF KnownTo

\* Nobody else's place changes who holds the mutex.
LEMMA MutexKept ==
  ASSUME WInv, NEW t \in Callers, NEW label, NEW h \in Hands, NEW xs, Moves(t, label, h, xs),
         router'.lock = router.lock, router.lock # t
  PROVE  HoldsMutex'
<1>1. router.lock # None => router.lock \in Threads
  BY Distinct DEF WInv, TypeOK
<1> QED
  BY <1>1 DEF WInv, TypeOK, HoldsMutex, Moves

LEMMA StartKeeps ==
  ASSUME WInv, NEW t \in Callers, Start(t)
  PROVE  WInv'
<1>1. pc[t] = "idle" /\ router.lock = None /\ router.starts < MaxStarts
  BY DEF Start, Unlocked
<1>2. router' = [status |-> "RUNNING", lock |-> None, starts |-> router.starts + 1]
  BY <1>1 DEF Start, WInv, TypeOK
<1>3. UNCHANGED <<pc, hand, drop, shared, queue, message, slots, remote, owned>>
      /\ index' = [s \in Services |-> None]
  BY DEF Start
<1>4. /\ router.starts + 1 \in 0..MaxStarts
  BY <1>1, MessageBounds DEF WInv, TypeOK
<1>5. TypeOK'
  BY <1>2, <1>3, <1>4 DEF WInv, TypeOK
<1>6. AllFit' /\ ThreadsKnow' /\ UnknownOff' /\ ToldLater'
  BY <1>3 DEF WInv, AllFit, ThreadsKnow, UnknownOff, ToldLater, Known, KnownTo, Fits
<1>7. HoldsMutex' /\ IndexRunning' /\ PlacedKnown'
  BY <1>2, <1>3 DEF WInv, HoldsMutex, IndexRunning, PlacedKnown, Known
<1> QED
  BY <1>5, <1>6, <1>7 DEF WInv

LEMMA FreshIs ==
  ASSUME NEW X, NEW x, IsNext(x, Fresh(X))
  PROVE  x \in X /\ shared[x].status = "none" /\ ~Known(x)
BY DEF IsNext, Fresh, Known

LEMMA AddDispatcherKeeps ==
  ASSUME WInv, NEW t \in Callers, NEW d \in Dispatchers, AddDispatcher(t, d)
  PROVE  /\ pc[t] = "idle" /\ pc[d] = "off" /\ hand[t].m = None /\ shared[d].status = "none"
         /\ hand[d].o = None /\ hand[d].m = None /\ hand[d].rsp = None
         /\ hand[t].o = None /\ hand[t].rsp = None /\ drop[t] = <<>>
         /\ hand' = [hand EXCEPT ![t] = [hand[t] EXCEPT !.o = d]]
         /\ WInv'
<1> DEFINE h == [hand[t] EXCEPT !.o = d]
<1>1. /\ pc[t] = "idle" /\ d \in Objects /\ shared[d].status = "none" /\ ~Known(d) /\ d # t
      /\ d \in Threads /\ t \in Threads /\ d \notin Callers /\ d # None
  BY FreshIs, Distinct DEF AddDispatcher
<1>2. /\ hand[t] \in Hands /\ drop[t] = <<>> /\ router.lock # t
      /\ hand[t].m = None /\ hand[t].rsp = None /\ hand[t].o = None
  BY <1>1, IdleHand
<1>3. /\ h = [m |-> None, o |-> d, rsp |-> None, pri |-> hand[t].pri] /\ h \in Hands
  BY <1>1, <1>2 DEF Hands
<1>4. /\ pc' = [pc EXCEPT ![t] = "starting", ![d] = "begin"]
      /\ hand' = [hand EXCEPT ![t] = h] /\ UNCHANGED drop
      /\ shared' = [shared EXCEPT ![d] = [status |-> "STARTTING", refs |-> 1]]
      /\ UNCHANGED <<router, index, slots, remote, queue, message, owned>>
  BY DEF AddDispatcher
<1>5. /\ pc[d] = "off" /\ hand[d].o = None /\ Fits(d, pc[d], hand[d], drop[d])
      /\ hand[d] \in Hands /\ drop[d] \in Seq(Objects) /\ KnownTo(hand[d], drop[d])
      /\ router.lock # d
  <2>1. router.lock # d
    BY <1>1 DEF WInv, TypeOK
  <2> QED
    BY <1>1, <2>1, InHand DEF WInv, UnknownOff
<1>6. shared' \in [Objects -> SharedType] /\ shared'[d].status = "STARTTING"
      /\ \A x \in Objects \ {d} : shared'[x] = shared[x]
  <2>1. [status |-> "STARTTING", refs |-> 1] \in SharedType
    BY DEF SharedType, Statuses, UpToRunning
  <2> QED
    BY <1>1, <1>4, <2>1, RouterIs
<1>7. \A x \in Objects : (Known(x) => Known(x)') /\ (x # d => (Known(x)' <=> Known(x)))
  BY <1>1, <1>6 DEF Known
<1>8. hand[d].m = None /\ hand[d].rsp = None /\ drop[d] = <<>>
  BY <1>1, <1>5, Distinct DEF Fits, WithMessage, WithTarget, Releasing
<1> HIDE DEF h
<1>9. /\ pc'[t] = "starting" /\ pc'[d] = "begin" /\ \A u \in Threads \ {t, d} : pc'[u] = pc[u]
      /\ hand'[t] = h /\ \A u \in Threads \ {t} : hand'[u] = hand[u]
      /\ pc' \in [Threads -> Labels] /\ hand' \in [Threads -> Hands] /\ drop' \in [Threads -> Seq(Objects)]
  BY <1>1, <1>3, <1>4 DEF WInv, TypeOK, Labels, CallerLabels, DispatcherLabels
<1>10. Fits(t, "starting", h, <<>>)
  BY <1>1, <1>3, Distinct DEF Fits, WithMessage, WithTarget, Releasing, CallerLabels
<1>11. Fits(d, "begin", hand[d], <<>>)
  BY <1>1, <1>5, <1>8, Distinct DEF Fits, WithMessage, WithTarget, Releasing, DispatcherLabels
<1>12. AllFit'
  <2> SUFFICES ASSUME NEW u \in Threads PROVE Fits(u, pc'[u], hand'[u], drop'[u])
    BY DEF AllFit, Fits
  <2>1. CASE u = t
    BY <1>2, <1>4, <1>9, <1>10, <2>1
  <2>2. CASE u = d
    BY <1>1, <1>4, <1>8, <1>9, <1>11, <2>2
  <2>3. CASE u # t /\ u # d
    <3>1. pc'[u] = pc[u] /\ hand'[u] = hand[u] /\ drop'[u] = drop[u]
      BY <1>4, <1>9, <2>3
    <3> QED
      BY <3>1 DEF WInv, AllFit
  <2> QED
    BY <2>1, <2>2, <2>3
<1>13. ThreadsKnow'
  <2> SUFFICES ASSUME NEW u \in Threads PROVE KnownTo(hand[u], drop[u])'
    BY DEF ThreadsKnow, KnownTo, Known
  <2>1. CASE u = t
    BY <1>1, <1>2, <1>3, <1>4, <1>6, <1>9, <2>1 DEF KnownTo, Known
  <2>2. CASE u # t
    <3>1. hand'[u] = hand[u] /\ drop'[u] = drop[u] /\ KnownTo(hand[u], drop[u])
          /\ hand[u] \in Hands /\ drop[u] \in Seq(Objects)
      BY <1>4, <1>9, <2>2, InHand
    <3>2. /\ hand[u].o # None => hand[u].o \in Objects
          /\ hand[u].rsp # None => hand[u].rsp \in Objects
          /\ \A i \in DOMAIN drop[u] : drop[u][i] \in Objects
      BY <3>1, Distinct DEF Hands
    <3> QED
      BY <1>7, <3>1, <3>2 DEF KnownTo, Known
  <2> QED
    BY <2>1, <2>2
<1>14. TypeOK'
  <2>1. \A u \in Threads : pc'[u] \in IF u \in Callers THEN CallerLabels ELSE DispatcherLabels
    BY <1>12 DEF AllFit, Fits
  <2> QED
    BY <1>4, <1>6, <1>9, <2>1 DEF WInv, TypeOK, Labels, SharedType
<1>15. HoldsMutex'
  <2>1. router.lock # None => router.lock \in Threads \ {t, d}
    BY <1>2, <1>5, Distinct DEF WInv, TypeOK
  <2> QED
    BY <1>4, <1>9, <2>1 DEF WInv, HoldsMutex
<1>16. IndexRunning' /\ ToldLater'
  BY <1>4 DEF WInv, IndexRunning, ToldLater
<1>17. PlacedKnown'
  BY <1>4, <1>7, Distinct DEF WInv, TypeOK, PlacedKnown, Known
<1>18. UnknownOff'
  <2>1. ASSUME NEW e \in Dispatchers, ~Known(e)' PROVE pc'[e] = "off" /\ hand'[e].o = None
    <3>1. e \in Objects /\ e \in Threads /\ e # t
      BY Distinct
    <3>2. Known(d)' /\ e # d
      BY <1>6, <2>1 DEF Known
    <3>3. ~Known(e)
      BY <1>7, <2>1, <3>1, <3>2
    <3>4. pc[e] = "off" /\ hand[e].o = None
      BY <3>3 DEF WInv, UnknownOff
    <3>5. pc'[e] = pc[e] /\ hand'[e] = hand[e]
      BY <1>9, <3>1, <3>2
    <3> QED
      BY <3>4, <3>5
  <2> QED
    BY <2>1 DEF UnknownOff, Known
<1> QED
  BY <1>1, <1>2, <1>4, <1>5, <1>8, <1>12, <1>13, <1>14, <1>15, <1>16, <1>17, <1>18 DEF WInv, h

LEMMA RegDispatcherKeeps ==
  ASSUME WInv, NEW t \in Callers, NEW i \in Slots, RegDispatcher(t, i)
  PROVE  /\ pc[t] = "starting" /\ hand[t].o \in Dispatchers /\ hand[t].m = None /\ hand[t].rsp = None
         /\ shared[hand[t].o].status # "STARTTING" /\ drop[t] = <<>>
         /\ \/ /\ Moves(t, "idle", Nothing, <<>>) /\ UNCHANGED shared
               /\ slots[i] = None /\ slots' = [slots EXCEPT ![i] = hand[t].o]
            \/ /\ Moves(t, "drop", Nothing, <<hand[t].o>>) /\ UNCHANGED slots
               /\ shared' = [shared EXCEPT ![hand[t].o].status = "STOPPING"]
         /\ WInv'
<1>0. PICK d \in Dispatchers : d = hand[t].o
  BY IdleHand DEF RegDispatcher
<1>1. /\ pc[t] = "starting" /\ shared[d].status # "STARTTING" /\ router.lock = None
      /\ UNCHANGED <<router, index, remote, queue, message, owned>>
      /\ hand' = [hand EXCEPT ![t] = Nothing]
  BY <1>0 DEF RegDispatcher, Unlocked
<1>2. /\ t \in Threads /\ hand[t] \in Hands /\ drop[t] = <<>> /\ router.lock # t
      /\ hand[t].m = None /\ hand[t].rsp = None
      /\ d \in Objects /\ Known(d)
  BY <1>0, <1>1, IdleHand
<1>3. QueuesOK' /\ MessagesOK' /\ RouterOK
  BY <1>1, RouterIs, SameQueues, SameMessages
<1>4. IndexRunning'
  BY <1>1 DEF WInv, IndexRunning
<1>5. CASE /\ slots[i] = None /\ slots' = [slots EXCEPT ![i] = d]
           /\ Goto(t, "idle") /\ UNCHANGED <<shared, drop>>
  <2>1. Moves(t, "idle", Nothing, <<>>)
    BY <1>1, <1>2, <1>5 DEF Goto, Moves, WInv, TypeOK
  <2>2. Fits(t, "idle", Nothing, <<>>) /\ KnownTo(Nothing, <<>>)'
    BY HandsAre, Distinct DEF Fits, KnownTo, WithMessage, WithTarget, Releasing, CallerLabels
  <2>3. RouterOK' /\ HoldsMutex'
    BY <1>1, <1>2, <1>3, <1>5, <2>1, HandsAre, MutexKept DEF RouterOK
  <2>4. PlacedKnown'
    BY <1>1, <1>2, <1>3, <1>5 DEF WInv, PlacedKnown, Known, RouterOK
  <2>5. shared' \in [Objects -> SharedType] /\ \A x \in Objects : Known(x) => Known(x)'
    BY <1>5, SameShared
  <2> QED
    BY <1>0, <1>1, <1>2, <1>3, <1>4, <1>5, <2>1, <2>2, <2>3, <2>4, <2>5, HandsAre, ToRelease, RouterKeeps
<1>6. CASE /\ shared' = [shared EXCEPT ![d].status = "STOPPING"]
           /\ Release(t, <<d>>) /\ Goto(t, "drop") /\ UNCHANGED slots
  <2>1. Moves(t, "drop", Nothing, <<d>>)
    BY <1>1, <1>6 DEF Goto, Release, Moves
  <2>2. shared' \in [Objects -> SharedType] /\ \A x \in Objects : Known(x) <=> Known(x)'
    <3>1. "STOPPING" \in Statuses \ {"none"}
      BY DEF Statuses
    <3> QED
      BY <1>2, <1>6, <3>1, StatusKeeps
  <2>3. Fits(t, "drop", Nothing, <<d>>) /\ KnownTo(Nothing, <<d>>)'
    <3>1. KnownTo(Nothing, <<d>>)'
      BY <1>2, <2>2, HandsAre DEF KnownTo, Known
    <3> QED
      BY <1>2, <3>1, FitsReleasing
  <2>4. RouterOK' /\ HoldsMutex'
    BY <1>1, <1>2, <1>3, <1>6, <2>1, HandsAre, MutexKept DEF RouterOK
  <2>5. PlacedKnown'
    BY <1>1, <1>2, <1>3, <1>6, <2>2, Distinct DEF WInv, PlacedKnown, Known, RouterOK
  <2>6. <<d>> \in Seq(Objects)
    BY <1>2
  <2> QED
    BY <1>0, <1>1, <1>2, <1>3, <1>4, <1>6, <2>1, <2>2, <2>3, <2>4, <2>5, <2>6, HandsAre, RouterKeeps
<1> QED
  BY <1>0, <1>5, <1>6 DEF RegDispatcher

\* A service that is registered, or whose object is given up.
Registers(t, s, i, r) ==
    /\ pc[t] = "idle" /\ hand[t].m = None /\ hand[t].o = None /\ hand[t].rsp = None
    /\ drop[t] = <<>> /\ shared[r].status = "none"
    /\ slots[i] \in Dispatchers /\ CanRef(slots[i])
    /\ remote' = [remote EXCEPT ![r] = [id |-> s, dispatcher |-> slots[i]]]
    /\ shared'[slots[i]] = [status |-> shared[slots[i]].status, refs |-> shared[slots[i]].refs + 2]
    /\ \A x \in Objects \ {slots[i], r} : shared'[x] = shared[x]
    /\ \/ /\ index[s] = None /\ index' = [index EXCEPT ![s] = r]
          /\ Moves(t, "drop", hand[t], <<slots[i]>>)
          /\ shared'[r] = [status |-> "RUNNING", refs |-> 1]
       \/ /\ UNCHANGED index
          /\ Moves(t, "drop", hand[t], <<slots[i], r>>)
          /\ shared'[r] = [status |-> "TODESTROY", refs |-> 1]

LEMMA InitServiceKeeps ==
  ASSUME WInv, NEW t \in Callers, NEW s \in Services, NEW i \in Slots, NEW r \in Remotes,
         InitService(t, s, i, r)
  PROVE  Registers(t, s, i, r) /\ WInv'
<1>0. /\ pc[t] = "idle" /\ router.lock = None /\ router.status = "RUNNING"
      /\ IsNext(r, Fresh(Remotes)) /\ slots[i] # None /\ CanRef(slots[i])
      /\ UNCHANGED <<router, slots, queue, message, hand>>
      /\ remote' = [remote EXCEPT ![r] = [id |-> s, dispatcher |-> slots[i]]]
  BY DEF InitService, Unlocked
<1>1. PICK d \in Dispatchers : d = slots[i]
  BY <1>0, RouterIs DEF RouterOK
<1>2. /\ t \in Threads /\ hand[t] \in Hands /\ drop[t] = <<>> /\ router.lock # t
      /\ hand[t].m = None /\ hand[t].rsp = None /\ hand[t].o = None
  BY <1>0, IdleHand
<1>3. /\ r \in Objects /\ d \in Objects /\ r # d /\ r # None /\ d # None /\ t # None
      /\ shared[r].status = "none" /\ ~Known(r) /\ Known(d)
  BY <1>0, <1>1, FreshIs, Distinct DEF WInv, PlacedKnown
<1>4. QueuesOK' /\ MessagesOK' /\ RouterOK /\ shared \in [Objects -> SharedType]
  BY <1>0, RouterIs, SameQueues, SameMessages
<1>5. remote' = [remote EXCEPT ![r] = [id |-> s, dispatcher |-> d]]
  BY <1>0, <1>1
<1>6. /\ remote' \in [Remotes -> [id : Services \cup {None}, dispatcher : Dispatchers \cup {None}]]
      /\ remote'[r].id = s /\ remote'[r].dispatcher = d
      /\ \A q \in Remotes \ {r} : remote'[q] = remote[q]
  BY <1>4, <1>5 DEF RouterOK
<1>7. ASSUME NEW rec \in SharedType, rec.status # "none",
             shared' = [Ref(d, 2) EXCEPT ![r] = rec]
      PROVE  /\ shared' \in [Objects -> SharedType]
             /\ shared'[r] = rec
             /\ shared'[d] = [status |-> shared[d].status, refs |-> shared[d].refs + 2]
             /\ \A x \in Objects \ {d, r} : shared'[x] = shared[x]
             /\ Known(r)' /\ \A x \in Objects \ {r} : Known(x)' <=> Known(x)
  <2>1. /\ Ref(d, 2) \in [Objects -> SharedType]
        /\ Ref(d, 2)[d] = [status |-> shared[d].status, refs |-> shared[d].refs + 2]
        /\ \A x \in Objects \ {d} : Ref(d, 2)[x] = shared[x]
    BY <1>3, <1>4 DEF Ref, SharedType
  <2>2. /\ shared' \in [Objects -> SharedType]
        /\ shared'[r] = rec
        /\ shared'[d] = [status |-> shared[d].status, refs |-> shared[d].refs + 2]
        /\ \A x \in Objects \ {d, r} : shared'[x] = shared[x]
    BY <1>3, <1>7, <2>1
  <2> QED
    BY <1>3, <1>7, <2>2 DEF Known
<1>8. ASSUME Known(r)', \A x \in Objects \ {r} : Known(x)' <=> Known(x),
             UNCHANGED index \/ index' = [index EXCEPT ![s] = r]
      PROVE  IndexRunning' /\ PlacedKnown' /\ index' \in [Services -> Remotes \cup {None}]
             /\ \A x \in Objects : Known(x) => Known(x)'
  <2>1. \A q \in Services : index[q] # None => index[q] \in Remotes \ {r}
    BY <1>3, <1>4 DEF WInv, PlacedKnown, RouterOK
  <2>2. \A q \in Services : index'[q] = index[q] \/ (q = s /\ index'[q] = r)
    BY <1>4, <1>8 DEF RouterOK
  <2>3. index' \in [Services -> Remotes \cup {None}]
    BY <1>4, <1>8 DEF RouterOK
  <2>4. \A x \in Objects : Known(x) => Known(x)'
    BY <1>3, <1>8
  <2>5. IndexRunning'
    BY <1>0, <1>6, <2>1, <2>2 DEF WInv, IndexRunning
  <2>6. /\ \A q \in Services : index'[q] # None => index'[q] \in Objects /\ Known(index[q])'
    <3> SUFFICES ASSUME NEW q \in Services, index'[q] # None
                 PROVE  index'[q] \in Objects /\ Known(index[q])'
      OBVIOUS
    <3>1. CASE index'[q] = index[q]
      BY <1>8, <2>1, <2>4, <3>1, Distinct DEF WInv, PlacedKnown, Known
    <3>2. CASE index'[q] = r
      BY <1>3, <1>8, <3>2 DEF Known
    <3> QED
      BY <2>2, <3>1, <3>2
  <2>7. \A j \in Slots : slots'[j] # None => Known(slots[j])'
    BY <1>0, <1>4, <2>4, Distinct DEF WInv, PlacedKnown, RouterOK, Known
  <2>8. \A q \in Remotes : Known(q)' => remote'[q].dispatcher \in Dispatchers /\ Known(remote[q].dispatcher)'
    <3> SUFFICES ASSUME NEW q \in Remotes, Known(q)'
                 PROVE  remote'[q].dispatcher \in Dispatchers /\ Known(remote[q].dispatcher)'
      OBVIOUS
    <3>1. CASE q = r
      BY <1>3, <1>6, <2>4, <3>1 DEF Known
    <3>2. CASE q # r
      <4>1. Known(q) /\ remote'[q] = remote[q]
        BY <1>6, <1>8, <3>2, Distinct
      <4> QED
        BY <2>4, <4>1, Distinct DEF WInv, PlacedKnown, Known
    <3> QED
      BY <3>1, <3>2
  <2> QED
    BY <2>3, <2>4, <2>5, <2>6, <2>7, <2>8 DEF PlacedKnown
<1>9. ASSUME NEW xs \in Seq(Objects), Release(t, xs), Goto(t, "drop")
      PROVE  Moves(t, "drop", hand[t], xs) /\ Fits(t, "drop", hand[t], xs)
  <2>1. Moves(t, "drop", hand[t], xs)
    BY <1>0, <1>2, <1>9 DEF Release, Goto, Moves, WInv, TypeOK
  <2> QED
    BY <1>2, <2>1, Distinct DEF Fits, Releasing, WithMessage, WithTarget, CallerLabels
<1>10. Goto(t, "drop")
  BY DEF InitService
<1>11. CASE /\ index[s] = None /\ index' = [index EXCEPT ![s] = r]
            /\ shared' = [Ref(d, 2) EXCEPT ![r] = [status |-> "RUNNING", refs |-> 1]]
            /\ Release(t, <<d>>) /\ owned' = owned \cup {s}
  <2>1. [status |-> "RUNNING", refs |-> 1] \in SharedType
    BY DEF SharedType, Statuses, UpToRunning
  <2>2. /\ shared' \in [Objects -> SharedType]
        /\ shared'[r] = [status |-> "RUNNING", refs |-> 1]
        /\ shared'[d] = [status |-> shared[d].status, refs |-> shared[d].refs + 2]
        /\ \A x \in Objects \ {d, r} : shared'[x] = shared[x]
        /\ Known(r)' /\ \A x \in Objects \ {r} : Known(x)' <=> Known(x)
    BY <1>7, <1>11, <2>1
  <2>3. <<d>> \in Seq(Objects)
    BY <1>3
  <2>4. Moves(t, "drop", hand[t], <<d>>) /\ Fits(t, "drop", hand[t], <<d>>)
    BY <1>9, <1>10, <1>11, <2>3
  <2>5. RouterOK' /\ HoldsMutex' /\ IndexRunning' /\ PlacedKnown' /\ \A x \in Objects : Known(x) => Known(x)'
    BY <1>0, <1>2, <1>4, <1>6, <1>8, <1>11, <2>2, <2>4, MutexKept DEF RouterOK
  <2>6. ASSUME NEW h, h = hand[t] PROVE KnownTo(h, <<d>>)'
    BY <1>2, <1>3, <2>5, <2>6 DEF KnownTo, Known
  <2>7. WInv'
    <3>1. PICK h \in Hands : h = hand[t]
      BY <1>2
    <3> QED
      BY <1>4, <2>2, <2>3, <2>4, <2>5, <2>6, <3>1, RouterKeeps
  <2> QED
    BY <1>0, <1>1, <1>2, <1>3, <1>11, <2>2, <2>4, <2>7 DEF Registers
<1>12. CASE /\ shared' = [Ref(d, 2) EXCEPT ![r] = [status |-> "TODESTROY", refs |-> 1]]
            /\ Release(t, <<d, r>>) /\ UNCHANGED <<index, owned>>
  <2>1. [status |-> "TODESTROY", refs |-> 1] \in SharedType
    BY DEF SharedType, Statuses
  <2>2. /\ shared' \in [Objects -> SharedType]
        /\ shared'[r] = [status |-> "TODESTROY", refs |-> 1]
        /\ shared'[d] = [status |-> shared[d].status, refs |-> shared[d].refs + 2]
        /\ \A x \in Objects \ {d, r} : shared'[x] = shared[x]
        /\ Known(r)' /\ \A x \in Objects \ {r} : Known(x)' <=> Known(x)
    BY <1>7, <1>12, <2>1
  <2>3. <<d, r>> \in Seq(Objects)
    BY <1>3
  <2>4. Moves(t, "drop", hand[t], <<d, r>>) /\ Fits(t, "drop", hand[t], <<d, r>>)
    BY <1>9, <1>10, <1>12, <2>3
  <2>5. RouterOK' /\ HoldsMutex' /\ IndexRunning' /\ PlacedKnown' /\ \A x \in Objects : Known(x) => Known(x)'
    BY <1>0, <1>2, <1>4, <1>6, <1>8, <1>12, <2>2, <2>4, MutexKept DEF RouterOK
  <2>6. ASSUME NEW h, h = hand[t] PROVE KnownTo(h, <<d, r>>)'
    BY <1>2, <1>3, <2>2, <2>5, <2>6 DEF KnownTo, Known
  <2>7. WInv'
    <3>1. PICK h \in Hands : h = hand[t]
      BY <1>2
    <3> QED
      BY <1>4, <2>2, <2>3, <2>4, <2>5, <2>6, <3>1, RouterKeeps
  <2> QED
    BY <1>0, <1>1, <1>2, <1>3, <1>12, <2>2, <2>4, <2>7 DEF Registers
<1> QED
  BY <1>1, <1>11, <1>12 DEF InitService

\* Who has just taken the mutex releases objects, and has no message.
LEMMA MutexTaken ==
  ASSUME WInv, NEW t \in Callers, NEW h \in Hands, NEW xs, Moves(t, "drop", h, xs), h.m = None,
         router.lock = None, router'.lock = t
  PROVE  HoldsMutex'
BY Distinct DEF WInv, TypeOK, HoldsMutex, Moves, Releasing

\* Taking ids out of the index leaves it well-formed.
LEMMA IndexShrinks ==
  ASSUME WInv, \A s \in Services : index'[s] \in {index[s], None}, index' \in [Services -> Remotes \cup {None}],
         UNCHANGED remote, \A j \in Slots : slots'[j] \in {slots[j], None},
         \A x \in Objects : Known(x) <=> Known(x)',
         router'.status = router.status \/ \A s \in Services : index'[s] = None
  PROVE  IndexRunning' /\ PlacedKnown'
<1>1. IndexRunning'
  BY DEF WInv, IndexRunning
<1>2. RouterOK
  BY RouterIs
<1>3. \A s \in Services : index'[s] # None => Known(index[s])'
  <2> SUFFICES ASSUME NEW s \in Services, index'[s] # None PROVE Known(index[s])'
    OBVIOUS
  <2>1. index'[s] = index[s] /\ index[s] \in Objects /\ Known(index[s])
    BY <1>2, Distinct DEF WInv, PlacedKnown, RouterOK
  <2> QED
    BY <2>1 DEF Known
<1>4. \A j \in Slots : slots'[j] # None => Known(slots[j])'
  <2> SUFFICES ASSUME NEW j \in Slots, slots'[j] # None PROVE Known(slots[j])'
    OBVIOUS
  <2>1. slots'[j] = slots[j] /\ slots[j] \in Objects /\ Known(slots[j])
    BY <1>2, Distinct DEF WInv, PlacedKnown, RouterOK
  <2> QED
    BY <2>1 DEF Known
<1>5. \A r \in Remotes : Known(r)' => remote'[r].dispatcher \in Dispatchers /\ Known(remote[r].dispatcher)'
  BY Distinct DEF WInv, PlacedKnown, Known
<1> QED
  BY <1>1, <1>3, <1>4, <1>5 DEF PlacedKnown

LEMMA DestroyServiceKeeps ==
  ASSUME WInv, NEW t \in Callers, NEW s \in Services, DestroyService(t, s)
  PROVE  /\ pc[t] = "idle" /\ hand[t].m = None /\ hand[t].o = None /\ hand[t].rsp = None
         /\ drop[t] = <<>> /\ index[s] \in Remotes
         /\ index' = [index EXCEPT ![s] = None]
         /\ shared' = [shared EXCEPT ![index[s]].status = "TODESTROY"]
         /\ Moves(t, "drop", hand[t], <<index[s]>>)
         /\ WInv'
<1>0. /\ pc[t] = "idle" /\ router.lock = None /\ index[s] # None
      /\ router' = [router EXCEPT !.lock = t]
      /\ index' = [index EXCEPT ![s] = None]
      /\ UNCHANGED <<slots, remote, queue, message, hand>>
      /\ drop' = [drop EXCEPT ![t] = <<index[s]>>] /\ pc' = [pc EXCEPT ![t] = "drop"]
      /\ shared' = [shared EXCEPT ![index[s]].status = "TODESTROY"]
      /\ owned' = owned \ {s}
  BY DEF DestroyService, Unlocked, Release, Goto
<1>1. PICK r \in Remotes : r = index[s]
  BY <1>0, RouterIs DEF RouterOK
<1>2. /\ t \in Threads /\ hand[t] \in Hands /\ drop[t] = <<>> /\ router.lock # t
      /\ hand[t].m = None /\ hand[t].rsp = None /\ hand[t].o = None
  BY <1>0, IdleHand
<1>3. r \in Objects /\ Known(r) /\ <<r>> \in Seq(Objects)
  BY <1>0, <1>1, Distinct DEF WInv, PlacedKnown
<1>4. QueuesOK' /\ MessagesOK' /\ RouterOK
  BY <1>0, RouterIs, SameQueues, SameMessages
<1>5. Moves(t, "drop", hand[t], <<r>>)
  BY <1>0, <1>1, <1>2 DEF Moves, WInv, TypeOK
<1>6. Fits(t, "drop", hand[t], <<r>>)
  BY <1>2, Distinct DEF Fits, Releasing, WithMessage, WithTarget, CallerLabels
<1>7. shared' \in [Objects -> SharedType] /\ \A x \in Objects : Known(x) <=> Known(x)'
  <2>1. "TODESTROY" \in Statuses \ {"none"}
    BY DEF Statuses
  <2> QED
    BY <1>0, <1>1, <1>3, <2>1, StatusKeeps
<1>8. PICK h \in Hands : h = hand[t]
  BY <1>2
<1>9. KnownTo(h, <<r>>)'
  BY <1>2, <1>3, <1>7, <1>8 DEF KnownTo, Known
<1>10. RouterOK'
  BY <1>0, <1>4 DEF RouterOK
<1>11. router'.lock = t /\ router'.status = router.status
  BY <1>0, <1>4 DEF RouterOK
<1>12. HoldsMutex'
  BY <1>0, <1>2, <1>5, <1>11, MutexTaken
<1>13. IndexRunning' /\ PlacedKnown'
  <2>1. \A q \in Services : index'[q] \in {index[q], None}
    BY <1>0, <1>4 DEF RouterOK
  <2>2. index' \in [Services -> Remotes \cup {None}]
    BY <1>10 DEF RouterOK
  <2> QED
    BY <1>0, <1>7, <1>11, <2>1, <2>2, IndexShrinks
<1>14. WInv'
  BY <1>3, <1>4, <1>5, <1>6, <1>7, <1>8, <1>9, <1>10, <1>12, <1>13, RouterKeeps
<1> QED
  BY <1>0, <1>1, <1>2, <1>5, <1>14

\* What SetToSeq lists: each member of a finite set once.
LEMMA Listed ==
  ASSUME NEW S, IsFiniteSet(S)
  PROVE  /\ SetToSeq(S) \in Seq(S) /\ DOMAIN SetToSeq(S) = 1..Cardinality(S)
         /\ \A x \in S : \E i \in DOMAIN SetToSeq(S) : SetToSeq(S)[i] = x
         /\ \A i, j \in DOMAIN SetToSeq(S) : SetToSeq(S)[i] = SetToSeq(S)[j] => i = j
<1> DEFINE n == Cardinality(S)
<1>1. n \in Nat /\ ExistsBijection(1..n, S)
  BY FS_CardinalityType
<1>2. PICK g \in [1..n -> S] : IsInjective(g)
  BY <1>1 DEF ExistsBijection, Bijection, Injection
<1>3. SetToSeq(S) \in [1..n -> S] /\ IsInjective(SetToSeq(S))
  BY <1>2 DEF SetToSeq
<1> HIDE DEF n
<1>4. PICK f \in [1..n -> S] : f = SetToSeq(S)
  BY <1>3
<1>5. f \in Seq(S) /\ DOMAIN f = 1..n
  BY <1>1
<1>6. \A i, j \in DOMAIN f : f[i] = f[j] => i = j
  BY <1>3, <1>4 DEF IsInjective
<1>7. \A x \in S : \E i \in DOMAIN f : f[i] = x
  <2>1. IsFiniteSet(1..n) /\ Cardinality(1..n) = n
    BY <1>1, FS_Interval
  <2>2. f \in Injection(1..n, S)
    BY <1>4, <1>3 DEF Injection
  <2>3. f \in Surjection(1..n, S)
    BY <2>1, <2>2, FS_Injection DEF n
  <2> QED
    BY <1>5, <2>3 DEF Surjection
<1> QED
  BY <1>4, <1>5, <1>6, <1>7 DEF n

\* The objects in the index are finitely many.
LEMMA AllIndexed ==
  ASSUME WInv
  PROVE  LET all == {index[s] : s \in Services} \ {None}
         IN  all \subseteq Remotes /\ IsFiniteSet(all) /\ \A x \in all : x \in Objects /\ Known(x)
<1> DEFINE all == {index[s] : s \in Services} \ {None}
<1>1. all \subseteq Remotes /\ \A x \in all : x \in Objects /\ Known(x)
  BY Distinct DEF WInv, TypeOK, PlacedKnown
<1>2. IsFiniteSet(all)
  BY <1>1, FiniteAssumption, FS_Subset
<1> QED
  BY <1>1, <1>2

LEMMA ShutdownKeeps ==
  ASSUME WInv, NEW t \in Callers, Shutdown(t)
  PROVE  /\ pc[t] = "idle" /\ hand[t].m = None /\ hand[t].o = None /\ hand[t].rsp = None
         /\ drop[t] = <<>>
         /\ LET all == {index[s] : s \in Services} \ {None}
            IN  /\ Moves(t, "drop", hand[t], SetToSeq(all))
                /\ index' = [s \in Services |-> None]
                /\ \A x \in Objects :
                      shared'[x] = IF x \in all THEN [status |-> "TODESTROY", refs |-> shared[x].refs]
                                   ELSE shared[x]
         /\ WInv'
<1> DEFINE all == {index[s] : s \in Services} \ {None}
           xs  == SetToSeq(all)
<1>0. /\ pc[t] = "idle" /\ router.lock = None /\ router.status = "RUNNING"
      /\ router' = [router EXCEPT !.status = "STOPPING", !.lock = t]
      /\ index' = [s \in Services |-> None]
      /\ UNCHANGED <<slots, remote, queue, message, hand, owned>>
      /\ drop' = [drop EXCEPT ![t] = xs] /\ pc' = [pc EXCEPT ![t] = "drop"]
      /\ shared' = [x \in Objects |-> IF x \in all THEN [shared[x] EXCEPT !.status = "TODESTROY"]
                                      ELSE shared[x]]
  BY DEF Shutdown, Unlocked, Release, Goto
<1>1. all \subseteq Remotes /\ IsFiniteSet(all) /\ \A x \in all : x \in Objects /\ Known(x)
  BY AllIndexed
<1>2. /\ xs \in Seq(all) /\ xs \in Seq(Objects) /\ \A i \in DOMAIN xs : xs[i] \in all
  <2> HIDE DEF all
  <2>1. xs \in Seq(all) /\ all \subseteq Objects
    BY <1>1, Listed
  <2> HIDE DEF xs
  <2> QED
    BY <2>1
<1> HIDE DEF all, xs
<1>3. /\ t \in Threads /\ hand[t] \in Hands /\ drop[t] = <<>> /\ router.lock # t
      /\ hand[t].m = None /\ hand[t].rsp = None /\ hand[t].o = None
  BY <1>0, IdleHand
<1>4. QueuesOK' /\ MessagesOK' /\ RouterOK /\ shared \in [Objects -> SharedType]
  BY <1>0, RouterIs, SameQueues, SameMessages
<1>5. Moves(t, "drop", hand[t], xs)
  BY <1>0, <1>3 DEF Moves, WInv, TypeOK
<1>6. Fits(t, "drop", hand[t], xs)
  BY <1>3, Distinct DEF Fits, Releasing, WithMessage, WithTarget, CallerLabels
<1>7. /\ \A x \in Objects :
            shared'[x] = IF x \in all THEN [status |-> "TODESTROY", refs |-> shared[x].refs] ELSE shared[x]
      /\ shared' \in [Objects -> SharedType]
  <2>1. "TODESTROY" \in Statuses
    BY DEF Statuses
  <2> QED
    BY <1>0, <1>4, <2>1 DEF SharedType
<1>8. \A x \in Objects : Known(x) <=> Known(x)'
  BY <1>1, <1>7 DEF Known
<1>9. PICK h \in Hands, ys \in Seq(Objects) : h = hand[t] /\ ys = xs
  BY <1>2, <1>3
<1>10. KnownTo(h, ys)'
  <2>1. \A i \in DOMAIN ys : ys[i] \in Objects /\ Known(ys[i])
    BY <1>1, <1>2, <1>9
  <2> QED
    BY <1>3, <1>8, <1>9, <2>1 DEF KnownTo, Known
<1>11. RouterOK'
  BY <1>0, <1>4 DEF RouterOK
<1>12. router'.lock = t
  BY <1>0, <1>4 DEF RouterOK
<1>13. HoldsMutex'
  BY <1>0, <1>3, <1>5, <1>12, MutexTaken
<1>14. IndexRunning' /\ PlacedKnown'
  <2>1. \A q \in Services : index'[q] = None
    BY <1>0
  <2>2. index' \in [Services -> Remotes \cup {None}]
    BY <1>11 DEF RouterOK
  <2> QED
    BY <1>0, <1>8, <2>1, <2>2, IndexShrinks
<1>15. WInv'
  BY <1>4, <1>5, <1>6, <1>7, <1>8, <1>9, <1>10, <1>11, <1>13, <1>14, RouterKeeps
<1> QED
  BY <1>0, <1>3, <1>5, <1>7, <1>15 DEF all, xs

LEMMA ShutdownDispatcherKeeps ==
  ASSUME WInv, NEW t \in Callers, NEW i \in Slots, ShutdownDispatcher(t, i)
  PROVE  /\ pc[t] = "drop" /\ drop[t] = <<>> /\ slots[i] \in Dispatchers
         /\ slots' = [slots EXCEPT ![i] = None]
         /\ Moves(t, "drop", hand[t], <<slots[i]>>)
         /\ shared' = IF shared[slots[i]].status \in {"RUNNING", "STARTTING"}
                      THEN [shared EXCEPT ![slots[i]].status = "STOPPING"] ELSE shared
         /\ WInv'
<1>0. /\ pc[t] = "drop" /\ drop[t] = <<>> /\ router.lock = t /\ slots[i] # None
      /\ slots' = [slots EXCEPT ![i] = None]
      /\ shared' = IF shared[slots[i]].status \in {"RUNNING", "STARTTING"}
                   THEN [shared EXCEPT ![slots[i]].status = "STOPPING"] ELSE shared
      /\ drop' = [drop EXCEPT ![t] = <<slots[i]>>]
      /\ UNCHANGED <<router, index, remote, queue, message, pc, hand, owned>>
  BY DEF ShutdownDispatcher, ShuttingDown, Release
<1>1. PICK d \in Dispatchers : d = slots[i]
  BY <1>0, RouterIs DEF RouterOK
<1>2. /\ t \in Threads /\ pc[t] \in Releasing /\ t # None
  BY <1>0, Distinct DEF Releasing
<1>3. /\ hand[t] \in Hands /\ hand[t].rsp = None /\ hand[t].o = None /\ hand[t].m = None
      /\ KnownTo(hand[t], drop[t])
  BY <1>0, <1>2, ReleasingHand, Distinct
<1>4. d \in Objects /\ Known(d) /\ <<d>> \in Seq(Objects)
  BY <1>0, <1>1, Distinct DEF WInv, PlacedKnown
<1>5. QueuesOK' /\ MessagesOK' /\ RouterOK /\ shared \in [Objects -> SharedType]
  BY <1>0, RouterIs, SameQueues, SameMessages
<1>6. Moves(t, "drop", hand[t], <<d>>)
  BY <1>0, <1>1, <1>2 DEF Moves, WInv, TypeOK
<1>7. Fits(t, "drop", hand[t], <<d>>)
  BY <1>3, Distinct DEF Fits, Releasing, WithMessage, WithTarget, CallerLabels
<1>8. shared' \in [Objects -> SharedType] /\ \A x \in Objects : Known(x) <=> Known(x)'
  <2>1. "STOPPING" \in Statuses \ {"none"}
    BY DEF Statuses
  <2> QED
    BY <1>0, <1>1, <1>4, <2>1, StatusKeeps, SameShared
<1>9. PICK h \in Hands : h = hand[t]
  BY <1>3
<1>10. KnownTo(h, <<d>>)'
  BY <1>3, <1>4, <1>8, <1>9 DEF KnownTo, Known
<1>11. RouterOK'
  BY <1>0, <1>5 DEF RouterOK
<1>12. HoldsMutex'
  <2>1. pc'[t] \in Releasing /\ hand'[t].m = None /\ router'.lock = t
    BY <1>0, <1>2, <1>3
  <2> QED
    BY <2>1 DEF HoldsMutex
<1>13. IndexRunning' /\ PlacedKnown'
  <2>1. /\ \A q \in Services : index'[q] \in {index[q], None}
        /\ index' \in [Services -> Remotes \cup {None}] /\ router'.status = router.status
        /\ \A j \in Slots : slots'[j] \in {slots[j], None}
    BY <1>0, <1>5, <1>11 DEF RouterOK
  <2> QED
    BY <1>0, <1>8, <2>1, IndexShrinks
<1>14. WInv'
  BY <1>4, <1>5, <1>6, <1>7, <1>8, <1>9, <1>10, <1>11, <1>12, <1>13, RouterKeeps
<1> QED
  BY <1>0, <1>1, <1>6, <1>14

LEMMA ShutdownEndKeeps ==
  ASSUME WInv, NEW t \in Callers, ShutdownEnd(t)
  PROVE  /\ pc[t] = "drop" /\ drop[t] = <<>> /\ hand[t].m = None /\ hand[t].o = None
         /\ Moves(t, "idle", hand[t], <<>>)
         /\ WInv'
<1>0. /\ pc[t] = "drop" /\ drop[t] = <<>> /\ router.lock = t /\ router.status = "STOPPING"
      /\ router' = [router EXCEPT !.status = "STOPPED", !.lock = None]
      /\ pc' = [pc EXCEPT ![t] = "idle"]
      /\ UNCHANGED <<index, slots, remote, shared, queue, message, hand, drop, owned>>
  BY DEF ShutdownEnd, ShuttingDown, Goto
<1>1. /\ t \in Threads /\ pc[t] \in Releasing /\ t # None
  BY <1>0, Distinct DEF Releasing
<1>2. /\ hand[t] \in Hands /\ hand[t].rsp = None /\ hand[t].o = None /\ hand[t].m = None
  BY <1>0, <1>1, ReleasingHand, Distinct
<1>3. QueuesOK' /\ MessagesOK' /\ RouterOK /\ shared \in [Objects -> SharedType]
  BY <1>0, RouterIs, SameQueues, SameMessages
<1>4. Moves(t, "idle", hand[t], <<>>)
  BY <1>0, <1>1 DEF Moves, WInv, TypeOK
<1>5. Fits(t, "idle", hand[t], <<>>)
  BY <1>2, Distinct DEF Fits, Releasing, WithMessage, WithTarget, CallerLabels
<1>6. shared' \in [Objects -> SharedType] /\ \A x \in Objects : Known(x) <=> Known(x)'
  BY <1>0, SameShared
<1>7. PICK h \in Hands : h = hand[t]
  BY <1>2
<1>8. KnownTo(h, <<>>)'
  BY <1>2, <1>7 DEF KnownTo
<1>9. RouterOK'
  BY <1>0, <1>3 DEF RouterOK
<1>10. HoldsMutex'
  BY <1>0, <1>3 DEF HoldsMutex, RouterOK
<1>11. IndexRunning' /\ PlacedKnown'
  <2>1. \A q \in Services : index'[q] = None
    BY <1>0 DEF WInv, IndexRunning
  <2>2. /\ index' \in [Services -> Remotes \cup {None}]
        /\ \A j \in Slots : slots'[j] \in {slots[j], None}
        /\ \A q \in Services : index'[q] \in {index[q], None}
    BY <1>0, <1>9 DEF RouterOK
  <2> QED
    BY <1>0, <1>6, <2>1, <2>2, IndexShrinks
<1>12. <<>> \in Seq(Objects)
  OBVIOUS
<1>13. WInv'
  BY <1>3, <1>4, <1>5, <1>6, <1>7, <1>8, <1>9, <1>10, <1>11, <1>12, RouterKeeps
<1> QED
  BY <1>0, <1>2, <1>4, <1>13

LEMMA ReturnKeeps ==
  ASSUME WInv, NEW t \in Callers, Return(t)
  PROVE  /\ pc[t] = "drop" /\ drop[t] = <<>> /\ hand[t].rsp = None /\ hand[t].o = None
         /\ Moves(t, "idle", Nothing, <<>>) /\ message' = Forget({hand[t].m})
         /\ WInv'
<1>0. /\ pc[t] = "drop" /\ drop[t] = <<>>
      /\ message' = Forget({hand[t].m})
      /\ router' = [router EXCEPT !.lock = IF @ = t THEN None ELSE @]
      /\ hand' = [hand EXCEPT ![t] = Nothing]
      /\ pc' = [pc EXCEPT ![t] = "idle"]
      /\ UNCHANGED <<index, slots, remote, shared, queue, drop, owned>>
  BY DEF Return, Goto, MessageOf
<1>1. /\ t \in Threads /\ pc[t] \in Releasing /\ t # None
  BY <1>0, Distinct DEF Releasing
<1>2. /\ hand[t] \in Hands /\ hand[t].rsp = None /\ hand[t].o = None
  BY <1>0, <1>1, ReleasingHand, Distinct
<1>3. QueuesOK' /\ MessagesOK' /\ RouterOK /\ shared \in [Objects -> SharedType]
  BY <1>0, RouterIs, SameQueues, ForgetKeeps
<1>4. Moves(t, "idle", Nothing, <<>>)
  BY <1>0, <1>1 DEF Moves, WInv, TypeOK
<1>5. Fits(t, "idle", Nothing, <<>>)
  BY HandsAre, Distinct DEF Fits, Releasing, WithMessage, WithTarget, CallerLabels
<1>6. shared' \in [Objects -> SharedType] /\ \A x \in Objects : Known(x) <=> Known(x)'
  BY <1>0, SameShared
<1>7. KnownTo(Nothing, <<>>)'
  BY HandsAre DEF KnownTo
<1>8. RouterOK' /\ router'.status = router.status
  BY <1>0, <1>3 DEF RouterOK
<1>9. HoldsMutex'
  <2>1. router.lock # None => router.lock \in Threads
    BY <1>3, Distinct DEF RouterOK
  <2>2. router'.lock = IF router.lock = t THEN None ELSE router.lock
    BY <1>0, <1>3 DEF RouterOK
  <2> QED
    BY <1>0, <2>1, <2>2 DEF WInv, TypeOK, HoldsMutex
<1>10. IndexRunning' /\ PlacedKnown'
  <2>1. /\ index' \in [Services -> Remotes \cup {None}]
        /\ \A j \in Slots : slots'[j] \in {slots[j], None}
        /\ \A q \in Services : index'[q] \in {index[q], None}
    BY <1>0, <1>8 DEF RouterOK
  <2> QED
    BY <1>0, <1>6, <1>8, <2>1, IndexShrinks
<1>11. <<>> \in Seq(Objects)
  OBVIOUS
<1>12. WInv'
  BY <1>3, <1>4, <1>5, <1>6, <1>7, <1>8, <1>9, <1>10, <1>11, HandsAre, RouterKeeps
<1> QED
  BY <1>0, <1>2, <1>4, <1>12

-----------------------------------------------------------------------------
(* Who has a message: one thread, or one place in one queue.                *)

At(d, p, i, m) == i \in DOMAIN queue[d][p] /\ queue[d][p][i] = m

HeldBy(m) == \E t \in Threads : hand[t].m = m
Waits(m)  == \E d \in Dispatchers, p \in 0..(Levels - 1), i \in Nat : At(d, p, i, m)

OneHolder(m) == \A t, u \in Threads : hand[t].m = m /\ hand[u].m = m => t = u
OnePlace(m)  ==
    \A d, e \in Dispatchers, p, q \in 0..(Levels - 1), i, j \in Nat :
        At(d, p, i, m) /\ At(e, q, j, m) => d = e /\ p = q /\ i = j

Owned(m) ==
    /\ OneHolder(m) /\ OnePlace(m) /\ ~(HeldBy(m) /\ Waits(m))
    /\ message[m].state = "live" <=> HeldBy(m) \/ Waits(m)

OInv == \A m \in Messages : Owned(m)

SameHolders(m) == \A t \in Threads : hand'[t].m = m <=> hand[t].m = m
SamePlaces(m)  ==
    \A d \in Dispatchers, p \in 0..(Levels - 1), i \in Nat : At(d, p, i, m)' <=> At(d, p, i, m)
SameState(m)   == message'[m].state = "live" <=> message[m].state = "live"

LEMMA OwnedStays ==
  ASSUME NEW m, Owned(m), SameHolders(m), SamePlaces(m), SameState(m)
  PROVE  Owned(m)'
<1>1. HeldBy(m)' <=> HeldBy(m)
  BY DEF HeldBy, SameHolders
<1>2. Waits(m)' <=> Waits(m)
  BY DEF Waits, SamePlaces
<1>3. OneHolder(m)'
  BY DEF Owned, OneHolder, SameHolders
<1>4. OnePlace(m)'
  BY DEF Owned, OnePlace, SamePlaces
<1> QED
  BY <1>1, <1>2, <1>3, <1>4 DEF Owned, SameState

LEMMA NobodyHas ==
  ASSUME NEW m, message'[m].state # "live", \A t \in Threads : hand'[t].m # m,
         \A d \in Dispatchers, p \in 0..(Levels - 1), i \in Nat : ~At(d, p, i, m)'
  PROVE  Owned(m)'
BY DEF Owned, OneHolder, OnePlace, HeldBy, Waits

LEMMA ThreadHas ==
  ASSUME NEW m, message'[m].state = "live", NEW u \in Threads,
         \A t \in Threads : hand'[t].m = m <=> t = u,
         \A d \in Dispatchers, p \in 0..(Levels - 1), i \in Nat : ~At(d, p, i, m)'
  PROVE  Owned(m)'
BY DEF Owned, OneHolder, OnePlace, HeldBy, Waits

\* What a thread holds is live, held by no other and in no queue.
LEMMA HeldIsLive ==
  ASSUME OInv, NEW t \in Threads, NEW m \in Messages, hand[t].m = m
  PROVE  /\ message[m].state = "live" /\ \A u \in Threads : hand[u].m = m => u = t
         /\ \A d \in Dispatchers, p \in 0..(Levels - 1), i \in Nat : ~At(d, p, i, m)
BY DEF OInv, Owned, HeldBy, Waits, OneHolder

\* What waits is live, held by nobody and in no other place.
LEMMA WaitsIsLive ==
  ASSUME OInv, NEW m \in Messages, NEW d \in Dispatchers, NEW p \in 0..(Levels - 1), NEW i \in Nat,
         At(d, p, i, m)
  PROVE  /\ message[m].state = "live" /\ \A t \in Threads : hand[t].m # m
         /\ \A e \in Dispatchers, q \in 0..(Levels - 1), j \in Nat :
               At(e, q, j, m) => e = d /\ q = p /\ j = i
<1>1. Waits(m)
  BY DEF Waits
<1> QED
  BY <1>1 DEF OInv, Owned, HeldBy, OnePlace

-----------------------------------------------------------------------------
(* What steps do to ownership.                                              *)

\* A step of a thread that keeps its message, if it has one.
LEMMA KeptByThread ==
  ASSUME OInv, NEW t \in Threads, NEW h, hand' = [hand EXCEPT ![t] = h], hand \in [Threads -> Hands],
         h.m = hand[t].m, UNCHANGED queue, \A m \in Messages : SameState(m)
  PROVE  OInv'
<1> SUFFICES ASSUME NEW m \in Messages PROVE Owned(m)'
  BY DEF OInv
<1>1. SameHolders(m)
  BY DEF SameHolders
<1>2. SamePlaces(m)
  BY DEF SamePlaces, At
<1> QED
  BY <1>1, <1>2, OwnedStays DEF OInv

\* A thread frees the message it has.
LEMMA FreedByThread ==
  ASSUME OInv, NEW t \in Threads, NEW h, hand' = [hand EXCEPT ![t] = h], hand \in [Threads -> Hands],
         NEW m \in Messages, hand[t].m = m, h.m = None,
         UNCHANGED queue, message'[m].state # "live",
         \A n \in Messages \ {m} : message'[n] = message[n]
  PROVE  OInv'
<1>1. None \notin Messages
  BY Distinct
<1>2. Owned(m)'
  <2>1. \A u \in Threads : hand'[u].m # m
    BY <1>1, HeldIsLive
  <2>2. \A d \in Dispatchers, p \in 0..(Levels - 1), i \in Nat : ~At(d, p, i, m)'
    <3>1. \A d \in Dispatchers, p \in 0..(Levels - 1), i \in Nat : ~At(d, p, i, m)
      BY HeldIsLive
    <3> QED
      BY <3>1 DEF At
  <2> QED
    BY <2>1, <2>2, NobodyHas
<1>3. ASSUME NEW n \in Messages \ {m} PROVE Owned(n)'
  <2>1. SameHolders(n) /\ SameState(n)
    BY <1>1 DEF SameHolders, SameState
  <2>2. SamePlaces(n)
    BY DEF SamePlaces, At
  <2> QED
    BY <2>1, <2>2, OwnedStays DEF OInv
<1> QED
  BY <1>2, <1>3 DEF OInv

\* A new message is its sender's.
LEMMA SentByThread ==
  ASSUME OInv, NEW t \in Threads, NEW h, hand' = [hand EXCEPT ![t] = h], hand \in [Threads -> Hands],
         NEW m \in Messages, message[m].state = "unused", hand[t].m = None, h.m = m,
         UNCHANGED queue, message'[m].state = "live",
         \A n \in Messages \ {m} : message'[n] = message[n]
  PROVE  OInv'
<1>1. None \notin Messages
  BY Distinct
<1>2. ~HeldBy(m) /\ ~Waits(m)
  BY DEF OInv, Owned
<1>3. Owned(m)'
  <2>1. \A u \in Threads : hand'[u].m = m <=> u = t
    BY <1>2 DEF HeldBy
  <2>2. \A d \in Dispatchers, p \in 0..(Levels - 1), i \in Nat : ~At(d, p, i, m)'
    BY <1>2 DEF Waits, At
  <2> QED
    BY <2>1, <2>2, ThreadHas
<1>4. ASSUME NEW n \in Messages \ {m} PROVE Owned(n)'
  <2>1. SameHolders(n) /\ SameState(n)
    BY <1>1 DEF SameHolders, SameState
  <2>2. SamePlaces(n)
    BY DEF SamePlaces, At
  <2> QED
    BY <2>1, <2>2, OwnedStays DEF OInv
<1> QED
  BY <1>3, <1>4 DEF OInv

\* A step of thread t on the queue of dispatcher d at level p.
OthersKeepHands(t) == \A u \in Threads \ {t} : hand'[u] = hand[u]
OthersKeepQueues(d, p) ==
    \A e \in Dispatchers, q \in 0..(Levels - 1) : e # d \/ q # p => queue'[e][q] = queue[e][q]

\* A thread puts its message at the end of a queue.
LEMMA PushedByThread ==
  ASSUME OInv, QueuesOK, NEW t \in Threads, NEW d \in Dispatchers, NEW p \in 0..(Levels - 1),
         OthersKeepHands(t), OthersKeepQueues(d, p), UNCHANGED message,
         hand[t].m \in Messages, hand'[t].m = None, queue'[d][p] = Append(queue[d][p], hand[t].m)
  PROVE  OInv'
<1>0. PICK m \in Messages : m = hand[t].m
  OBVIOUS
<1>1. None \notin Messages
  BY Distinct
<1>2. PICK s \in Seq(Messages), k \in Nat : s = queue[d][p] /\ k = Len(s) + 1
  <2>1. queue[d][p] \in Seq(Messages)
    BY DEF QueuesOK
  <2> QED
    BY <2>1
<1>3. \A i \in Nat : \A n : At(d, p, i, n)' <=> At(d, p, i, n) \/ (i = k /\ n = m)
  <2>1. DOMAIN Append(s, m) = 1..k /\ DOMAIN s = 1..(k - 1)
        /\ Append(s, m)[k] = m /\ \A i \in 1..(k - 1) : Append(s, m)[i] = s[i]
    BY <1>2
  <2>2. queue'[d][p] = Append(s, m) /\ queue[d][p] = s
    BY <1>0, <1>2
  <2> QED
    BY <1>2, <2>1, <2>2 DEF At
<1>4. \A e \in Dispatchers, q \in 0..(Levels - 1), i \in Nat : \A n :
         e # d \/ q # p => (At(e, q, i, n)' <=> At(e, q, i, n))
  BY DEF At, OthersKeepQueues
<1>5. Owned(m)'
  <2>1. message[m].state = "live" /\ (\A u \in Threads : hand[u].m = m => u = t)
        /\ \A e \in Dispatchers, q \in 0..(Levels - 1), i \in Nat : ~At(e, q, i, m)
    BY <1>0, HeldIsLive
  <2>2. \A u \in Threads : hand'[u].m # m
    BY <1>1, <2>1 DEF OthersKeepHands
  <2>3. \A e \in Dispatchers, q \in 0..(Levels - 1), j \in Nat :
            At(e, q, j, m)' <=> e = d /\ q = p /\ j = k
    <3> SUFFICES ASSUME NEW e \in Dispatchers, NEW q \in 0..(Levels - 1), NEW j \in Nat
                 PROVE  At(e, q, j, m)' <=> e = d /\ q = p /\ j = k
      OBVIOUS
    <3>1. ~At(e, q, j, m)
      BY <2>1
    <3>2. CASE e = d /\ q = p
      <4>1. At(d, p, j, m)' <=> At(d, p, j, m) \/ j = k
        BY <1>3
      <4> QED
        BY <3>1, <3>2, <4>1
    <3>3. CASE e # d \/ q # p
      BY <1>4, <3>1, <3>3
    <3> QED
      BY <3>2, <3>3
  <2>4. message'[m].state = "live"
    BY <2>1
  <2> QED
    <3>1. Waits(m)' /\ ~HeldBy(m)' /\ OneHolder(m)'
      BY <1>2, <2>2, <2>3 DEF Waits, HeldBy, OneHolder
    <3>2. OnePlace(m)'
      BY <2>3 DEF OnePlace
    <3> QED
      BY <2>4, <3>1, <3>2 DEF Owned
<1>6. ASSUME NEW n \in Messages \ {m} PROVE Owned(n)'
  <2>1. SameHolders(n) /\ SameState(n)
    BY <1>0, <1>1 DEF SameHolders, SameState, OthersKeepHands
  <2>2. SamePlaces(n)
    BY <1>3, <1>4 DEF SamePlaces
  <2> QED
    BY <2>1, <2>2, OwnedStays DEF OInv
<1> QED
  BY <1>5, <1>6 DEF OInv

\* A dispatcher's thread takes the oldest message off a queue.
LEMMA PoppedByThread ==
  ASSUME OInv, QueuesOK, NEW t \in Threads, NEW d \in Dispatchers, NEW p \in 0..(Levels - 1),
         OthersKeepHands(t), OthersKeepQueues(d, p), UNCHANGED message,
         hand[t].m = None, queue[d][p] # <<>>,
         hand'[t].m = Head(queue[d][p]), queue'[d][p] = Tail(queue[d][p])
  PROVE  OInv'
<1>1. None \notin Messages
  BY Distinct
<1>2. PICK s \in Seq(Messages) : s = queue[d][p]
  BY DEF QueuesOK
<1>3. PICK m \in Messages : m = Head(s)
  BY <1>2
<1>4. /\ At(d, p, 1, m)
      /\ \A i \in Nat : \A n : At(d, p, i, n)' <=> i # 0 /\ At(d, p, i + 1, n)
      /\ \A n : ~At(d, p, 0, n)
      /\ \A n : At(d, p, 1, n) => n = m
  <2>1. /\ s # <<>> /\ Len(s) \in Nat \ {0} /\ DOMAIN s = 1..Len(s) /\ m = s[1]
        /\ DOMAIN Tail(s) = 1..(Len(s) - 1)
        /\ \A i \in 1..(Len(s) - 1) : Tail(s)[i] = s[i + 1]
    BY <1>2, <1>3
  <2>2. queue'[d][p] = Tail(s) /\ queue[d][p] = s
    BY <1>2
  <2> QED
    BY <2>1, <2>2 DEF At
<1>5. \A e \in Dispatchers, q \in 0..(Levels - 1), i \in Nat : \A n :
         e # d \/ q # p => (At(e, q, i, n)' <=> At(e, q, i, n))
  BY DEF At, OthersKeepQueues
<1>6. Owned(m)'
  <2>1. message[m].state = "live" /\ (\A u \in Threads : hand[u].m # m)
        /\ \A e \in Dispatchers, q \in 0..(Levels - 1), i \in Nat :
              At(e, q, i, m) => e = d /\ q = p /\ i = 1
    BY <1>4, WaitsIsLive
  <2>2. \A u \in Threads : hand'[u].m = m <=> u = t
    BY <1>2, <1>3, <2>1 DEF OthersKeepHands
  <2>3. ASSUME NEW e \in Dispatchers, NEW q \in 0..(Levels - 1), NEW i \in Nat PROVE ~At(e, q, i, m)'
    <3>1. CASE e = d /\ q = p
      <4>1. At(d, p, i, m)' <=> i # 0 /\ At(d, p, i + 1, m)
        BY <1>4
      <4>2. i # 0 => i + 1 # 1 /\ i + 1 \in Nat
        OBVIOUS
      <4> QED
        BY <2>1, <3>1, <4>1, <4>2
    <3>2. CASE e # d \/ q # p
      <4>1. At(e, q, i, m)' <=> At(e, q, i, m)
        BY <1>5, <3>2
      <4> QED
        BY <2>1, <3>2, <4>1
    <3> QED
      BY <3>1, <3>2
  <2> QED
    BY <2>1, <2>2, <2>3, ThreadHas
<1>7. ASSUME NEW n \in Messages \ {m} PROVE Owned(n)'
  <2>1. SameHolders(n)
    BY <1>1, <1>2, <1>3 DEF SameHolders, OthersKeepHands
  <2>2. HeldBy(n)' <=> HeldBy(n)
    BY <2>1 DEF HeldBy, SameHolders
  <2>3. OneHolder(n)'
    BY <2>1 DEF OneHolder, SameHolders, OInv, Owned
  <2>4. OnePlace(n)'
    <3> SUFFICES ASSUME NEW e \in Dispatchers, NEW f \in Dispatchers,
                        NEW q \in 0..(Levels - 1), NEW r \in 0..(Levels - 1), NEW i \in Nat, NEW j \in Nat,
                        At(e, q, i, n)', At(f, r, j, n)'
                 PROVE  e = f /\ q = r /\ i = j
      BY DEF OnePlace
    <3> DEFINE k == IF e = d /\ q = p THEN i + 1 ELSE i
               l == IF f = d /\ r = p THEN j + 1 ELSE j
    <3>1. k \in Nat /\ l \in Nat /\ At(e, q, k, n) /\ At(f, r, l, n)
      BY <1>4, <1>5
    <3>2. e = f /\ q = r /\ k = l
      BY <3>1 DEF OInv, Owned, OnePlace
    <3> QED
      BY <3>2
  <2>5. Waits(n)' <=> Waits(n)
    <3>1. ASSUME NEW e \in Dispatchers, NEW q \in 0..(Levels - 1), NEW i \in Nat, At(e, q, i, n)'
          PROVE  Waits(n)
      <4> DEFINE k == IF e = d /\ q = p THEN i + 1 ELSE i
      <4>1. k \in Nat /\ At(e, q, k, n)
        BY <1>4, <1>5, <3>1
      <4> QED
        BY <4>1 DEF Waits
    <3>2. ASSUME NEW e \in Dispatchers, NEW q \in 0..(Levels - 1), NEW i \in Nat, At(e, q, i, n)
          PROVE  Waits(n)'
      <4>1. CASE e = d /\ q = p
        <5>1. i # 0 /\ i # 1
          BY <1>4, <3>2, <4>1
        <5>2. i - 1 \in Nat /\ i - 1 # 0 /\ (i - 1) + 1 = i
          BY <5>1
        <5>3. At(d, p, i - 1, n)'
          BY <1>4, <3>2, <4>1, <5>2
        <5> QED
          BY <5>2, <5>3 DEF Waits
      <4>2. CASE e # d \/ q # p
        BY <1>5, <3>2, <4>2 DEF Waits
      <4> QED
        BY <4>1, <4>2
    <3>3. Waits(n)' => Waits(n)
      BY <3>1 DEF Waits
    <3>4. Waits(n) => Waits(n)'
      BY <3>2 DEF Waits
    <3> QED
      BY <3>3, <3>4
  <2> QED
    BY <2>2, <2>3, <2>4, <2>5 DEF OInv, Owned
<1> QED
  BY <1>6, <1>7 DEF OInv

\* The queues of a dispatcher are emptied, and what was in them is freed.
LEMMA ClearedAway ==
  ASSUME OInv, QueuesOK, \A t \in Threads : hand'[t].m = hand[t].m, NEW d \in Dispatchers,
         message' = Forget(Queued(d)), message \in [Messages -> Contexts],
         queue' = [queue EXCEPT ![d] = [p \in DOMAIN @ |-> <<>>]]
  PROVE  OInv'
<1>1. /\ \A p \in 0..(Levels - 1) : queue'[d][p] = <<>>
      /\ \A e \in Dispatchers \ {d} : queue'[e] = queue[e]
  BY QueueEmptied
<1>2. \A e \in Dispatchers, p \in 0..(Levels - 1), i \in Nat : \A m :
         At(e, p, i, m)' <=> e # d /\ At(e, p, i, m)
  <2>1. DOMAIN <<>> = {}
    OBVIOUS
  <2> QED
    BY <1>1, <2>1 DEF At
<1>3. \A m : m \in Queued(d) <=> \E p \in 0..(Levels - 1), i \in Nat : At(d, p, i, m)
  <2> SUFFICES ASSUME NEW m PROVE m \in Queued(d) <=> \E p \in 0..(Levels - 1), i \in Nat : At(d, p, i, m)
    OBVIOUS
  <2>1. \A p \in 0..(Levels - 1) : \A i \in DOMAIN queue[d][p] : i \in Nat
    BY DEF QueuesOK
  <2>2. m \in Queued(d) <=> \E p \in 0..(Levels - 1) : \E i \in DOMAIN queue[d][p] : queue[d][p][i] = m
    BY DEF Queued, ToSet
  <2> QED
    BY <2>1, <2>2 DEF At
<1>4. \A n \in Messages : message'[n] = IF n \in Queued(d) THEN Freed(0, "ok") ELSE message[n]
  BY DEF Forget
<1>5. ASSUME NEW m \in Messages, m \in Queued(d) PROVE Owned(m)'
  <2>1. PICK p \in 0..(Levels - 1), i \in Nat : At(d, p, i, m)
    BY <1>3, <1>5
  <2>2. (\A t \in Threads : hand[t].m # m)
        /\ \A e \in Dispatchers, q \in 0..(Levels - 1), j \in Nat : At(e, q, j, m) => e = d
    BY <2>1, WaitsIsLive
  <2>3. message'[m].state # "live"
    BY <1>4, <1>5, FreedIs
  <2>4. \A e \in Dispatchers, q \in 0..(Levels - 1), j \in Nat : ~At(e, q, j, m)'
    BY <1>2, <2>2
  <2>5. \A t \in Threads : hand'[t].m # m
    BY <2>2
  <2> QED
    BY <2>3, <2>4, <2>5, NobodyHas
<1>6. ASSUME NEW m \in Messages, m \notin Queued(d) PROVE Owned(m)'
  <2>1. SameHolders(m) /\ SameState(m)
    BY <1>4, <1>6 DEF SameHolders, SameState
  <2>2. SamePlaces(m)
    BY <1>2, <1>3, <1>6 DEF SamePlaces
  <2> QED
    BY <2>1, <2>2, OwnedStays DEF OInv
<1> QED
  BY <1>5, <1>6 DEF OInv

IInv == WInv /\ OInv

LEMMA SameMessageState == UNCHANGED message => \A m \in Messages : SameState(m)
BY DEF SameState

LEMMA AdministerOwns ==
  ASSUME IInv, NEW t \in Admins, Administer(t)
  PROVE  IInv'
<1>1. t \in Callers /\ t \in Threads
  BY Distinct
<1>2. WInv /\ OInv /\ hand \in [Threads -> Hands]
  BY DEF IInv, WInv, TypeOK
<1>3. ASSUME NEW h, hand' = [hand EXCEPT ![t] = h], h.m = hand[t].m, UNCHANGED <<queue, message>>
      PROVE  OInv'
  BY <1>1, <1>2, <1>3, SameMessageState, KeptByThread
<1>4. CASE Start(t)
  <2>1. hand' = [hand EXCEPT ![t] = hand[t]] /\ UNCHANGED <<queue, message>>
    BY <1>2, <1>4 DEF Start
  <2> QED
    BY <1>1, <1>2, <1>3, <1>4, <2>1, StartKeeps DEF IInv
<1>5. ASSUME NEW d \in Dispatchers, AddDispatcher(t, d) PROVE IInv'
  <2>1. /\ hand' = [hand EXCEPT ![t] = [hand[t] EXCEPT !.o = d]] /\ UNCHANGED <<queue, message>> /\ WInv'
    BY <1>1, <1>2, <1>5, AddDispatcherKeeps DEF AddDispatcher
  <2>2. [hand[t] EXCEPT !.o = d].m = hand[t].m
    BY <1>1, <1>2 DEF Hands
  <2> QED
    BY <1>3, <2>1, <2>2 DEF IInv
<1>6. ASSUME NEW s \in Services, NEW i \in Slots, NEW r \in Remotes, InitService(t, s, i, r) PROVE IInv'
  BY <1>1, <1>2, <1>3, <1>6, InitServiceKeeps DEF IInv, InitService, Moves
<1>7. ASSUME NEW s \in Services, DestroyService(t, s) PROVE IInv'
  BY <1>1, <1>2, <1>3, <1>7, DestroyServiceKeeps DEF IInv, DestroyService, Moves
<1>8. CASE Shutdown(t)
  BY <1>1, <1>2, <1>3, <1>8, ShutdownKeeps DEF IInv, Shutdown, Moves
<1> QED
  BY <1>4, <1>5, <1>6, <1>7, <1>8 DEF Administer

LEMMA RequestOwns ==
  ASSUME IInv, NEW t \in Callers, Request(t)
  PROVE  IInv'
<1>1. t \in Threads /\ WInv /\ OInv /\ hand \in [Threads -> Hands] /\ message \in [Messages -> Contexts]
  BY Distinct DEF IInv, WInv, TypeOK
<1>2. PICK m \in Messages, request \in Traffic : Send(t, m, request)
  BY DEF Request
<1>3. PICK h \in Hands : /\ Moves(t, "target", h, <<>>) /\ h.m = m /\ hand[t].m = None /\ m \in Unsent
                         /\ message' = [message EXCEPT ![m] = [request EXCEPT !.state = "live"]]
                         /\ WInv' /\ request \in Contexts
  BY <1>1, <1>2, SendKeeps
<1>4. message[m].state = "unused" /\ UNCHANGED queue
  BY <1>2, <1>3 DEF Unsent, Send
<1>5. hand' = [hand EXCEPT ![t] = h]
  BY <1>3 DEF Moves
<1>6. message'[m].state = "live" /\ \A n \in Messages \ {m} : message'[n] = message[n]
  <2>1. [request EXCEPT !.state = "live"].state = "live"
    BY <1>3 DEF Contexts
  <2> QED
    BY <1>1, <1>3, <2>1
<1>7. OInv'
  BY <1>1, <1>3, <1>4, <1>5, <1>6, SentByThread
<1> QED
  BY <1>3, <1>7 DEF IInv

\* Disref clears the queues of a dispatcher it destroys.
LEMMA DisrefOwns ==
  ASSUME IInv, NEW t \in Threads, Disref(t)
  PROVE  IInv'
<1>1. WInv /\ OInv /\ hand \in [Threads -> Hands] /\ QueuesOK /\ message \in [Messages -> Contexts] /\ UNCHANGED hand
  BY InHand DEF IInv, WInv, TypeOK, Disref
<1>2. /\ WInv'
      /\ \/ UNCHANGED <<queue, message>>
         \/ /\ Head(drop[t]) \in Dispatchers /\ message' = Forget(Queued(Head(drop[t])))
            /\ queue' = [queue EXCEPT ![Head(drop[t])] = [p \in DOMAIN @ |-> <<>>]]
  BY <1>1, DisrefKeeps
<1>3. CASE UNCHANGED <<queue, message>>
  <2>1. hand' = [hand EXCEPT ![t] = hand[t]]
    BY <1>1
  <2> QED
    BY <1>1, <1>2, <1>3, <2>1, KeptByThread, SameMessageState DEF IInv
<1>4. CASE /\ Head(drop[t]) \in Dispatchers /\ message' = Forget(Queued(Head(drop[t])))
           /\ queue' = [queue EXCEPT ![Head(drop[t])] = [p \in DOMAIN @ |-> <<>>]]
  <2>1. PICK d \in Dispatchers : d = Head(drop[t])
    BY <1>4
  <2>2. message' = Forget(Queued(d)) /\ queue' = [queue EXCEPT ![d] = [p \in DOMAIN @ |-> <<>>]]
    BY <1>4, <2>1
  <2>3. \A u \in Threads : hand'[u].m = hand[u].m
    BY <1>1
  <2> QED
    BY <1>1, <1>2, <2>2, <2>3, ClearedAway DEF IInv
<1> QED
  BY <1>2, <1>3, <1>4

\* What a caller returns with is freed.
LEMMA ReturnOwns ==
  ASSUME IInv, NEW t \in Callers, Return(t)
  PROVE  IInv'
<1>1. t \in Threads /\ WInv /\ OInv /\ hand \in [Threads -> Hands] /\ message \in [Messages -> Contexts]
  BY Distinct DEF IInv, WInv, TypeOK
<1>2. /\ hand' = [hand EXCEPT ![t] = Nothing] /\ message' = Forget({hand[t].m})
      /\ WInv' /\ UNCHANGED queue /\ Nothing.m = None
  BY <1>1, ReturnKeeps, HandsAre DEF Moves, Return
<1>3. \A n \in Messages : message'[n] = IF n = hand[t].m THEN Freed(0, "ok") ELSE message[n]
  BY <1>2 DEF Forget
<1>4. CASE hand[t].m = None
  <2>1. \A n \in Messages : SameState(n)
    BY <1>3, <1>4, Distinct DEF SameState
  <2> QED
    BY <1>1, <1>2, <1>4, <2>1, KeptByThread DEF IInv
<1>5. CASE hand[t].m # None
  <2>1. hand[t] \in Hands
    BY <1>1
  <2>2. PICK m \in Messages : m = hand[t].m
    BY <1>5, <2>1 DEF Hands
  <2>3. message'[m].state # "live" /\ \A n \in Messages \ {m} : message'[n] = message[n]
    BY <1>3, <2>2, FreedIs
  <2> QED
    BY <1>1, <1>2, <2>2, <2>3, FreedByThread DEF IInv
<1> QED
  BY <1>4, <1>5

\* A thread goes on with its message, or frees it, and leaves the queues alone.
LEMMA OwnedByThread ==
  ASSUME IInv, NEW t \in Threads, NEW label, NEW h, NEW xs, Moves(t, label, h, xs), UNCHANGED queue,
         \/ h.m = hand[t].m /\ \A m \in Messages : SameState(m)
         \/ /\ h.m = None /\ hand[t].m \in Messages
            /\ message'[hand[t].m].state # "live"
            /\ \A n \in Messages \ {hand[t].m} : message'[n] = message[n]
  PROVE  OInv'
<1>1. OInv /\ hand \in [Threads -> Hands] /\ hand' = [hand EXCEPT ![t] = h]
  BY DEF IInv, WInv, TypeOK, Moves
<1>2. CASE h.m = hand[t].m /\ \A m \in Messages : SameState(m)
  BY <1>1, <1>2, KeptByThread
<1>3. CASE /\ h.m = None /\ hand[t].m \in Messages
           /\ message'[hand[t].m].state # "live"
           /\ \A n \in Messages \ {hand[t].m} : message'[n] = message[n]
  <2>1. PICK m \in Messages : m = hand[t].m
    BY <1>3
  <2>2. /\ h.m = None /\ message'[m].state # "live"
        /\ \A n \in Messages \ {m} : message'[n] = message[n]
    BY <1>3, <2>1
  <2> QED
    BY <1>1, <2>1, <2>2, FreedByThread
<1> QED
  BY <1>2, <1>3

\* Freeing a message by giving up, and by its last handler.
LEMMA FreedMessage ==
  ASSUME NEW m \in Messages, message \in [Messages -> Contexts],
         NEW told \in 0..1, NEW err \in {"ok", "full", "failed"},
         message' = [message EXCEPT ![m] = Freed(told, err)]
  PROVE  message'[m].state # "live" /\ \A n \in Messages \ {m} : message'[n] = message[n]
BY FreedIs

LEMMA KeptFields ==
  ASSUME NEW h \in Hands, NEW x
  PROVE  [h EXCEPT !.o = x].m = h.m /\ [h EXCEPT !.rsp = x].m = h.m
BY DEF Hands

LEMMA CallerStepOwns ==
  ASSUME IInv, NEW t \in Callers, CallerStep(t)
  PROVE  IInv'
<1>1. t \in Threads /\ WInv /\ OInv /\ hand \in [Threads -> Hands] /\ message \in [Messages -> Contexts]
      /\ hand[t] \in Hands /\ QueuesOK
  BY Distinct, InHand DEF IInv, WInv, TypeOK
<1>2. ASSUME NEW label, NEW h, NEW xs, Moves(t, label, h, xs), h.m = hand[t].m, UNCHANGED <<queue, message>>
      PROVE  OInv'
  BY <1>1, <1>2, OwnedByThread, SameMessageState
<1>3. ASSUME NEW i \in Slots, RegDispatcher(t, i) PROVE IInv'
  <2>1. hand[t].m = None /\ Nothing.m = None /\ UNCHANGED <<queue, message>>
    BY <1>1, <1>3, RegDispatcherKeeps, HandsAre DEF RegDispatcher
  <2> QED
    BY <1>1, <1>2, <1>3, <2>1, RegDispatcherKeeps DEF IInv
<1>4. ASSUME NEW i \in Slots, ShutdownDispatcher(t, i) PROVE IInv'
  BY <1>1, <1>2, <1>4, ShutdownDispatcherKeeps DEF IInv, ShutdownDispatcher
<1>5. CASE ShutdownEnd(t)
  BY <1>1, <1>2, <1>5, ShutdownEndKeeps DEF IInv, ShutdownEnd
<1>6. CASE Return(t)
  BY <1>6, ReturnOwns
<1>7. CASE RefTarget(t)
  <2>1. UNCHANGED <<queue, message>>
    BY <1>7 DEF RefTarget
  <2> QED
    BY <1>1, <1>2, <1>7, <2>1, RefTargetKeeps, KeptFields DEF IInv
<1>8. CASE SendSync(t)
  <2>1. /\ pc[t] = "send" /\ Moves(t, "drop", Keeping(hand[t].m), <<hand[t].o>>) /\ WInv'
        /\ UNCHANGED queue /\ message' = [message EXCEPT ![hand[t].m].kind = "rsp"]
    BY <1>1, <1>8, SendSyncKeeps DEF SendSync, MessageOf
  <2>2. hand[t].m \in Messages /\ Keeping(hand[t].m).m = hand[t].m
    BY <1>1, <2>1, WorkingHand, HandsAre DEF WithMessage
  <2>3. \A n \in Messages : SameState(n)
    BY <1>1, <2>1, <2>2 DEF SameState, Contexts
  <2> QED
    BY <1>1, <2>1, <2>2, <2>3, OwnedByThread DEF IInv
<1>9. CASE SendAsync(t)
  <2>1. hand[t].m \in Messages /\ Keeping(hand[t].m).m = hand[t].m
    BY <1>1, <1>9, WorkingHand, HandsAre DEF WithMessage, SendAsync
  <2>2. UNCHANGED <<queue, message>>
    BY <1>9 DEF SendAsync
  <2> QED
    BY <1>1, <1>2, <1>9, <2>1, <2>2, SendAsyncKeeps DEF IInv
<1>10. CASE Push(t)
  <2>1. /\ hand[t].m \in Messages /\ Keeping(hand[t].m).m = hand[t].m /\ Nothing.m = None
        /\ UNCHANGED message
    BY <1>1, <1>10, PushKeepsAll, HandsAre DEF Push
  <2>2. CASE Moves(t, "drop", Keeping(hand[t].m), <<hand[t].o>>) /\ UNCHANGED queue
    BY <1>1, <1>2, <1>10, <2>1, <2>2, PushKeepsAll DEF IInv
  <2>3. CASE /\ Moves(t, "drop", Nothing, <<hand[t].o>>)
             /\ ~IsFull(remote[hand[t].o].dispatcher, hand[t].pri)
             /\ queue' = Enqueued(remote[hand[t].o].dispatcher, hand[t].pri, hand[t].m)
    <3>1. PICK d \in Dispatchers, p \in 0..(Levels - 1), m \in Messages :
             d = remote[hand[t].o].dispatcher /\ p = hand[t].pri /\ m = hand[t].m
      BY <1>1, <1>10, PushKeepsAll
    <3>2. queue' = Enqueued(d, p, m) /\ hand' = [hand EXCEPT ![t] = Nothing]
      BY <2>3, <3>1 DEF Moves
    <3>3. ~IsFull(d, p)
      BY <2>3, <3>1
    <3>4. /\ queue'[d][p] = Append(queue[d][p], m)
          /\ \A e \in Dispatchers, q \in 0..(Levels - 1) : e # d \/ q # p => queue'[e][q] = queue[e][q]
      BY <1>1, <3>2, <3>3, EnqueueKeeps
    <3>5. OInv'
      <4>1. OInv /\ QueuesOK /\ t \in Threads /\ UNCHANGED message
        BY <1>1, <2>1
      <4>2. OthersKeepHands(t) /\ hand[t].m \in Messages /\ hand'[t].m = None
        BY <1>1, <2>1, <3>2 DEF OthersKeepHands
      <4>3. OthersKeepQueues(d, p) /\ queue'[d][p] = Append(queue[d][p], hand[t].m)
        BY <3>1, <3>4 DEF OthersKeepQueues
      <4> QED
        BY ONLY <4>1, <4>2, <4>3, d \in Dispatchers, p \in 0..(Levels - 1), PushedByThread
    <3> QED
      BY <1>1, <1>10, <3>5, PushKeepsAll DEF IInv
  <2> QED
    BY <1>1, <1>10, <2>2, <2>3, PushKeepsAll
<1>11. CASE Disref(t)
  BY <1>1, <1>11, DisrefOwns
<1> QED
  BY <1>3, <1>4, <1>5, <1>6, <1>7, <1>8, <1>9, <1>10, <1>11 DEF CallerStep

LEMMA DispatcherStepOwns ==
  ASSUME IInv, NEW d \in Dispatchers, DispatcherStep(d)
  PROVE  IInv'
<1>1. d \in Threads /\ WInv /\ OInv /\ hand \in [Threads -> Hands] /\ message \in [Messages -> Contexts]
      /\ hand[d] \in Hands /\ QueuesOK
  BY Distinct, InHand DEF IInv, WInv, TypeOK
<1>2. ASSUME NEW label, NEW h, NEW xs, Moves(d, label, h, xs), h.m = hand[d].m, UNCHANGED <<queue, message>>
      PROVE  OInv'
  BY <1>1, <1>2, OwnedByThread, SameMessageState
<1>3. ASSUME NEW label, NEW xs, Moves(d, label, Nothing, xs), UNCHANGED queue, hand[d].m \in Messages,
             NEW told \in 0..1, NEW err \in {"ok", "full", "failed"},
             message' = [message EXCEPT ![hand[d].m] = Freed(told, err)]
      PROVE  OInv'
  <2>1. PICK m \in Messages : m = hand[d].m
    BY <1>3
  <2>2. message' = [message EXCEPT ![m] = Freed(told, err)] /\ Nothing.m = None
    BY <1>3, <2>1, HandsAre
  <2>3. message'[m].state # "live" /\ \A n \in Messages \ {m} : message'[n] = message[n]
    BY <1>1, <2>2, FreedMessage
  <2> QED
    BY <1>1, <1>3, <2>1, <2>2, <2>3, OwnedByThread
<1>4. pc[d] \in WithMessage => hand[d].m \in Messages
  BY <1>1, WorkingHand
<1>5. CASE BeginThread(d)
  BY <1>1, <1>2, <1>5, BeginThreadKeeps DEF IInv, BeginThread
<1>6. CASE StopRunning(d)
  BY <1>1, <1>2, <1>6, StopRunningKeeps DEF IInv, StopRunning
<1>7. CASE PopLevel(d)
  <2>1. UNCHANGED message
    BY <1>7 DEF PopLevel
  <2>2. CASE \E label \in {"pop", "check"}, h \in Hands :
                /\ Moves(d, label, h, <<>>) /\ UNCHANGED queue
                /\ h.m = None /\ h.o = None /\ h.rsp = None
    <3>1. hand[d].m = None
      BY <1>1, <1>7, LoopHand DEF PopLevel
    <3> QED
      BY <1>1, <1>2, <1>7, <2>1, <2>2, <3>1, PopLevelKeeps DEF IInv
  <2>3. CASE /\ queue[d][hand[d].pri] # <<>>
             /\ Moves(d, "handle", Keeping(Head(queue[d][hand[d].pri])), <<>>)
             /\ queue' = [queue EXCEPT ![d][hand[d].pri] = Tail(@)]
    <3>1. PICK p \in 0..(Levels - 1) : p = hand[d].pri
      BY <1>1, <1>7, PopLevelKeeps
    <3>2. /\ queue[d][p] # <<>> /\ queue' = [queue EXCEPT ![d][p] = Tail(@)]
          /\ hand' = [hand EXCEPT ![d] = Keeping(Head(queue[d][p]))]
      BY <2>3, <3>1 DEF Moves
    <3>3. /\ queue'[d][p] = Tail(queue[d][p]) /\ Head(queue[d][p]) \in Messages
          /\ \A e \in Dispatchers, q \in 0..(Levels - 1) : e # d \/ q # p => queue'[e][q] = queue[e][q]
      BY <1>1, <3>2, DequeueKeeps
    <3>4. Keeping(Head(queue[d][p])).m = Head(queue[d][p])
      BY <3>3, HandsAre
    <3>5. hand[d].m = None
      BY <1>1, <1>7, LoopHand DEF PopLevel
    <3>6. PICK h \in {Keeping(Head(queue[d][p]))} : h = Keeping(Head(queue[d][p]))
      OBVIOUS
    <3>7. /\ hand' = [hand EXCEPT ![d] = h] /\ h.m = Head(queue[d][p])
          /\ queue[d][p] # <<>> /\ queue'[d][p] = Tail(queue[d][p])
          /\ UNCHANGED message
      BY <2>1, <3>2, <3>3, <3>4, <3>6
    <3>8. OInv'
      <4>1. OInv /\ QueuesOK /\ d \in Threads /\ UNCHANGED message
        BY <1>1, <3>7
      <4>2. OthersKeepHands(d) /\ hand[d].m = None /\ hand'[d].m = Head(queue[d][p])
        BY <1>1, <3>5, <3>7 DEF OthersKeepHands
      <4>3. OthersKeepQueues(d, p) /\ queue[d][p] # <<>> /\ queue'[d][p] = Tail(queue[d][p])
        BY <3>3, <3>7 DEF OthersKeepQueues
      <4> QED
        BY ONLY <4>1, <4>2, <4>3, d \in Dispatchers, p \in 0..(Levels - 1), PoppedByThread
    <3> QED
      BY <1>1, <1>7, <3>8, PopLevelKeeps DEF IInv
  <2> QED
    BY <1>1, <1>7, <2>2, <2>3, PopLevelKeeps
<1>8. CASE HandleResponse(d)
  <2>1. hand[d].m \in Messages
    BY <1>4, <1>8 DEF HandleResponse, WithMessage
  <2>2. message[hand[d].m].state = "live"
    BY <1>1, <2>1, HeldIsLive
  <2>3. /\ Moves(d, "check", Nothing, <<>>) /\ WInv'
        /\ message' = [message EXCEPT ![hand[d].m] = Freed(1, "ok")] /\ UNCHANGED queue
    BY <1>1, <1>8, <2>2, HandleResponseKeeps DEF HandleResponse
  <2> QED
    BY <1>3, <2>1, <2>3 DEF IInv
<1>9. CASE RefHandler(d)
  <2>1. hand[d].m \in Messages /\ UNCHANGED queue
    BY <1>4, <1>9 DEF RefHandler, WithMessage
  <2>2. 0 \in 0..1 /\ "failed" \in {"ok", "full", "failed"}
    OBVIOUS
  <2>3. CASE /\ Moves(d, "drop", Nothing, <<>>)
             /\ message' = [message EXCEPT ![hand[d].m] = Freed(0, "failed")]
    BY <1>1, <1>3, <1>9, <2>1, <2>2, <2>3, RefHandlerKeeps DEF IInv
  <2>4. CASE /\ UNCHANGED message
             /\ \E s \in Services : Moves(d, "exec", [hand[d] EXCEPT !.o = index[s]], <<>>)
    <3>1. PICK s \in Services : Moves(d, "exec", [hand[d] EXCEPT !.o = index[s]], <<>>)
      BY <2>4
    <3>2. [hand[d] EXCEPT !.o = index[s]].m = hand[d].m
      BY <1>1, KeptFields
    <3> QED
      BY <1>1, <1>2, <1>9, <2>1, <2>4, <3>1, <3>2, RefHandlerKeeps DEF IInv
  <2> QED
    BY <1>1, <1>9, <2>3, <2>4, RefHandlerKeeps
<1>10. CASE ExecRequest(d)
  <2>1. hand[d].m \in Messages /\ UNCHANGED queue /\ Nothing.m = None
    BY <1>4, <1>10, HandsAre DEF ExecRequest, WithMessage
  <2>2. CASE Moves(d, "reply", hand[d], <<>>) /\ message' = [message EXCEPT ![hand[d].m].kind = "rsp"]
    <3>1. \A n \in Messages : SameState(n)
      BY <1>1, <2>1, <2>2 DEF SameState, Contexts
    <3> QED
      BY <1>1, <1>10, <2>1, <2>2, <3>1, OwnedByThread, ExecRequestKeeps DEF IInv
  <2>3. CASE Moves(d, "drop", Nothing, <<hand[d].o>>) /\ message' = Forget({hand[d].m})
    <3>1. message'[hand[d].m].state # "live" /\ \A n \in Messages \ {hand[d].m} : message'[n] = message[n]
      BY <2>1, <2>3, FreedIs DEF Forget
    <3> QED
      BY <1>1, <1>10, <2>1, <2>3, <3>1, OwnedByThread, ExecRequestKeeps DEF IInv
  <2> QED
    BY <1>1, <1>10, <2>2, <2>3, ExecRequestKeeps
<1>11. CASE RefSender(d)
  <2>1. hand[d].m \in Messages /\ UNCHANGED queue
    BY <1>4, <1>11 DEF RefSender, WithMessage
  <2>2. 0 \in 0..1 /\ "failed" \in {"ok", "full", "failed"}
    OBVIOUS
  <2>3. CASE /\ Moves(d, "drop", Nothing, <<hand[d].o>>)
             /\ message' = [message EXCEPT ![hand[d].m] = Freed(0, "failed")]
    BY <1>1, <1>3, <1>11, <2>1, <2>2, <2>3, RefSenderKeeps DEF IInv
  <2>4. CASE /\ UNCHANGED message
             /\ \E s \in Services : Moves(d, "append", [hand[d] EXCEPT !.rsp = index[s]], <<>>)
    <3>1. PICK s \in Services : Moves(d, "append", [hand[d] EXCEPT !.rsp = index[s]], <<>>)
      BY <2>4
    <3>2. [hand[d] EXCEPT !.rsp = index[s]].m = hand[d].m
      BY <1>1, KeptFields
    <3> QED
      BY <1>1, <1>2, <1>11, <2>1, <2>4, <3>1, <3>2, RefSenderKeeps DEF IInv
  <2> QED
    BY <1>1, <1>11, <2>3, <2>4, RefSenderKeeps
<1>12. CASE AppendReply(d)
  <2>1. hand[d].m \in Messages /\ UNCHANGED queue
    BY <1>4, <1>12 DEF AppendReply, WithMessage
  <2>2. 0 \in 0..1 /\ "failed" \in {"ok", "full", "failed"}
    OBVIOUS
  <2>3. CASE /\ Moves(d, "drop", Nothing, <<hand[d].o, hand[d].rsp>>)
             /\ message' = [message EXCEPT ![hand[d].m] = Freed(0, "failed")]
    BY <1>1, <1>3, <1>12, <2>1, <2>2, <2>3, AppendReplyKeeps DEF IInv
  <2>4. CASE Moves(d, "push", hand[d], <<>>) /\ UNCHANGED message
    BY <1>1, <1>2, <1>12, <2>1, <2>4, AppendReplyKeeps DEF IInv
  <2> QED
    BY <1>1, <1>12, <2>3, <2>4, AppendReplyKeeps
<1>13. CASE PushReply(d)
  <2>1. /\ hand[d].m \in Messages /\ Nothing.m = None
        /\ Moves(d, "drop", Nothing, <<hand[d].o, hand[d].rsp>>) /\ WInv'
    BY <1>1, <1>13, PushReplyKeeps, HandsAre
  <2>2. CASE UNCHANGED queue /\ message' = [message EXCEPT ![hand[d].m] = Freed(0, "full")]
    BY <1>3, <2>1, <2>2 DEF IInv
  <2>3. CASE /\ ~IsFull(ReplyVia(d), 0)
             /\ queue' = Enqueued(ReplyVia(d), 0, hand[d].m) /\ UNCHANGED message
    <3>1. PICK e \in Dispatchers, m \in Messages : e = ReplyVia(d) /\ m = hand[d].m
      BY <1>1, <1>13, PushReplyKeeps
    <3>2. queue' = Enqueued(e, 0, m) /\ ~IsFull(e, 0) /\ hand' = [hand EXCEPT ![d] = Nothing] /\ 0 \in 0..(Levels - 1)
      BY <2>1, <2>3, <3>1, MessageBounds DEF Moves
    <3>3. /\ queue'[e][0] = Append(queue[e][0], m)
          /\ \A f \in Dispatchers, q \in 0..(Levels - 1) : f # e \/ q # 0 => queue'[f][q] = queue[f][q]
      BY <1>1, <3>2, EnqueueKeeps
    <3>4. OInv'
      <4>1. OInv /\ QueuesOK /\ d \in Threads /\ UNCHANGED message
        BY <1>1, <2>3
      <4>2. OthersKeepHands(d) /\ hand[d].m \in Messages /\ hand'[d].m = None
        BY <1>1, <2>1, <3>2 DEF OthersKeepHands
      <4>3. /\ OthersKeepQueues(e, 0) /\ queue'[e][0] = Append(queue[e][0], hand[d].m)
            /\ 0 \in 0..(Levels - 1)
        BY <3>1, <3>2, <3>3 DEF OthersKeepQueues
      <4> QED
        BY ONLY <4>1, <4>2, <4>3, e \in Dispatchers, PushedByThread
    <3> QED
      BY <2>1, <3>4 DEF IInv
  <2> QED
    BY <1>1, <1>13, <2>2, <2>3, PushReplyKeeps
<1>14. CASE HandlingDone(d)
  BY <1>1, <1>2, <1>14, HandlingDoneKeeps DEF IInv, HandlingDone
<1>15. CASE Drain(d)
  <2>1. WInv'
    BY <1>1, <1>15, DrainKeeps
  <2>2. CASE /\ Moves(d, "drain", hand[d], <<>>)
             /\ message' = Forget(Queued(d))
             /\ queue' = [queue EXCEPT ![d] = [p \in DOMAIN @ |-> <<>>]]
    <3>1. \A u \in Threads : hand'[u].m = hand[u].m
      BY <1>1, <2>2 DEF Moves
    <3> QED
      BY <1>1, <2>1, <2>2, <3>1, ClearedAway DEF IInv
  <2>3. CASE Moves(d, "drop", [hand[d] EXCEPT !.o = d], <<d>>) /\ UNCHANGED <<queue, message>>
    BY <1>1, <1>2, <2>1, <2>3, KeptFields DEF IInv
  <2> QED
    BY <1>1, <1>15, <2>2, <2>3, DrainKeeps
<1>16. CASE Disref(d)
  BY <1>1, <1>16, DisrefOwns
<1> QED
  BY <1>5, <1>6, <1>7, <1>8, <1>9, <1>10, <1>11, <1>12, <1>13, <1>14, <1>15, <1>16 DEF DispatcherStep

LEMMA RouterInit == Init => IInv
<1> SUFFICES ASSUME Init PROVE IInv
  OBVIOUS
<1>1. TypeOK
  <2>1. router \in [status : {"STOPPED", "RUNNING", "STOPPING"}, lock : Callers \cup {None}, starts : 0..MaxStarts]
    BY MessageBounds DEF Init
  <2>2. /\ index \in [Services -> Remotes \cup {None}] /\ slots \in [Slots -> Dispatchers \cup {None}]
        /\ remote \in [Remotes -> [id : Services \cup {None}, dispatcher : Dispatchers \cup {None}]]
        /\ shared \in [Objects -> [status : Statuses, refs : Int]] /\ owned \subseteq Services
    BY DEF Init, Statuses
  <2>3. /\ queue \in [Dispatchers -> [0..(Levels - 1) -> Seq(Messages)]]
        /\ \A d \in Dispatchers, p \in 0..(Levels - 1) : Len(queue[d][p]) <= QueueSize
    BY MessageBounds DEF Init
  <2>4. message \in [Messages -> Contexts]
    BY DEF Init, Blank, Contexts
  <2>5. /\ pc \in [Threads -> CallerLabels \cup DispatcherLabels] /\ drop \in [Threads -> Seq(Objects)]
        /\ \A t \in Threads : pc[t] \in IF t \in Callers THEN CallerLabels ELSE DispatcherLabels
    BY DEF Init, CallerLabels, DispatcherLabels
  <2>6. hand \in [Threads -> Hands]
    BY HandsAre DEF Init
  <2> QED
    BY <2>1, <2>2, <2>3, <2>4, <2>5, <2>6 DEF TypeOK
<1>2. AllFit
  <2> SUFFICES ASSUME NEW t \in Threads PROVE Fits(t, pc[t], hand[t], drop[t])
    BY DEF AllFit
  <2>1. hand[t] = Nothing /\ drop[t] = <<>> /\ pc[t] = IF t \in Callers THEN "idle" ELSE "off"
    BY DEF Init
  <2> QED
    BY <2>1, HandsAre, Distinct
    DEF Fits, WithMessage, WithTarget, Releasing, CallerLabels, DispatcherLabels
<1>3. HoldsMutex /\ IndexRunning
  BY DEF Init, HoldsMutex, IndexRunning
<1>4. ThreadsKnow
  BY HandsAre DEF Init, ThreadsKnow, KnownTo
<1>5. PlacedKnown
  BY Distinct DEF Init, PlacedKnown, Known
<1>6. UnknownOff
  BY HandsAre, Distinct DEF Init, UnknownOff
<1>7. ToldLater
  BY DEF Init, ToldLater, Blank
<1>8. OInv
  <2> SUFFICES ASSUME NEW m \in Messages PROVE Owned(m)
    BY DEF OInv
  <2>1. \A t \in Threads : hand[t].m # m
    BY HandsAre, Distinct DEF Init
  <2>2. \A d \in Dispatchers, p \in 0..(Levels - 1), i \in Nat : ~At(d, p, i, m)
    BY DEF Init, At
  <2>3. message[m].state # "live"
    BY DEF Init, Blank
  <2> QED
    BY <2>1, <2>2, <2>3 DEF Owned, OneHolder, OnePlace, HeldBy, Waits
<1> QED
  BY <1>1, <1>2, <1>3, <1>4, <1>5, <1>6, <1>7, <1>8 DEF IInv, WInv

LEMMA RouterStep == IInv /\ [Next]_vars => IInv'
<1> SUFFICES ASSUME IInv, [Next]_vars PROVE IInv'
  OBVIOUS
<1>1. CASE \E t \in Admins : Administer(t)
  <2>1. PICK t \in Admins : Administer(t)
    BY <1>1
  <2> QED
    BY <2>1, AdministerOwns
<1>2. CASE \E t \in Callers \ Admins : Request(t)
  BY <1>2, RequestOwns
<1>3. CASE \E t \in Callers : CallerStep(t)
  BY <1>3, CallerStepOwns
<1>4. CASE \E d \in Dispatchers : DispatcherStep(d)
  BY <1>4, DispatcherStepOwns
<1>5. CASE UNCHANGED vars
  <2> USE <1>5 DEF vars, IInv
  <2>1. TypeOK'
    BY DEF WInv, TypeOK
  <2>2. AllFit' /\ HoldsMutex' /\ IndexRunning'
    BY DEF WInv, AllFit, Fits, HoldsMutex, IndexRunning
  <2>3. ThreadsKnow' /\ PlacedKnown' /\ UnknownOff' /\ ToldLater'
    BY DEF WInv, ThreadsKnow, KnownTo, PlacedKnown, UnknownOff, ToldLater, Known
  <2>4. OInv'
    BY DEF OInv, Owned, OneHolder, OnePlace, HeldBy, Waits, At
  <2> QED
    BY <2>1, <2>2, <2>3, <2>4 DEF WInv
<1> QED
  BY <1>1, <1>2, <1>3, <1>4, <1>5 DEF Next

(* The states of the router, of the objects and of the messages, the place   *)
(* of every thread in its call and what it has in hand stay within the       *)
(* values the code gives them, whatever calls, sends and shutdowns overlap;  *)
(* no queue of a dispatcher grows over its size.                             *)
THEOREM TypeCorrect == Spec => []TypeOK
<1>1. IInv => TypeOK
  BY DEF IInv, WInv
<1> QED
  BY <1>1, RouterInit, RouterStep, PTL DEF Spec

\* One holder and no place, one place and no holder, or nobody at all.
LEMMA OwnedCounted ==
  ASSUME TypeOK, NEW m \in Messages, Owned(m)
  PROVE  Cardinality(Holders(m)) + Cardinality(Places(m)) = IF message[m].state = "live" THEN 1 ELSE 0
<1>1. HeldBy(m) => Cardinality(Holders(m)) = 1
  <2> SUFFICES ASSUME HeldBy(m) PROVE Cardinality(Holders(m)) = 1
    OBVIOUS
  <2>1. PICK t \in Threads : hand[t].m = m
    BY DEF HeldBy
  <2>2. Holders(m) = {t}
    BY <2>1 DEF Owned, OneHolder, Holders
  <2> QED
    BY <2>2, FS_Singleton
<1>2. ~HeldBy(m) => Cardinality(Holders(m)) = 0
  <2>1. ~HeldBy(m) => Holders(m) = {}
    BY DEF HeldBy, Holders
  <2> QED
    BY <2>1, FS_EmptySet
<1>3. \A x : x \in Places(m) <=> \E d \in Dispatchers, p \in 0..(Levels - 1) :
                                  \E i \in DOMAIN queue[d][p] : queue[d][p][i] = m /\ x = <<d, p, i>>
  <2> DEFINE there(d, p) == {<<d, p, i>> : i \in {i \in DOMAIN queue[d][p] : queue[d][p][i] = m}}
  <2>1. Places(m) = UNION {there(d, p) : d \in Dispatchers, p \in 0..(Levels - 1)}
    BY DEF Places
  <2>2. \A x : \A d, p : x \in there(d, p) <=>
                  \E i \in DOMAIN queue[d][p] : queue[d][p][i] = m /\ x = <<d, p, i>>
    OBVIOUS
  <2> HIDE DEF there
  <2>3. \A x : x \in Places(m) <=> \E d \in Dispatchers, p \in 0..(Levels - 1) : x \in there(d, p)
    BY <2>1
  <2> QED
    BY <2>2, <2>3
<1>4. \A d \in Dispatchers, p \in 0..(Levels - 1) : \A i \in DOMAIN queue[d][p] : i \in Nat
  <2> SUFFICES ASSUME NEW d \in Dispatchers, NEW p \in 0..(Levels - 1) PROVE \A i \in DOMAIN queue[d][p] : i \in Nat
    OBVIOUS
  <2>1. queue \in [Dispatchers -> [0..(Levels - 1) -> Seq(Messages)]]
    BY DEF TypeOK
  <2>2. PICK q \in Seq(Messages) : q = queue[d][p]
    BY <2>1
  <2>3. DOMAIN q = 1..Len(q) /\ Len(q) \in Nat
    OBVIOUS
  <2> QED
    BY <2>2, <2>3
<1>5. Waits(m) => Cardinality(Places(m)) = 1
  <2> SUFFICES ASSUME Waits(m) PROVE Cardinality(Places(m)) = 1
    OBVIOUS
  <2>1. PICK d \in Dispatchers, p \in 0..(Levels - 1), i \in Nat : At(d, p, i, m)
    BY DEF Waits
  <2>2. <<d, p, i>> \in Places(m)
    BY <1>3, <2>1 DEF At
  <2>3. ASSUME NEW x \in Places(m) PROVE x = <<d, p, i>>
    <3>1. PICK e \in Dispatchers, q \in 0..(Levels - 1) :
                 \E j \in DOMAIN queue[e][q] : queue[e][q][j] = m /\ x = <<e, q, j>>
      BY <1>3
    <3>2. PICK j \in DOMAIN queue[e][q] : queue[e][q][j] = m /\ x = <<e, q, j>>
      BY <3>1
    <3>3. j \in Nat /\ At(e, q, j, m)
      BY <1>4, <3>2 DEF At
    <3>4. e = d /\ q = p /\ j = i
      BY <2>1, <3>3 DEF Owned, OnePlace
    <3> QED
      BY <3>2, <3>4
  <2>4. Places(m) = {<<d, p, i>>}
    BY <2>2, <2>3
  <2> QED
    BY <2>4, FS_Singleton
<1>6. ~Waits(m) => Cardinality(Places(m)) = 0
  <2>1. ~Waits(m) => Places(m) = {}
    BY <1>3, <1>4 DEF Waits, At
  <2> QED
    BY <2>1, FS_EmptySet
<1> QED
  BY <1>1, <1>2, <1>5, <1>6 DEF Owned

(* A message context in memory is in one thread's hand or at one place of    *)
(* one queue, and nowhere once it was freed: whatever is refused, popped,    *)
(* answered, drained or left behind by a dispatcher, it is freed by one side *)
(* and by one only.                                                          *)
THEOREM MessagesOwned == Spec => []OneOwner
<1>1. IInv => OneOwner
  BY OwnedCounted DEF IInv, WInv, OInv, OneOwner
<1> QED
  BY <1>1, RouterInit, RouterStep, PTL DEF Spec

-----------------------------------------------------------------------------
(* The units of an object: those of one thread, and those of the others.    *)

Bit(b) == IF b THEN 1 ELSE 0

\* What a thread has of object x where it is in its call: its own unit, what it
\* works with, and what it has to release.
Runs(t, label, h, x)  == t \in Dispatchers /\ t = x /\ label \notin {"off", "begin"} /\ h.o # t
Uses(label, h, x)     == h.o = x /\ label \in {"starting", "send", "push", "exec", "reply", "append"}
Answers(label, h, x)  == h.rsp = x /\ label \in {"append", "push"}
Part(t, xs, x)        == {<<t, Len(xs) - i>> : i \in {i \in DOMAIN xs : xs[i] = x}}
Listing(t, xs, x)     == Cardinality(Part(t, xs, x))
Mine(t, label, h, xs, x) ==
    Bit(Runs(t, label, h, x)) + Bit(Uses(label, h, x)) + Bit(Answers(label, h, x)) + Listing(t, xs, x)

Inner(x) == Cardinality(Running(x)) + Cardinality(Using(x)) + Cardinality(Answering(x))
                + Cardinality(Dropping(x))
Outer(x) == Cardinality(Indexed(x)) + Cardinality(Placed(x)) + Cardinality(Hosted(x))

AllParts(xss, x) == UNION {Part(u, xss[u], x) : u \in Threads}

LEMMA OneChanges ==
  ASSUME NEW S, NEW T, NEW e, IsFiniteSet(S), \A y : y # e => (y \in S <=> y \in T)
  PROVE  IsFiniteSet(T) /\ Cardinality(T) = Cardinality(S) - Bit(e \in S) + Bit(e \in T)
<1>1. IsFiniteSet(S \ {e}) /\ Cardinality(S \ {e}) = Cardinality(S) - Bit(e \in S)
  BY FS_RemoveElement, FS_CardinalityType DEF Bit
<1>2. CASE e \in T
  <2>1. T = (S \ {e}) \cup {e}
    BY <1>2
  <2> QED
    BY <1>1, <1>2, <2>1, FS_AddElement, FS_CardinalityType DEF Bit
<1>3. CASE e \notin T
  <2>1. T = S \ {e}
    BY <1>3
  <2> QED
    BY <1>1, <1>3, <2>1, FS_CardinalityType DEF Bit
<1> QED
  BY <1>2, <1>3

LEMMA ApartCounts ==
  ASSUME NEW S, NEW T, IsFiniteSet(S), IsFiniteSet(T), S \cap T = {}
  PROVE  Cardinality(S \cup T) = Cardinality(S) + Cardinality(T)
<1>1. Cardinality(S \cap T) = 0
  BY FS_EmptySet
<1>2. Cardinality(S) \in Nat /\ Cardinality(T) \in Nat
  BY FS_CardinalityType
<1>3. Cardinality(S \cup T) = Cardinality(S) + Cardinality(T) - Cardinality(S \cap T)
  BY FS_Union
<1> QED
  BY <1>1, <1>2, <1>3

LEMMA PartMember ==
  ASSUME NEW t, NEW xs, NEW x, NEW y
  PROVE  y \in Part(t, xs, x) <=> \E i \in DOMAIN xs : xs[i] = x /\ y = <<t, Len(xs) - i>>
BY DEF Part

LEMMA PartFinite ==
  ASSUME NEW t, NEW xs \in Seq(Objects), NEW x
  PROVE  IsFiniteSet(Part(t, xs, x)) /\ Listing(t, xs, x) \in Nat
<1> DEFINE at  == 1..Len(xs)
           f   == [i \in at |-> <<t, Len(xs) - i>>]
           img == {f[i] : i \in at}
<1>1. Len(xs) \in Nat /\ DOMAIN xs = at
  OBVIOUS
<1>2. IsFiniteSet(at)
  BY <1>1, FS_Interval
<1>3. f \in Surjection(at, img)
  BY DEF Surjection
<1>4. IsFiniteSet(img)
  BY <1>2, <1>3, FS_Surjection
<1>5. Part(t, xs, x) \in SUBSET img
  <2>1. ASSUME NEW y \in Part(t, xs, x) PROVE y \in img
    <3>1. PICK i \in at : y = <<t, Len(xs) - i>>
      BY <1>1, PartMember
    <3>2. f[i] = y
      BY <3>1
    <3> QED
      BY <3>2
  <2> QED
    BY <2>1
<1> QED
  BY <1>4, <1>5, FS_Subset, FS_CardinalityType DEF Listing

\* Putting one object before a list.
LEMMA ListingTail ==
  ASSUME NEW t, NEW xs \in Seq(Objects), xs # <<>>, NEW x
  PROVE  Listing(t, xs, x) = Bit(Head(xs) = x) + Listing(t, Tail(xs), x)
<1> DEFINE e == <<t, Len(xs) - 1>>
<1>0. Tail(xs) \in Seq(Objects) /\ Len(xs) - 1 \in Nat /\ (Len(xs) - 1) + 1 = Len(xs)
  OBVIOUS
<1>1. PICK ys \in Seq(Objects), n \in Nat : ys = Tail(xs) /\ n + 1 = Len(xs)
  BY <1>0
<1>2. /\ DOMAIN xs = 1..(n + 1) /\ Len(xs) = n + 1 /\ Len(ys) = n /\ DOMAIN ys = 1..n
      /\ Head(xs) = xs[1] /\ \A i \in 1..n : ys[i] = xs[i + 1]
  BY <1>1
<1>3. e = <<t, n>>
  BY <1>2
<1> HIDE DEF e
<1>4. \A y : y \in Part(t, xs, x) <=> \E i \in 1..(n + 1) : xs[i] = x /\ y = <<t, (n + 1) - i>>
  <2>1. \A y : y \in Part(t, xs, x) <=> \E i \in DOMAIN xs : xs[i] = x /\ y = <<t, Len(xs) - i>>
    BY PartMember
  <2> QED
    BY <1>2, <2>1, Zenon
<1>5. \A y : y \in Part(t, ys, x) <=> \E i \in 1..n : ys[i] = x /\ y = <<t, n - i>>
  <2>1. \A y : y \in Part(t, ys, x) <=> \E i \in DOMAIN ys : ys[i] = x /\ y = <<t, Len(ys) - i>>
    BY PartMember
  <2> QED
    BY <1>2, <2>1, Zenon
<1>6. e \in Part(t, xs, x) <=> Head(xs) = x
  BY <1>2, <1>3, <1>4
<1>7. e \notin Part(t, ys, x)
  BY <1>3, <1>5
<1>8. ASSUME NEW y, y # e PROVE y \in Part(t, ys, x) <=> y \in Part(t, xs, x)
  <2>1. ASSUME y \in Part(t, ys, x) PROVE y \in Part(t, xs, x)
    <3>1. PICK i \in 1..n : ys[i] = x /\ y = <<t, n - i>>
      BY <1>5, <2>1
    <3>2. i + 1 \in 1..(n + 1) /\ xs[i + 1] = x /\ n - i = (n + 1) - (i + 1)
      BY <1>2, <3>1
    <3> QED
      BY <1>4, <3>1, <3>2
  <2>2. ASSUME y \in Part(t, xs, x) PROVE y \in Part(t, ys, x)
    <3>1. PICK i \in 1..(n + 1) : xs[i] = x /\ y = <<t, (n + 1) - i>>
      BY <1>4, <2>2
    <3>2. i # 1
      BY <1>3, <1>8, <3>1
    <3>3. PICK k \in 1..n : k + 1 = i
      BY <3>2
    <3>4. ys[k] = x /\ n - k = (n + 1) - i
      BY <1>2, <3>1, <3>3
    <3> QED
      BY <1>5, <3>1, <3>4
  <2> QED
    BY <2>1, <2>2
<1>9. IsFiniteSet(Part(t, ys, x)) /\ Listing(t, ys, x) \in Nat
  BY PartFinite
<1> QED
  BY <1>1, <1>6, <1>7, <1>8, <1>9, OneChanges DEF Listing, Bit

LEMMA ListingEmpty ==
  ASSUME NEW t, NEW x
  PROVE  Listing(t, <<>>, x) = 0
<1>1. Part(t, <<>>, x) = {}
  BY DEF Part
<1> QED
  BY <1>1, FS_EmptySet DEF Listing

LEMMA ListingOne ==
  ASSUME NEW t, NEW a \in Objects, NEW x
  PROVE  Listing(t, <<a>>, x) = Bit(a = x)
<1>0. <<a>> \in Seq(Objects)
  OBVIOUS
<1>1. PICK xs \in Seq(Objects) : xs = <<a>>
  BY <1>0
<1>2. xs # <<>> /\ Head(xs) = a /\ Tail(xs) = <<>>
  BY <1>1
<1>3. Listing(t, xs, x) = Bit(Head(xs) = x) + Listing(t, Tail(xs), x)
  BY <1>2, ListingTail DEF Bit
<1>4. Listing(t, Tail(xs), x) = Listing(t, <<>>, x) /\ Listing(t, xs, x) = Listing(t, <<a>>, x)
  BY <1>1, <1>2, Zenon
<1>5. Listing(t, <<>>, x) = 0
  BY ListingEmpty
<1> QED
  BY <1>2, <1>3, <1>4, <1>5 DEF Bit

LEMMA ListingTwo ==
  ASSUME NEW t, NEW a \in Objects, NEW b \in Objects, NEW x
  PROVE  Listing(t, <<a, b>>, x) = Bit(a = x) + Bit(b = x)
<1>0. <<a, b>> \in Seq(Objects)
  OBVIOUS
<1>1. PICK xs \in Seq(Objects) : xs = <<a, b>>
  BY <1>0
<1>2. xs # <<>> /\ Head(xs) = a /\ Tail(xs) = <<b>>
  BY <1>1
<1>3. Listing(t, xs, x) = Bit(Head(xs) = x) + Listing(t, Tail(xs), x)
  BY <1>2, ListingTail DEF Bit
<1>4. Listing(t, Tail(xs), x) = Listing(t, <<b>>, x) /\ Listing(t, xs, x) = Listing(t, <<a, b>>, x)
  BY <1>1, <1>2, Zenon
<1>5. Listing(t, <<b>>, x) = Bit(b = x)
  BY ListingOne
<1> QED
  BY <1>2, <1>3, <1>4, <1>5 DEF Bit

LEMMA ListingPut ==
  ASSUME NEW t, NEW a \in Objects, NEW xs \in Seq(Objects), NEW x
  PROVE  Listing(t, <<a>> \o xs, x) = Bit(a = x) + Listing(t, xs, x)
<1>0. <<a>> \o xs \in Seq(Objects)
  OBVIOUS
<1>1. PICK ys \in Seq(Objects) : ys = <<a>> \o xs
  BY <1>0
<1>2. ys # <<>> /\ Head(ys) = a /\ Tail(ys) = xs
  BY <1>1
<1>3. Listing(t, ys, x) = Bit(Head(ys) = x) + Listing(t, Tail(ys), x)
  BY <1>2, ListingTail
<1>4. Bit(Head(ys) = x) = Bit(a = x) /\ Listing(t, Tail(ys), x) = Listing(t, xs, x)
  BY <1>2, Zenon
<1> QED
  BY <1>1, <1>3, <1>4, Zenon

\* A list that names each of its objects once.
LEMMA ListingAll ==
  ASSUME NEW t, NEW xs \in Seq(Objects), NEW S, NEW x,
         \A y \in S : \E i \in DOMAIN xs : xs[i] = y, \A i \in DOMAIN xs : xs[i] \in S,
         \A i, j \in DOMAIN xs : xs[i] = xs[j] => i = j
  PROVE  Listing(t, xs, x) = Bit(x \in S)
<1>1. CASE x \in S
  <2>1. PICK i \in DOMAIN xs : xs[i] = x
    BY <1>1
  <2>2. Part(t, xs, x) = {<<t, Len(xs) - i>>}
    BY <2>1, PartMember
  <2> QED
    BY <1>1, <2>2, FS_Singleton DEF Listing, Bit
<1>2. CASE x \notin S
  <2>1. Part(t, xs, x) = {}
    BY <1>2, PartMember
  <2> QED
    BY <1>2, <2>1, FS_EmptySet DEF Listing, Bit
<1> QED
  BY <1>1, <1>2

LEMMA AllPartsFinite ==
  ASSUME NEW xss \in [Threads -> Seq(Objects)], NEW x, NEW T \in SUBSET Threads
  PROVE  IsFiniteSet(UNION {Part(u, xss[u], x) : u \in T})
<1> DEFINE f   == [u \in T |-> Part(u, xss[u], x)]
           img == {Part(u, xss[u], x) : u \in T}
<1>1. IsFiniteSet(T)
  BY FiniteAssumption, FS_Union, FS_Subset DEF Threads
<1>2. f \in Surjection(T, img)
  BY DEF Surjection
<1>3. IsFiniteSet(img)
  BY <1>1, <1>2, FS_Surjection
<1>4. \A S \in img : IsFiniteSet(S)
  BY PartFinite
<1> QED
  BY <1>3, <1>4, FS_UNION

LEMMA AllPartsMove ==
  ASSUME NEW xss \in [Threads -> Seq(Objects)], NEW t \in Threads, NEW xs \in Seq(Objects), NEW x
  PROVE  Cardinality(AllParts([xss EXCEPT ![t] = xs], x)) =
            Cardinality(AllParts(xss, x)) - Listing(t, xss[t], x) + Listing(t, xs, x)
<1> DEFINE rest == UNION {Part(u, xss[u], x) : u \in Threads \ {t}}
           yss  == [xss EXCEPT ![t] = xs]
<1>1. IsFiniteSet(rest)
  BY AllPartsFinite
<1>2. \A u, v, ys : \A y \in Part(u, ys, x) : y[1] = u
  BY PartMember
<1>3. \A ys : rest \cap Part(t, ys, x) = {}
  BY <1>2
<1>4. AllParts(xss, x) = rest \cup Part(t, xss[t], x)
  BY DEF AllParts
<1>5. AllParts(yss, x) = rest \cup Part(t, xs, x)
  <2>1. yss[t] = xs /\ \A u \in Threads \ {t} : yss[u] = xss[u]
    OBVIOUS
  <2> HIDE DEF yss
  <2>2. \A y : y \in AllParts(yss, x) <=> \E u \in Threads : y \in Part(u, yss[u], x)
    BY DEF AllParts
  <2>3. \A y : y \in rest <=> \E u \in Threads \ {t} : y \in Part(u, xss[u], x)
    OBVIOUS
  <2> HIDE DEF rest
  <2> QED
    BY <2>1, <2>2, <2>3
<1>6. /\ IsFiniteSet(Part(t, xss[t], x)) /\ IsFiniteSet(Part(t, xs, x))
      /\ Listing(t, xss[t], x) \in Nat /\ Listing(t, xs, x) \in Nat /\ Cardinality(rest) \in Nat
  BY <1>1, PartFinite, FS_CardinalityType
<1> HIDE DEF rest, yss
<1>7. Cardinality(rest \cup Part(t, xss[t], x)) = Cardinality(rest) + Listing(t, xss[t], x)
  BY <1>1, <1>3, <1>6, ApartCounts DEF Listing
<1>8. Cardinality(rest \cup Part(t, xs, x)) = Cardinality(rest) + Listing(t, xs, x)
  BY <1>1, <1>3, <1>6, ApartCounts DEF Listing
<1>9. Cardinality(AllParts(yss, x)) = Cardinality(AllParts(xss, x)) - Listing(t, xss[t], x) + Listing(t, xs, x)
  BY <1>4, <1>5, <1>6, <1>7, <1>8
<1> QED
  BY <1>9 DEF yss

-----------------------------------------------------------------------------
(* What a step does to the units, while calls of Disref take turns. *)

LEMMA NeverRead ==
  ASSUME WInv, ~Overlap
  PROVE  \A t \in Threads : pc[t] # "read"
BY DEF WInv, AllFit, Fits

LEMMA DroppingIs ==
  ASSUME WInv, ~Overlap, NEW x
  PROVE  Dropping(x) = AllParts(drop, x)
<1>1. \A t \in Threads : {i \in DOMAIN drop[t] : drop[t][i] = x /\ ~(i = 1 /\ pc[t] = "read")} =
                         {i \in DOMAIN drop[t] : drop[t][i] = x}
  BY NeverRead
<1>2. \A t \in Threads :
         {<<t, Len(drop[t]) - i>> : i \in {i \in DOMAIN drop[t] : drop[t][i] = x /\ ~(i = 1 /\ pc[t] = "read")}} =
         Part(t, drop[t], x)
  BY <1>1, Zenon DEF Part
<1> QED
  BY <1>2 DEF Dropping, AllParts

DroppingOK == \A x \in Objects : Dropping(x) = AllParts(drop, x)

LEMMA DroppingNext ==
  ASSUME ~Overlap
  PROVE  WInv' => DroppingOK'
<1>1. WInv => DroppingOK
  BY DroppingIs DEF DroppingOK
<1> QED
  BY <1>1, PTL

LEMMA ThreadsFinite == IsFiniteSet(Threads)
BY FiniteAssumption, FS_Union DEF Threads

LEMMA UsersFinite ==
  ASSUME WInv, NEW x
  PROVE  /\ IsFiniteSet(Indexed(x)) /\ IsFiniteSet(Placed(x)) /\ IsFiniteSet(Hosted(x))
         /\ IsFiniteSet(Running(x)) /\ IsFiniteSet(Using(x)) /\ IsFiniteSet(Answering(x))
         /\ IsFiniteSet(Dropping(x))
<1>1. /\ Indexed(x) \in SUBSET Services /\ Placed(x) \in SUBSET Slots /\ Hosted(x) \in SUBSET Remotes
      /\ Running(x) \in SUBSET Dispatchers /\ Using(x) \in SUBSET Threads /\ Answering(x) \in SUBSET Threads
  BY DEF Indexed, Placed, Hosted, Running, Using, Answering
<1>2. /\ IsFiniteSet(Indexed(x)) /\ IsFiniteSet(Placed(x)) /\ IsFiniteSet(Hosted(x))
      /\ IsFiniteSet(Running(x))
  BY <1>1, FiniteAssumption, FS_Subset
<1>3. IsFiniteSet(Using(x)) /\ IsFiniteSet(Answering(x))
  BY <1>1, ThreadsFinite, FS_Subset
<1>4. IsFiniteSet(Dropping(x))
  <2>1. drop \in [Threads -> Seq(Objects)]
    BY DEF WInv, TypeOK
  <2>2. IsFiniteSet(AllParts(drop, x))
    BY <2>1, AllPartsFinite DEF AllParts
  <2>3. Dropping(x) \in SUBSET AllParts(drop, x)
    <3>1. \A y : y \in Dropping(x) => \E u \in Threads : \E i \in DOMAIN drop[u] :
                                         drop[u][i] = x /\ y = <<u, Len(drop[u]) - i>>
      BY DEF Dropping
    <3>2. \A y : y \in AllParts(drop, x) <=> \E u \in Threads : y \in Part(u, drop[u], x)
      BY DEF AllParts
    <3> QED
      BY <3>1, <3>2, PartMember
  <2> QED
    BY <2>2, <2>3, FS_Subset
<1> QED
  BY <1>2, <1>3, <1>4

UnitsOK ==
    \A x \in Objects :
        /\ Units(x) = Outer(x) + Inner(x) /\ Outer(x) \in Nat /\ Inner(x) \in Nat
        /\ Cardinality(Indexed(x)) \in Nat /\ Cardinality(Placed(x)) \in Nat /\ Cardinality(Hosted(x)) \in Nat
        /\ Cardinality(Running(x)) \in Nat /\ Cardinality(Using(x)) \in Nat /\ Cardinality(Answering(x)) \in Nat
        /\ Cardinality(Dropping(x)) \in Nat

LEMMA UnitsAre == WInv => UnitsOK
<1> SUFFICES ASSUME WInv, NEW x \in Objects
    PROVE  /\ Units(x) = Outer(x) + Inner(x) /\ Outer(x) \in Nat /\ Inner(x) \in Nat
           /\ Cardinality(Indexed(x)) \in Nat /\ Cardinality(Placed(x)) \in Nat /\ Cardinality(Hosted(x)) \in Nat
           /\ Cardinality(Running(x)) \in Nat /\ Cardinality(Using(x)) \in Nat /\ Cardinality(Answering(x)) \in Nat
           /\ Cardinality(Dropping(x)) \in Nat
  BY DEF UnitsOK
<1>1. /\ Cardinality(Indexed(x)) \in Nat /\ Cardinality(Placed(x)) \in Nat /\ Cardinality(Hosted(x)) \in Nat
      /\ Cardinality(Running(x)) \in Nat /\ Cardinality(Using(x)) \in Nat /\ Cardinality(Answering(x)) \in Nat
      /\ Cardinality(Dropping(x)) \in Nat
  BY UsersFinite, FS_CardinalityType
<1> QED
  BY <1>1 DEF Units, Outer, Inner

LEMMA UnitsNext == WInv' => UnitsOK'
BY UnitsAre, PTL

\* A thread t moves; no other changes what it has of any object.
Acts(t, label, h, xs) ==
    /\ pc'[t] = label /\ hand'[t] = h /\ drop' = [drop EXCEPT ![t] = xs]
    /\ \A u \in Threads \ {t} : /\ hand'[u] = hand[u]
                                /\ pc'[u] = pc[u] \/ (pc[u] = "off" /\ pc'[u] = "begin")

LEMMA MovesActs ==
  ASSUME WInv, NEW t \in Threads, NEW label, NEW h, NEW xs, Moves(t, label, h, xs)
  PROVE  Acts(t, label, h, xs)
BY DEF WInv, TypeOK, Moves, Acts

LEMMA InnerMoves ==
  ASSUME WInv, WInv', ~Overlap, NEW t \in Threads, NEW label, NEW h, NEW xs \in Seq(Objects), NEW x \in Objects,
         Acts(t, label, h, xs)
  PROVE  Inner(x)' = Inner(x) - Mine(t, pc[t], hand[t], drop[t], x) + Mine(t, label, h, xs, x)
<1>1. Cardinality(Running(x)') = Cardinality(Running(x)) - Bit(Runs(t, pc[t], hand[t], x)) + Bit(Runs(t, label, h, x))
  <2>1. \A y : y # t => (y \in Running(x) <=> y \in Running(x)')
    BY Distinct DEF Running, Acts
  <2>2. (t \in Running(x) <=> Runs(t, pc[t], hand[t], x)) /\ (t \in Running(x)' <=> Runs(t, label, h, x))
    BY DEF Running, Runs, Acts
  <2>3. IsFiniteSet(Running(x))
    BY UsersFinite
  <2> QED
    BY <2>1, <2>2, <2>3, OneChanges DEF Bit
<1>2. Cardinality(Using(x)') = Cardinality(Using(x)) - Bit(Uses(pc[t], hand[t], x)) + Bit(Uses(label, h, x))
  <2>1. \A y : y # t => (y \in Using(x) <=> y \in Using(x)')
    BY DEF Using, Acts
  <2>2. (t \in Using(x) <=> Uses(pc[t], hand[t], x)) /\ (t \in Using(x)' <=> Uses(label, h, x))
    BY DEF Using, Uses, Acts
  <2>3. IsFiniteSet(Using(x))
    BY UsersFinite
  <2> QED
    BY <2>1, <2>2, <2>3, OneChanges DEF Bit
<1>3. Cardinality(Answering(x)') = Cardinality(Answering(x)) - Bit(Answers(pc[t], hand[t], x)) + Bit(Answers(label, h, x))
  <2>1. \A y : y # t => (y \in Answering(x) <=> y \in Answering(x)')
    BY DEF Answering, Acts
  <2>2. (t \in Answering(x) <=> Answers(pc[t], hand[t], x)) /\ (t \in Answering(x)' <=> Answers(label, h, x))
    BY DEF Answering, Answers, Acts
  <2>3. IsFiniteSet(Answering(x))
    BY UsersFinite
  <2> QED
    BY <2>1, <2>2, <2>3, OneChanges DEF Bit
<1>4. Cardinality(Dropping(x)') = Cardinality(Dropping(x)) - Listing(t, drop[t], x) + Listing(t, xs, x)
  <2>1. drop \in [Threads -> Seq(Objects)] /\ drop' \in [Threads -> Seq(Objects)]
    BY DEF WInv, TypeOK
  <2>2. Dropping(x) = AllParts(drop, x)
    BY DroppingIs
  <2>3. Dropping(x)' = AllParts(drop', x)
    <3>1. AllParts(drop, x)' = AllParts(drop', x)
      BY DEF AllParts
    <3> QED
      BY <3>1, DroppingNext DEF DroppingOK
  <2>4. Cardinality(AllParts(drop', x)) = Cardinality(AllParts(drop, x)) - Listing(t, drop[t], x) + Listing(t, xs, x)
    <3>1. Cardinality(AllParts([drop EXCEPT ![t] = xs], x)) =
             Cardinality(AllParts(drop, x)) - Listing(t, drop[t], x) + Listing(t, xs, x)
      <4>1. PICK xss \in [Threads -> Seq(Objects)] : xss = drop
        BY <2>1
      <4>2. Cardinality(AllParts([xss EXCEPT ![t] = xs], x)) =
               Cardinality(AllParts(xss, x)) - Listing(t, xss[t], x) + Listing(t, xs, x)
        BY AllPartsMove
      <4> QED
        BY <4>1, <4>2, Zenon
    <3>2. drop' = [drop EXCEPT ![t] = xs]
      BY DEF Acts
    <3> QED
      BY <3>1, <3>2, Zenon
  <2> QED
    BY <2>2, <2>3, <2>4
<1>5. Listing(t, drop[t], x) \in Nat /\ Listing(t, xs, x) \in Nat
  <2>1. drop[t] \in Seq(Objects)
    BY DEF WInv, TypeOK
  <2> QED
    BY <2>1, PartFinite
<1>6. /\ Cardinality(Running(x)) \in Nat /\ Cardinality(Using(x)) \in Nat /\ Cardinality(Answering(x)) \in Nat
      /\ Cardinality(Dropping(x)) \in Nat
  BY UnitsAre DEF UnitsOK
<1>7. /\ Bit(Runs(t, pc[t], hand[t], x)) \in Nat /\ Bit(Uses(pc[t], hand[t], x)) \in Nat
      /\ Bit(Answers(pc[t], hand[t], x)) \in Nat
      /\ Bit(Runs(t, label, h, x)) \in Nat /\ Bit(Uses(label, h, x)) \in Nat /\ Bit(Answers(label, h, x)) \in Nat
  BY DEF Bit
<1> QED
  <2>1. PICK a \in Nat, b \in Nat, c \in Nat, e \in Nat :
           /\ a = Bit(Runs(t, pc[t], hand[t], x)) /\ b = Bit(Uses(pc[t], hand[t], x))
           /\ c = Bit(Answers(pc[t], hand[t], x)) /\ e = Listing(t, drop[t], x)
    BY <1>5, <1>7, Zenon
  <2>2. PICK a2 \in Nat, b2 \in Nat, c2 \in Nat, e2 \in Nat :
           /\ a2 = Bit(Runs(t, label, h, x)) /\ b2 = Bit(Uses(label, h, x))
           /\ c2 = Bit(Answers(label, h, x)) /\ e2 = Listing(t, xs, x)
    BY <1>5, <1>7, Zenon
  <2>3. Mine(t, pc[t], hand[t], drop[t], x) = a + b + c + e
    BY <2>1, Zenon DEF Mine
  <2>4. Mine(t, label, h, xs, x) = a2 + b2 + c2 + e2
    BY <2>2, Zenon DEF Mine
  <2>5. /\ Cardinality(Running(x)') = Cardinality(Running(x)) - a + a2
        /\ Cardinality(Using(x)') = Cardinality(Using(x)) - b + b2
        /\ Cardinality(Answering(x)') = Cardinality(Answering(x)) - c + c2
        /\ Cardinality(Dropping(x)') = Cardinality(Dropping(x)) - e + e2
    BY <1>1, <1>2, <1>3, <1>4, <2>1, <2>2, Zenon
  <2>6. PICK i1 \in Nat, i2 \in Nat, i3 \in Nat, i4 \in Nat :
           /\ i1 = Cardinality(Running(x)) /\ i2 = Cardinality(Using(x))
           /\ i3 = Cardinality(Answering(x)) /\ i4 = Cardinality(Dropping(x))
    BY <1>6, Zenon
  <2>7. Inner(x) = i1 + i2 + i3 + i4
    BY <2>6, Zenon DEF Inner
  <2>8. Inner(x)' = (i1 - a + a2) + (i2 - b + b2) + (i3 - c + c2) + (i4 - e + e2)
    BY <2>5, <2>6, Zenon DEF Inner
  <2> QED
    BY <2>3, <2>4, <2>7, <2>8

LEMMA MineBelow ==
  ASSUME WInv, ~Overlap, NEW t \in Threads, NEW x \in Objects
  PROVE  /\ Mine(t, pc[t], hand[t], drop[t], x) \in Nat
         /\ Mine(t, pc[t], hand[t], drop[t], x) <= Inner(x)
         /\ Listing(t, drop[t], x) <= Cardinality(Dropping(x))
<1>1. Bit(Runs(t, pc[t], hand[t], x)) <= Cardinality(Running(x))
  <2>1. Runs(t, pc[t], hand[t], x) => t \in Running(x)
    BY DEF Running, Runs
  <2> QED
    BY <2>1, UsersFinite, FS_EmptySet, FS_CardinalityType DEF Bit
<1>2. Bit(Uses(pc[t], hand[t], x)) <= Cardinality(Using(x))
  <2>1. Uses(pc[t], hand[t], x) => t \in Using(x)
    BY DEF Using, Uses
  <2> QED
    BY <2>1, UsersFinite, FS_EmptySet, FS_CardinalityType DEF Bit
<1>3. Bit(Answers(pc[t], hand[t], x)) <= Cardinality(Answering(x))
  <2>1. Answers(pc[t], hand[t], x) => t \in Answering(x)
    BY DEF Answering, Answers
  <2> QED
    BY <2>1, UsersFinite, FS_EmptySet, FS_CardinalityType DEF Bit
<1>4. Listing(t, drop[t], x) <= Cardinality(Dropping(x)) /\ Listing(t, drop[t], x) \in Nat
  <2>1. Part(t, drop[t], x) \in SUBSET Dropping(x)
    BY DroppingIs DEF AllParts
  <2>2. drop[t] \in Seq(Objects)
    BY DEF WInv, TypeOK
  <2> QED
    BY <2>1, <2>2, UsersFinite, FS_Subset, PartFinite DEF Listing
<1>5. /\ Bit(Runs(t, pc[t], hand[t], x)) \in Nat /\ Bit(Uses(pc[t], hand[t], x)) \in Nat
      /\ Bit(Answers(pc[t], hand[t], x)) \in Nat
  BY DEF Bit
<1> QED
  BY <1>1, <1>2, <1>3, <1>4, <1>5, UnitsAre DEF UnitsOK, Inner, Mine

-----------------------------------------------------------------------------
Refs(x) == IF Live(x) THEN shared[x].refs ELSE 0

\* A dispatcher whose thread has not begun belongs to the caller that waits for it.
Began ==
    \A d \in Dispatchers : pc[d] = "begin" =>
        /\ shared[d].status = "STARTTING" /\ shared[d].refs = 1
        /\ \E t \in Threads : pc[t] = "starting" /\ hand[t].o = d

CInv == CountsUsers /\ Began

LEMMA OuterSame ==
  ASSUME UNCHANGED <<index, slots, remote>>, \A r \in Remotes : Live(r)' <=> Live(r), NEW x
  PROVE  Outer(x)' = Outer(x)
<1>1. Indexed(x)' = Indexed(x) /\ Placed(x)' = Placed(x)
  BY DEF Indexed, Placed
<1>2. Hosted(x)' = Hosted(x)
  BY DEF Hosted
<1> QED
  BY <1>1, <1>2, Zenon DEF Outer

LEMMA OuterMembers ==
  ASSUME WInv, NEW x \in Objects, Indexed(x) # {} \/ Placed(x) # {} \/ Hosted(x) # {}
  PROVE  Outer(x) > 0
<1>1. IsFiniteSet(Indexed(x)) /\ IsFiniteSet(Placed(x)) /\ IsFiniteSet(Hosted(x))
  BY UsersFinite
<1>2. /\ Cardinality(Indexed(x)) \in Nat /\ Cardinality(Placed(x)) \in Nat /\ Cardinality(Hosted(x)) \in Nat
  BY UnitsAre DEF UnitsOK
<1>3. \/ Cardinality(Indexed(x)) # 0 \/ Cardinality(Placed(x)) # 0 \/ Cardinality(Hosted(x)) # 0
  BY <1>1, FS_EmptySet
<1> QED
  BY <1>2, <1>3 DEF Outer

\* Who has a unit of an object keeps it in memory.
LEMMA UserLives ==
  ASSUME WInv, ~Overlap, CountsUsers, NEW x \in Objects, NEW t \in Threads,
         Outer(x) > 0 \/ Mine(t, pc[t], hand[t], drop[t], x) > 0
  PROVE  Live(x) /\ shared[x].refs = Units(x) /\ shared[x].refs > 0 /\ shared[x].refs \in Nat
<1>1. /\ Units(x) = Outer(x) + Inner(x) /\ Outer(x) \in Nat /\ Inner(x) \in Nat
  BY UnitsAre DEF UnitsOK
<1>2. /\ Mine(t, pc[t], hand[t], drop[t], x) \in Nat
      /\ Mine(t, pc[t], hand[t], drop[t], x) <= Inner(x)
  BY MineBelow
<1>3. Units(x) > 0 /\ Units(x) \in Nat
  BY <1>1, <1>2
<1> QED
  BY <1>3 DEF CountsUsers

LEMMA BeginsAlone ==
  ASSUME WInv, ~Overlap, CInv, NEW d \in Dispatchers, pc[d] = "begin"
  PROVE  d \in Objects /\ Outer(d) = 0 /\ \A t \in Threads : Listing(t, drop[t], d) = 0
<1>1. d \in Objects
  BY Distinct
<1>2. shared[d].status = "STARTTING" /\ shared[d].refs = 1
  BY DEF CInv, Began
<1>3. Units(d) = 1
  BY <1>1, <1>2 DEF CInv, CountsUsers, Live
<1>4. PICK u \in Threads : pc[u] = "starting" /\ hand[u].o = d
  BY DEF CInv, Began
<1>5. u \in Using(d)
  BY <1>4 DEF Using
<1>6. Cardinality(Using(d)) # 0
  BY <1>5, UsersFinite, FS_EmptySet
<1>7. /\ Units(d) = Outer(d) + Inner(d) /\ Outer(d) \in Nat /\ Inner(d) \in Nat
      /\ Cardinality(Running(d)) \in Nat /\ Cardinality(Using(d)) \in Nat /\ Cardinality(Answering(d)) \in Nat
      /\ Cardinality(Dropping(d)) \in Nat
  BY <1>1, UnitsAre DEF UnitsOK
<1>8. Outer(d) = 0 /\ Cardinality(Dropping(d)) = 0
  BY <1>3, <1>6, <1>7 DEF Inner
<1>9. ASSUME NEW t \in Threads PROVE Listing(t, drop[t], d) = 0
  <2>1. drop[t] \in Seq(Objects)
    BY DEF WInv, TypeOK
  <2>2. Listing(t, drop[t], d) \in Nat /\ Listing(t, drop[t], d) <= Cardinality(Dropping(d))
    BY <1>1, <2>1, PartFinite, MineBelow
  <2> QED
    BY <1>8, <2>2
<1> QED
  BY <1>1, <1>8, <1>9

LEMMA BeganMoves ==
  ASSUME WInv, ~Overlap, CInv, NEW t \in Threads, NEW label, NEW h, NEW xs, Moves(t, label, h, xs),
         label # "begin", pc[t] # "starting",
         \A d \in Dispatchers : pc[d] = "begin" /\ d # t => shared'[d] = shared[d]
  PROVE  Began'
<1> SUFFICES ASSUME NEW d \in Dispatchers, pc'[d] = "begin"
    PROVE  /\ shared'[d].status = "STARTTING" /\ shared'[d].refs = 1
           /\ \E u \in Threads : pc'[u] = "starting" /\ hand'[u].o = d
  BY DEF Began
<1>1. /\ pc \in [Threads -> Labels] /\ hand \in [Threads -> Hands] /\ d \in Threads
  BY Distinct DEF WInv, TypeOK, Labels
<1>2. /\ pc'[t] = label /\ \A u \in Threads \ {t} : pc'[u] = pc[u] /\ hand'[u] = hand[u]
  BY <1>1 DEF Moves
<1>3. d # t /\ pc[d] = "begin"
  BY <1>1, <1>2
<1>4. PICK u \in Threads : pc[u] = "starting" /\ hand[u].o = d
  BY <1>3 DEF CInv, Began
<1>5. pc'[u] = "starting" /\ hand'[u].o = d
  BY <1>2, <1>4
<1>6. shared[d].status = "STARTTING" /\ shared[d].refs = 1 /\ shared'[d] = shared[d]
  BY <1>3 DEF CInv, Began
<1> QED
  BY <1>5, <1>6

\* What a step takes from or gives to thread t is what the count gains or loses.
Balanced(t, label, h, xs, x) ==
    Refs(x)' = Refs(x) + (Outer(x)' - Outer(x)) +
                   (Mine(t, label, h, xs, x) - Mine(t, pc[t], hand[t], drop[t], x))

LEMMA CountsMove ==
  ASSUME WInv, WInv', ~Overlap, CountsUsers, NEW t \in Threads, NEW label, NEW h, NEW xs \in Seq(Objects),
         Acts(t, label, h, xs), \A x \in Objects : Balanced(t, label, h, xs, x)
  PROVE  CountsUsers'
<1> SUFFICES ASSUME NEW x \in Objects PROVE Units(x)' = Refs(x)'
  BY DEF CountsUsers, Refs
<1>1. Units(x) = Refs(x)
  BY DEF CountsUsers, Refs
<1>2. Units(x) = Outer(x) + Inner(x) /\ Outer(x) \in Nat /\ Inner(x) \in Nat
  BY UnitsAre DEF UnitsOK
<1>3. Units(x)' = Outer(x)' + Inner(x)' /\ Outer(x)' \in Nat /\ Inner(x)' \in Nat
  BY UnitsNext DEF UnitsOK
<1>5. Inner(x)' = Inner(x) - Mine(t, pc[t], hand[t], drop[t], x) + Mine(t, label, h, xs, x)
  BY InnerMoves
<1>6. Mine(t, pc[t], hand[t], drop[t], x) \in Nat
  BY MineBelow
<1>7. Mine(t, label, h, xs, x) \in Nat
  BY PartFinite DEF Mine, Bit
<1>8. Refs(x)' = Refs(x) + (Outer(x)' - Outer(x)) +
                    (Mine(t, label, h, xs, x) - Mine(t, pc[t], hand[t], drop[t], x))
  BY DEF Balanced
<1> QED
  <2>1. PICK r \in Nat, o \in Nat, i \in Nat, o2 \in Nat, m \in Nat, m2 \in Nat :
           /\ r = Refs(x) /\ o = Outer(x) /\ i = Inner(x) /\ o2 = Outer(x)'
           /\ m = Mine(t, pc[t], hand[t], drop[t], x) /\ m2 = Mine(t, label, h, xs, x)
    <3>1. Refs(x) \in Nat
      BY <1>1, <1>2
    <3> QED
      BY <1>2, <1>3, <1>6, <1>7, <3>1, Zenon
  <2>2. r = o + i
    BY <1>1, <1>2, <2>1
  <2>3. Units(x)' = o2 + (i - m + m2)
    BY <1>3, <1>5, <2>1, Zenon
  <2>4. Refs(x)' = r + (o2 - o) + (m2 - m)
    BY <1>8, <2>1, Zenon
  <2>5. o2 + (i - m + m2) = r + (o2 - o) + (m2 - m)
    BY <2>2
  <2> QED
    BY <2>3, <2>4, <2>5, Zenon

\* A thread moves and keeps the units it has, or takes one of r.
Stays(t, label, h, xs) ==
    /\ Moves(t, label, h, xs) /\ xs \in Seq(Objects) /\ label # "begin" /\ pc[t] # "starting"
    /\ \A x \in Objects : Mine(t, label, h, xs, x) = Mine(t, pc[t], hand[t], drop[t], x)
Takes(t, label, h, xs, r) ==
    /\ Moves(t, label, h, xs) /\ xs \in Seq(Objects) /\ label # "begin" /\ pc[t] # "starting"
    /\ \A x \in Objects :
          Mine(t, label, h, xs, x) = Mine(t, pc[t], hand[t], drop[t], x) + (IF r = x THEN 1 ELSE 0)

LEMMA QuietMoves ==
  ASSUME WInv, WInv', ~Overlap, CInv, NEW t \in Threads, NEW label, NEW h, NEW xs,
         Stays(t, label, h, xs), UNCHANGED <<index, slots, remote, shared>>
  PROVE  CInv'
<1> USE DEF Stays
<1>1. Began'
  BY BeganMoves
<1>2. ASSUME NEW x \in Objects
      PROVE  Balanced(t, label, h, xs, x)
  <2>1. Refs(x)' = Refs(x) /\ Outer(x)' = Outer(x)
    BY OuterSame DEF Refs, Live
  <2>2. Units(x) = Refs(x) /\ Outer(x) \in Nat /\ Inner(x) \in Nat /\ Units(x) = Outer(x) + Inner(x)
    BY UnitsAre DEF UnitsOK, CInv, CountsUsers, Refs
  <2>3. Mine(t, pc[t], hand[t], drop[t], x) \in Nat
    BY MineBelow
  <2>4. Mine(t, label, h, xs, x) = Mine(t, pc[t], hand[t], drop[t], x)
    OBVIOUS
  <2> QED
    BY <2>1, <2>2, <2>3, <2>4 DEF Balanced
<1>3. CountsUsers'
  BY <1>2, CountsMove, MovesActs DEF CInv
<1> QED
  BY <1>1, <1>3 DEF CInv

LEMMA EmptyList == <<>> \in Seq(Objects)
OBVIOUS

\* A thread takes a unit of the service it has found.
LEMMA RefMoves ==
  ASSUME WInv, WInv', ~Overlap, CInv, NEW t \in Threads, NEW label, NEW h, NEW xs, NEW r \in Remotes,
         Takes(t, label, h, xs, r), UNCHANGED <<index, slots, remote>>, CanRef(r), shared' = Ref(r, 1)
  PROVE  CInv'
<1> USE DEF Takes
<1>1. /\ r \in Objects /\ r \notin Dispatchers /\ Known(r) /\ Live(r)
      /\ shared \in [Objects -> SharedType]
  BY Distinct DEF CanRef, Known, Live, UpToRunning, WInv, TypeOK, SharedType
<1>2. /\ shared'[r] = [status |-> shared[r].status, refs |-> shared[r].refs + 1]
      /\ \A y \in Objects \ {r} : shared'[y] = shared[y]
  <2>1. 1 \in Int
    OBVIOUS
  <2> QED
    BY <1>1, <2>1, RefKeeps
<1>3. Began'
  BY <1>1, <1>2, BeganMoves, Distinct
<1>4. \A y \in Objects : Live(y)' <=> Live(y)
  BY <1>1, <1>2 DEF Live
<1>5. ASSUME NEW x \in Objects
      PROVE  Balanced(t, label, h, xs, x)
  <2>1. Outer(x)' = Outer(x)
    BY <1>4, Distinct, OuterSame
  <2>2. Units(x) = Refs(x) /\ Outer(x) \in Nat /\ Inner(x) \in Nat /\ Units(x) = Outer(x) + Inner(x)
    BY UnitsAre DEF UnitsOK, CInv, CountsUsers, Refs
  <2>3. Mine(t, pc[t], hand[t], drop[t], x) \in Nat
    BY MineBelow
  <2>4. Refs(x)' = Refs(x) + (IF r = x THEN 1 ELSE 0)
    <3>1. CASE x = r
      BY <1>1, <1>2, <3>1 DEF Refs, Live
    <3>2. CASE x # r
      BY <1>2, <2>2, <3>2 DEF Refs, Live
    <3> QED
      BY <3>1, <3>2
  <2>5. Mine(t, label, h, xs, x) = Mine(t, pc[t], hand[t], drop[t], x) + (IF r = x THEN 1 ELSE 0)
    OBVIOUS
  <2>6. PICK k \in Nat : k = IF r = x THEN 1 ELSE 0
    OBVIOUS
  <2>7. Refs(x)' = Refs(x) + k /\ Mine(t, label, h, xs, x) = Mine(t, pc[t], hand[t], drop[t], x) + k
    BY <2>4, <2>5, <2>6, Zenon
  <2>8. PICK a \in Nat, b \in Nat, c \in Nat :
           a = Refs(x) /\ b = Outer(x) /\ c = Mine(t, pc[t], hand[t], drop[t], x)
    BY <2>2, <2>3
  <2>9. a + k = a + (b - b) + ((c + k) - c)
    BY <2>6, <2>8
  <2> QED
    BY <2>1, <2>7, <2>8, <2>9, Zenon DEF Balanced
<1>6. CountsUsers'
  BY <1>1, <1>5, CountsMove, MovesActs DEF CInv
<1> QED
  BY <1>3, <1>6 DEF CInv

-----------------------------------------------------------------------------
(* The units of callers that send. *)

LEMMA SendCounts ==
  ASSUME WInv, ~Overlap, CInv, NEW t \in Callers, NEW m \in Messages, NEW request \in Traffic,
         Send(t, m, request)
  PROVE  CInv'
<1>1. PICK h \in Hands, xs \in Seq(Objects) : Moves(t, "target", h, xs) /\ xs = <<>> /\ h.o = None /\ h.rsp = None
  BY SendKeeps, EmptyList
<1>2. /\ t \in Threads /\ pc[t] = "idle" /\ drop[t] = <<>> /\ hand[t].o = None /\ hand[t].rsp = None
      /\ UNCHANGED <<index, slots, remote, shared>> /\ WInv'
  <2>1. pc[t] = "idle" /\ UNCHANGED <<index, slots, remote, shared>>
    BY DEF Send
  <2> QED
    BY <2>1, SendKeeps, IdleHand
<1>3. Stays(t, "target", h, xs)
  BY <1>1, <1>2, Distinct DEF Stays, Mine, Runs, Uses, Answers
<1> QED
  BY <1>2, <1>3, QuietMoves

LEMMA RefTargetCounts ==
  ASSUME WInv, ~Overlap, CInv, NEW t \in Callers, RefTarget(t)
  PROVE  CInv'
<1>1. /\ t \in Threads /\ pc[t] = "target" /\ t \notin Dispatchers /\ drop[t] = <<>>
      /\ hand[t].o = None /\ hand[t].rsp = None
      /\ UNCHANGED <<index, slots, remote>> /\ WInv' /\ hand[t] \in Hands
  BY RefTargetKeeps, WorkingHand, InHand, Distinct DEF RefTarget, WithMessage, WithTarget
<1>2. CASE Moves(t, "drop", hand[t], <<>>) /\ UNCHANGED shared
  <2>1. PICK xs \in Seq(Objects) : xs = <<>> /\ Moves(t, "drop", hand[t], xs)
    BY <1>2, EmptyList
  <2>2. Stays(t, "drop", hand[t], xs)
    BY <1>1, <2>1, Distinct DEF Stays, Mine, Runs, Uses, Answers
  <2> QED
    BY <1>1, <1>2, <2>1, <2>2, QuietMoves
<1>3. CASE \E s \in Services :
              /\ index[s] \in Remotes /\ CanRef(index[s]) /\ shared' = Ref(index[s], 1)
              /\ Moves(t, "send", [hand[t] EXCEPT !.o = index[s]], <<>>)
  <2>0. PICK s \in Services :
           /\ index[s] \in Remotes /\ CanRef(index[s]) /\ shared' = Ref(index[s], 1)
           /\ Moves(t, "send", [hand[t] EXCEPT !.o = index[s]], <<>>)
    BY <1>3
  <2>1. PICK r \in Remotes, xs \in Seq(Objects), h \in {[hand[t] EXCEPT !.o = index[s]]} :
           /\ r = index[s] /\ CanRef(r) /\ shared' = Ref(r, 1) /\ xs = <<>>
           /\ h = [hand[t] EXCEPT !.o = r] /\ Moves(t, "send", h, xs)
    BY <2>0, EmptyList
  <2>2. h.o = r /\ h.rsp = None
    BY <1>1, <2>1 DEF Hands
  <2>3. Takes(t, "send", h, xs, r)
    BY <1>1, <2>1, <2>2, Distinct, ListingEmpty DEF Takes, Mine, Runs, Uses, Answers, Bit
  <2> QED
    BY <1>1, <2>1, <2>3, RefMoves
<1> QED
  BY <1>2, <1>3, RefTargetKeeps

\* What a caller worked with it has to release.
LEMMA CallerReleases ==
  ASSUME WInv, WInv', ~Overlap, CInv, NEW t \in Callers, pc[t] \in {"send", "push"}, NEW m \in Messages \cup {None},
         Moves(t, "drop", Keeping(m), <<hand[t].o>>), UNCHANGED <<index, slots, remote, shared>>
  PROVE  CInv'
<1>1. /\ t \in Threads /\ t \notin Dispatchers /\ drop[t] = <<>>
      /\ hand[t].o \in Remotes /\ hand[t].rsp = None
  BY WorkingHand, Distinct DEF WithMessage, WithTarget
<1>2. PICK r \in Remotes : r = hand[t].o
  BY <1>1
<1>3. r \in Objects /\ Keeping(m).o = None /\ Keeping(m).rsp = None
  BY HandsAre, Distinct
<1>4. <<r>> \in Seq(Objects)
  BY <1>3
<1>6. PICK xs \in Seq(Objects) : xs = <<r>>
  BY <1>4
<1>5. ASSUME NEW x \in Objects
      PROVE  Mine(t, "drop", Keeping(m), xs, x) = Mine(t, pc[t], hand[t], drop[t], x)
  <2>1. Listing(t, <<r>>, x) = Bit(r = x) /\ Listing(t, <<>>, x) = 0
    BY <1>3, ListingOne, ListingEmpty
  <2> QED
    BY <1>1, <1>2, <1>3, <1>6, <2>1, Distinct DEF Mine, Runs, Uses, Answers, Bit
<1>7. Stays(t, "drop", Keeping(m), xs)
  BY <1>2, <1>5, <1>6 DEF Stays
<1> QED
  BY <1>1, <1>7, QuietMoves

LEMMA CallerCounts ==
  ASSUME WInv, ~Overlap, CInv, NEW t \in Callers, SendSync(t) \/ SendAsync(t) \/ Push(t)
  PROVE  CInv'
<1>1. pc[t] \in {"send", "push"} /\ UNCHANGED <<index, slots, remote, shared>>
  BY DEF SendSync, SendAsync, Push
<1>2. /\ hand[t].m \in Messages /\ t \in Threads /\ drop[t] = <<>>
      /\ Nothing = Keeping(None) /\ None \in Messages \cup {None}
  BY <1>1, WorkingHand, Distinct, HandsAre DEF WithMessage
<1>3. WInv'
  BY SendSyncKeeps, SendAsyncKeeps, PushKeepsAll
<1>4. \/ pc[t] = "send" /\ Moves(t, "push", hand[t], <<>>)
      \/ Moves(t, "drop", Keeping(hand[t].m), <<hand[t].o>>)
      \/ Moves(t, "drop", Keeping(None), <<hand[t].o>>)
  BY <1>2, SendSyncKeeps, SendAsyncKeeps, PushKeepsAll
<1>5. CASE pc[t] = "send" /\ Moves(t, "push", hand[t], <<>>)
  <2>1. hand[t].rsp = None
    BY <1>1, WorkingHand, Distinct DEF WithMessage
  <2>2. PICK xs \in Seq(Objects) : xs = <<>> /\ Moves(t, "push", hand[t], xs)
    BY <1>5, EmptyList
  <2>3. Stays(t, "push", hand[t], xs)
    BY <1>2, <1>5, <2>1, <2>2, Distinct DEF Stays, Mine, Runs, Uses, Answers
  <2> QED
    BY <1>1, <1>2, <1>3, <1>5, <2>2, <2>3, QuietMoves
<1> QED
  BY <1>1, <1>2, <1>3, <1>4, <1>5, CallerReleases

LEMMA CallEnds ==
  ASSUME WInv, ~Overlap, CInv, NEW t \in Callers, Return(t) \/ ShutdownEnd(t)
  PROVE  CInv'
<1>1. /\ t \in Threads /\ t \notin Dispatchers /\ pc[t] = "drop" /\ drop[t] = <<>> /\ WInv'
      /\ UNCHANGED <<index, slots, remote, shared>>
  <2>1. UNCHANGED <<index, slots, remote, shared>>
    BY DEF Return, ShutdownEnd
  <2> QED
    BY <2>1, Distinct, ReturnKeeps, ShutdownEndKeeps
<1>2. hand[t].o = None /\ hand[t].rsp = None /\ Nothing.o = None /\ Nothing.rsp = None
  BY <1>1, ReleasingHand, HandsAre DEF Releasing
<1>3. PICK h \in {hand[t], Nothing}, xs \in Seq(Objects) : Moves(t, "idle", h, xs) /\ xs = <<>>
  BY ReturnKeeps, ShutdownEndKeeps, EmptyList
<1>4. Stays(t, "idle", h, xs)
  BY <1>1, <1>2, <1>3, Distinct DEF Stays, Mine, Runs, Uses, Answers
<1> QED
  BY <1>1, <1>3, <1>4, QuietMoves

-----------------------------------------------------------------------------
(* The units of dispatchers' threads. *)

LEMMA LoopCounts ==
  ASSUME WInv, ~Overlap, CInv, NEW d \in Dispatchers, StopRunning(d) \/ PopLevel(d)
  PROVE  CInv'
<1>1. pc[d] \in {"check", "pop"} /\ UNCHANGED <<index, slots, remote, shared>>
  BY DEF StopRunning, PopLevel
<1>2. WInv' /\ d \in Threads /\ drop[d] = <<>> /\ hand[d].o = None /\ hand[d].rsp = None
  BY <1>1, LoopHand, StopRunningKeeps, PopLevelKeeps
<1>3. \E label \in {"drain", "pop", "check", "handle"} : \E h :
         Moves(d, label, h, <<>>) /\ h.o = None /\ h.rsp = None
  <2>1. CASE StopRunning(d)
    BY <1>2, <2>1, StopRunningKeeps
  <2>2. CASE PopLevel(d) /\ queue[d][hand[d].pri] # <<>>
    <3>1. PICK p \in 0..(Levels - 1) : p = hand[d].pri
      BY <2>2, PopLevelKeeps
    <3>2. PICK m \in Messages : m = Head(queue[d][p])
      <4>1. queue \in [Dispatchers -> [0..(Levels - 1) -> Seq(Messages)]]
        BY DEF WInv, TypeOK
      <4>2. PICK q \in Seq(Messages) : q = queue[d][p]
        BY <4>1
      <4>3. q # <<>> /\ Head(q) \in Messages
        BY <2>2, <3>1, <4>2
      <4> QED
        BY <4>2, <4>3
    <3>3. pc' = [pc EXCEPT ![d] = "handle"] /\ hand' = [hand EXCEPT ![d] = Keeping(m)]
      BY <2>2, <3>1, <3>2 DEF PopLevel, Goto
    <3>4. drop' = [drop EXCEPT ![d] = <<>>]
      BY <1>2, <2>2 DEF PopLevel, WInv, TypeOK
    <3>5. Keeping(m).o = None /\ Keeping(m).rsp = None
      BY HandsAre
    <3> QED
      BY <3>3, <3>4, <3>5 DEF Moves
  <2>3. CASE PopLevel(d) /\ queue[d][hand[d].pri] = <<>>
    <3>1. PICK label \in {"pop", "check"}, h \in Hands : Moves(d, label, h, <<>>) /\ h.o = None /\ h.rsp = None
      BY <2>3, PopLevelKeeps
    <3> QED
      BY <3>1
  <2> QED
    BY <2>1, <2>2, <2>3
<1>7. PICK label \in {"drain", "pop", "check", "handle"} :
         \E h : Moves(d, label, h, <<>>) /\ h.o = None /\ h.rsp = None
  BY <1>3
<1>4. PICK h : Moves(d, label, h, <<>>) /\ h.o = None /\ h.rsp = None
  BY <1>7
<1>6. PICK xs \in Seq(Objects) : xs = <<>> /\ Moves(d, label, h, xs)
  BY <1>4, EmptyList
<1>5. Stays(d, label, h, xs)
  BY <1>1, <1>2, <1>4, <1>6, <1>7, Distinct DEF Stays, Mine, Runs, Uses, Answers
<1> QED
  BY <1>1, <1>2, <1>5, QuietMoves

\* Where a dispatcher's thread works, it has its own unit.
LEMMA HandlerHand ==
  ASSUME WInv, NEW d \in Dispatchers, pc[d] \in {"handle", "exec", "reply", "append", "push"}
  PROVE  /\ d \in Threads /\ d \notin Remotes /\ drop[d] = <<>> /\ hand[d] \in Hands
         /\ IF pc[d] = "handle" THEN hand[d].o = None ELSE hand[d].o \in Remotes /\ hand[d].o \in Objects
         /\ IF pc[d] \in {"append", "push"} THEN hand[d].rsp \in Remotes /\ hand[d].rsp \in Objects
            ELSE hand[d].rsp = None
         /\ Nothing.o = None /\ Nothing.rsp = None
BY WorkingHand, InHand, Distinct, HandsAre DEF WithMessage, WithTarget

\* It is done with a message that needed no service, or lets go of one.
LEMMA HandlerReleases ==
  ASSUME WInv, WInv', ~Overlap, CInv, NEW d \in Dispatchers, NEW label \in {"check", "drop"}, NEW xs,
         Moves(d, label, Nothing, xs), UNCHANGED <<index, slots, remote, shared>>,
         \/ pc[d] = "handle" /\ xs = <<>>
         \/ pc[d] \in {"exec", "reply"} /\ xs = <<hand[d].o>>
         \/ pc[d] \in {"append", "push"} /\ xs = <<hand[d].o, hand[d].rsp>>
  PROVE  CInv'
<1>1. /\ d \in Threads /\ d \notin Remotes /\ drop[d] = <<>>
      /\ IF pc[d] = "handle" THEN hand[d].o = None ELSE hand[d].o \in Remotes /\ hand[d].o \in Objects
      /\ IF pc[d] \in {"append", "push"} THEN hand[d].rsp \in Remotes /\ hand[d].rsp \in Objects
         ELSE hand[d].rsp = None
      /\ Nothing.o = None /\ Nothing.rsp = None
  BY HandlerHand
<1>2. xs \in Seq(Objects)
  <2>1. ASSUME NEW a \in Objects, NEW b \in Objects PROVE <<a>> \in Seq(Objects) /\ <<a, b>> \in Seq(Objects)
    OBVIOUS
  <2> QED
    BY <1>1, <2>1, EmptyList
<1>3. ASSUME NEW x \in Objects PROVE Mine(d, label, Nothing, xs, x) = Mine(d, pc[d], hand[d], drop[d], x)
  <2>1. Listing(d, drop[d], x) = 0
    BY <1>1, ListingEmpty
  <2>2. CASE pc[d] = "handle" /\ xs = <<>>
    BY <1>1, <2>2, Distinct DEF Mine, Runs, Uses, Answers, Bit
  <2>3. CASE pc[d] \in {"exec", "reply"} /\ xs = <<hand[d].o>>
    <3>1. PICK a \in Objects : a = hand[d].o
      BY <1>1, <2>3
    <3>2. Listing(d, xs, x) = Bit(a = x)
      BY <2>3, <3>1, ListingOne
    <3> QED
      BY <1>1, <2>1, <2>3, <3>1, <3>2, Distinct DEF Mine, Runs, Uses, Answers, Bit
  <2>4. CASE pc[d] \in {"append", "push"} /\ xs = <<hand[d].o, hand[d].rsp>>
    <3>1. PICK a \in Objects, b \in Objects : a = hand[d].o /\ b = hand[d].rsp
      BY <1>1, <2>4
    <3>2. Listing(d, xs, x) = Bit(a = x) + Bit(b = x)
      BY <2>4, <3>1, ListingTwo
    <3> QED
      BY <1>1, <2>1, <2>4, <3>1, <3>2, Distinct DEF Mine, Runs, Uses, Answers, Bit
  <2> QED
    BY <2>2, <2>3, <2>4
<1>4. Stays(d, label, Nothing, xs)
  BY <1>2, <1>3 DEF Stays
<1> QED
  BY <1>1, <1>4, QuietMoves

\* It goes on with what it has.
LEMMA HandlerGoesOn ==
  ASSUME WInv, WInv', ~Overlap, CInv, NEW d \in Dispatchers, NEW label,
         Moves(d, label, hand[d], <<>>), UNCHANGED <<index, slots, remote, shared>>,
         \/ pc[d] = "exec" /\ label = "reply"
         \/ pc[d] = "append" /\ label = "push"
  PROVE  CInv'
<1>1. /\ d \in Threads /\ drop[d] = <<>> /\ hand[d].o \in Remotes
      /\ pc[d] = "exec" => hand[d].rsp = None
  BY HandlerHand
<1>2. PICK xs \in Seq(Objects) : xs = <<>> /\ Moves(d, label, hand[d], xs)
  BY EmptyList
<1>3. Stays(d, label, hand[d], xs)
  BY <1>1, <1>2, Distinct DEF Stays, Mine, Runs, Uses, Answers
<1> QED
  BY <1>1, <1>3, QuietMoves

LEMMA RefHandlerCounts ==
  ASSUME WInv, ~Overlap, CInv, NEW d \in Dispatchers, RefHandler(d)
  PROVE  CInv'
<1>1. pc[d] = "handle" /\ WInv' /\ UNCHANGED <<index, slots, remote>>
  <2>1. UNCHANGED <<index, slots, remote>>
    BY DEF RefHandler
  <2> QED
    BY <2>1, RefHandlerKeeps
<1>2. d \in Threads /\ d \notin Remotes /\ drop[d] = <<>> /\ hand[d] \in Hands /\ hand[d].o = None /\ hand[d].rsp = None
  BY <1>1, HandlerHand
<1>3. CASE Moves(d, "drop", Nothing, <<>>) /\ UNCHANGED shared
  BY <1>1, <1>3, HandlerReleases
<1>4. CASE \E s \in Services :
              /\ index[s] \in Remotes /\ CanRef(index[s]) /\ shared' = Ref(index[s], 1)
              /\ Moves(d, "exec", [hand[d] EXCEPT !.o = index[s]], <<>>)
  <2>1. PICK s \in Services :
              /\ index[s] \in Remotes /\ CanRef(index[s]) /\ shared' = Ref(index[s], 1)
              /\ Moves(d, "exec", [hand[d] EXCEPT !.o = index[s]], <<>>)
    BY <1>4
  <2>2. PICK r \in Remotes, xs \in Seq(Objects), h \in {[hand[d] EXCEPT !.o = index[s]]} :
           /\ r = index[s] /\ CanRef(r) /\ shared' = Ref(r, 1) /\ xs = <<>>
           /\ h = [hand[d] EXCEPT !.o = r] /\ Moves(d, "exec", h, xs)
    BY <2>1, EmptyList
  <2>3. h.o = r /\ h.rsp = None
    BY <1>2, <2>2 DEF Hands
  <2>4. Takes(d, "exec", h, xs, r)
    BY <1>1, <1>2, <2>2, <2>3, Distinct, ListingEmpty DEF Takes, Mine, Runs, Uses, Answers, Bit
  <2> QED
    BY <1>1, <1>2, <2>2, <2>4, RefMoves
<1> QED
  BY <1>3, <1>4, RefHandlerKeeps

LEMMA RefSenderCounts ==
  ASSUME WInv, ~Overlap, CInv, NEW d \in Dispatchers, RefSender(d)
  PROVE  CInv'
<1>1. pc[d] = "reply" /\ WInv' /\ UNCHANGED <<index, slots, remote>>
  <2>1. UNCHANGED <<index, slots, remote>>
    BY DEF RefSender
  <2> QED
    BY <2>1, RefSenderKeeps
<1>2. /\ d \in Threads /\ d \notin Remotes /\ drop[d] = <<>> /\ hand[d] \in Hands
      /\ hand[d].o \in Remotes /\ hand[d].rsp = None
  BY <1>1, HandlerHand
<1>3. CASE Moves(d, "drop", Nothing, <<hand[d].o>>) /\ UNCHANGED shared
  BY <1>1, <1>3, HandlerReleases
<1>4. CASE \E s \in Services :
              /\ index[s] \in Remotes /\ CanRef(index[s]) /\ shared' = Ref(index[s], 1)
              /\ Moves(d, "append", [hand[d] EXCEPT !.rsp = index[s]], <<>>)
  <2>1. PICK s \in Services :
              /\ index[s] \in Remotes /\ CanRef(index[s]) /\ shared' = Ref(index[s], 1)
              /\ Moves(d, "append", [hand[d] EXCEPT !.rsp = index[s]], <<>>)
    BY <1>4
  <2>2. PICK r \in Remotes, xs \in Seq(Objects), h \in {[hand[d] EXCEPT !.rsp = index[s]]} :
           /\ r = index[s] /\ CanRef(r) /\ shared' = Ref(r, 1) /\ xs = <<>>
           /\ h = [hand[d] EXCEPT !.rsp = r] /\ Moves(d, "append", h, xs)
    BY <2>1, EmptyList
  <2>3. h.o = hand[d].o /\ h.rsp = r
    BY <1>2, <2>2 DEF Hands
  <2>4. Takes(d, "append", h, xs, r)
    BY <1>1, <1>2, <2>2, <2>3, Distinct, ListingEmpty DEF Takes, Mine, Runs, Uses, Answers, Bit
  <2> QED
    BY <1>1, <1>2, <2>2, <2>4, RefMoves
<1> QED
  BY <1>3, <1>4, RefSenderKeeps

LEMMA HandlerCounts ==
  ASSUME WInv, ~Overlap, CInv, NEW d \in Dispatchers,
         \/ HandleResponse(d) /\ message[hand[d].m].state = "live"
         \/ ExecRequest(d) \/ AppendReply(d) \/ PushReply(d)
  PROVE  CInv'
<1>1. UNCHANGED <<index, slots, remote, shared>>
  BY DEF HandleResponse, ExecRequest, AppendReply, PushReply
<1>2. CASE HandleResponse(d) /\ message[hand[d].m].state = "live"
  BY <1>1, <1>2, HandleResponseKeeps, HandlerReleases
<1>3. CASE ExecRequest(d)
  BY <1>1, <1>3, ExecRequestKeeps, HandlerReleases, HandlerGoesOn
<1>4. CASE AppendReply(d)
  BY <1>1, <1>4, AppendReplyKeeps, HandlerReleases, HandlerGoesOn
<1>5. CASE PushReply(d)
  BY <1>1, <1>5, PushReplyKeeps, HandlerReleases
<1> QED
  BY <1>2, <1>3, <1>4, <1>5

LEMMA HandlingDoneCounts ==
  ASSUME WInv, ~Overlap, CInv, NEW d \in Dispatchers, HandlingDone(d)
  PROVE  CInv'
<1>1. /\ d \in Threads /\ UNCHANGED <<index, slots, remote, shared>>
      /\ hand[d].rsp = None /\ (hand[d].o = None \/ hand[d].o = d)
      /\ pc[d] = "drop" /\ drop[d] = <<>> /\ WInv'
  <2>1. UNCHANGED <<index, slots, remote, shared>>
    BY DEF HandlingDone
  <2> QED
    BY <2>1, HandlingDoneKeeps, ReleasingHand, Distinct DEF Releasing
<1>2. PICK label \in {"off", "check"}, xs \in Seq(Objects) :
         /\ label = (IF hand[d].o = d THEN "off" ELSE "check") /\ xs = <<>> /\ Moves(d, label, hand[d], xs)
  BY HandlingDoneKeeps, EmptyList
<1>3. Stays(d, label, hand[d], xs)
  BY <1>1, <1>2, Distinct DEF Stays, Mine, Runs, Uses, Answers, Bit
<1> QED
  BY <1>1, <1>3, QuietMoves

-----------------------------------------------------------------------------
(* A dispatcher's thread begins, and lets go of its dispatcher. *)

LEMMA Numbers ==
  ASSUME WInv, ~Overlap, CInv, NEW t \in Threads, NEW x \in Objects
  PROVE  /\ Refs(x) \in Nat /\ Outer(x) \in Nat /\ Inner(x) \in Nat
         /\ Mine(t, pc[t], hand[t], drop[t], x) \in Nat
         /\ Refs(x) = Outer(x) + Inner(x)
         /\ Mine(t, pc[t], hand[t], drop[t], x) <= Inner(x)
<1>1. Units(x) = Refs(x) /\ Outer(x) \in Nat /\ Inner(x) \in Nat /\ Units(x) = Outer(x) + Inner(x)
  BY UnitsAre DEF UnitsOK, CInv, CountsUsers, Refs
<1>2. /\ Mine(t, pc[t], hand[t], drop[t], x) \in Nat
      /\ Mine(t, pc[t], hand[t], drop[t], x) <= Inner(x)
  BY MineBelow
<1> QED
  BY <1>1, <1>2

LEMMA BalancedMoves ==
  ASSUME WInv, WInv', ~Overlap, CInv, NEW t \in Threads, NEW label, NEW h, NEW xs \in Seq(Objects),
         Moves(t, label, h, xs), \A x \in Objects : Balanced(t, label, h, xs, x), Began'
  PROVE  CInv'
<1>1. CountsUsers'
  BY CountsMove, MovesActs DEF CInv
<1> QED
  BY <1>1 DEF CInv

\* A thread keeps the units it has, and the counts stay as they are.
LEMMA SteadyMoves ==
  ASSUME WInv, WInv', ~Overlap, CInv, NEW t \in Threads, NEW label, NEW h, NEW xs,
         Stays(t, label, h, xs), UNCHANGED <<index, slots, remote>>,
         \A x \in Objects : Refs(x)' = Refs(x), \A x \in Objects : Live(x)' <=> Live(x),
         \A d \in Dispatchers : pc[d] = "begin" /\ d # t => shared'[d] = shared[d]
  PROVE  CInv'
<1>1. Began' /\ Moves(t, label, h, xs) /\ xs \in Seq(Objects)
  BY BeganMoves DEF Stays
<1>2. ASSUME NEW x \in Objects PROVE Balanced(t, label, h, xs, x)
  <2>1. Refs(x)' = Refs(x) /\ Outer(x)' = Outer(x)
    BY OuterSame, Distinct
  <2>2. Mine(t, label, h, xs, x) = Mine(t, pc[t], hand[t], drop[t], x)
    BY DEF Stays
  <2> QED
    BY <2>1, <2>2, Numbers DEF Balanced
<1> QED
  BY <1>1, <1>2, BalancedMoves

LEMMA BeginThreadCounts ==
  ASSUME WInv, ~Overlap, CInv, NEW d \in Dispatchers, BeginThread(d)
  PROVE  CInv'
<1>1. /\ d \in Threads /\ d \in Objects /\ WInv' /\ UNCHANGED <<index, slots, remote>> /\ pc[d] = "begin"
      /\ shared'[d] = [status |-> "RUNNING", refs |-> shared[d].refs + 1]
      /\ \A x \in Objects \ {d} : shared'[x] = shared[x]
      /\ Moves(d, "check", hand[d], <<>>)
  <2>1. UNCHANGED <<index, slots, remote>>
    BY DEF BeginThread
  <2> QED
    BY <2>1, BeginThreadKeeps, Distinct
<1>2. hand[d].o = None /\ hand[d].rsp = None /\ drop[d] = <<>>
  BY <1>1, InHand DEF Fits, WithTarget, Releasing, WithMessage
<1>3. Live(d) /\ Live(d)' /\ \A x \in Objects \ {d} : Live(x)' <=> Live(x)
  BY <1>1 DEF Live, CInv, Began
<1>4. PICK xs \in Seq(Objects) : xs = <<>> /\ Moves(d, "check", hand[d], xs)
  BY <1>1, EmptyList
<1>5. Began'
  BY <1>1, <1>4, BeganMoves, Distinct
<1>6. ASSUME NEW x \in Objects PROVE Balanced(d, "check", hand[d], xs, x)
  <2>1. Outer(x)' = Outer(x)
    BY <1>1, <1>3, OuterSame, Distinct
  <2>2. Refs(x)' = Refs(x) + Bit(d = x)
    <3>1. Refs(x) \in Nat
      BY <1>1, Numbers
    <3>2. CASE x = d
      BY <1>1, <1>3, <3>2 DEF Refs, Bit
    <3>3. CASE x # d
      BY <1>1, <1>3, <3>1, <3>3 DEF Refs, Bit
    <3> QED
      BY <3>2, <3>3
  <2>3. Mine(d, "check", hand[d], xs, x) = Mine(d, pc[d], hand[d], drop[d], x) + Bit(d = x)
    BY <1>1, <1>2, <1>4, Distinct, ListingEmpty DEF Mine, Runs, Uses, Answers, Bit
  <2>4. PICK k \in Nat : k = Bit(d = x)
    BY DEF Bit
  <2> QED
    BY <1>1, <2>1, <2>2, <2>3, <2>4, Numbers DEF Balanced
<1> QED
  BY <1>1, <1>4, <1>5, <1>6, BalancedMoves

LEMMA DrainCounts ==
  ASSUME WInv, ~Overlap, CInv, NEW d \in Dispatchers, Drain(d)
  PROVE  CInv'
<1>1. /\ d \in Threads /\ d \in Objects /\ WInv' /\ UNCHANGED <<index, slots, remote>> /\ pc[d] = "drain"
      /\ hand[d].o = None /\ hand[d].rsp = None /\ drop[d] = <<>> /\ hand[d] \in Hands
  <2>1. UNCHANGED <<index, slots, remote>>
    BY DEF Drain
  <2> QED
    BY <2>1, DrainKeeps, InHand, Distinct DEF Fits, Releasing
<1>2. CASE Moves(d, "drain", hand[d], <<>>) /\ UNCHANGED shared
  <2>1. PICK xs \in Seq(Objects) : xs = <<>> /\ Moves(d, "drain", hand[d], xs)
    BY <1>2, EmptyList
  <2>2. Stays(d, "drain", hand[d], xs)
    BY <1>1, <2>1 DEF Stays
  <2> QED
    BY <1>1, <1>2, <2>2, QuietMoves
<1>3. CASE Moves(d, "drop", [hand[d] EXCEPT !.o = d], <<d>>) /\ shared' = [shared EXCEPT ![d].status = "TODESTROY"]
  <2>1. <<d>> \in Seq(Objects)
    BY <1>1
  <2>2. PICK xs \in Seq(Objects), h \in {[hand[d] EXCEPT !.o = d]} :
           xs = <<d>> /\ h = [hand[d] EXCEPT !.o = d] /\ Moves(d, "drop", h, xs)
    BY <1>3, <2>1
  <2>3. h.o = d /\ h.rsp = None
    BY <1>1, <2>2 DEF Hands
  <2>4. ASSUME NEW x \in Objects PROVE Mine(d, "drop", h, xs, x) = Mine(d, pc[d], hand[d], drop[d], x)
    <3>1. Listing(d, xs, x) = Bit(d = x) /\ Listing(d, drop[d], x) = 0
      BY <1>1, <2>2, ListingOne, ListingEmpty
    <3> QED
      BY <1>1, <2>2, <2>3, <3>1, Distinct DEF Mine, Runs, Uses, Answers, Bit
  <2>5. Stays(d, "drop", h, xs)
    BY <1>1, <2>2, <2>4 DEF Stays
  <2>6. Mine(d, pc[d], hand[d], drop[d], d) > 0
    <3>1. Runs(d, pc[d], hand[d], d) /\ Listing(d, drop[d], d) = 0
      BY <1>1, Distinct, ListingEmpty DEF Runs
    <3> QED
      BY <3>1 DEF Mine, Bit
  <2>7. Live(d)
    BY <1>1, <2>6, UserLives DEF CInv
  <2>8. /\ shared'[d] = [status |-> "TODESTROY", refs |-> shared[d].refs]
        /\ \A y \in Objects \ {d} : shared'[y] = shared[y]
    BY <1>1, <1>3, <2>7, StatusKeeps DEF Live, Known, Statuses
  <2>9. /\ \A x \in Objects : Live(x)' <=> Live(x)
        /\ \A x \in Objects : Refs(x)' = Refs(x)
    BY <2>7, <2>8 DEF Live, Refs
  <2> QED
    BY <1>1, <2>2, <2>5, <2>8, <2>9, SteadyMoves, Distinct
<1> QED
  BY <1>2, <1>3, DrainKeeps

-----------------------------------------------------------------------------
(* Releasing an object. *)

LEMMA TailCounts ==
  ASSUME NEW t, NEW xs \in Seq(Objects), xs # <<>>, NEW x
  PROVE  /\ Listing(t, xs, x) = Bit(Head(xs) = x) + Listing(t, Tail(xs), x)
         /\ Tail(xs) \in Seq(Objects) /\ Listing(t, Tail(xs), x) \in Nat
<1>1. Tail(xs) \in Seq(Objects)
  OBVIOUS
<1>2. PICK ys \in Seq(Objects) : ys = Tail(xs)
  BY <1>1
<1>3. Listing(t, ys, x) \in Nat
  BY PartFinite
<1>4. Listing(t, Tail(xs), x) = Listing(t, ys, x)
  BY <1>2, Zenon
<1> QED
  BY <1>1, <1>3, <1>4, ListingTail

LEMMA SeqPut ==
  ASSUME NEW xs \in Seq(Objects), NEW y \in Objects
  PROVE  <<y>> \o xs \in Seq(Objects)
OBVIOUS

LEMMA HostedMoves ==
  ASSUME WInv, NEW r \in Remotes, NEW x,
         \A q \in Remotes : q # r => (Live(q)' <=> Live(q)) /\ remote'[q] = remote[q]
  PROVE  Cardinality(Hosted(x)') = Cardinality(Hosted(x)) - Bit(r \in Hosted(x)) + Bit(r \in Hosted(x)')
<1>1. \A y : y # r => (y \in Hosted(x) <=> y \in Hosted(x)')
  BY DEF Hosted
<1> QED
  BY <1>1, UsersFinite, OneChanges

\* What a thread releases is in memory, and no thread has yet to begin on it.
LEMMA ReleasedLives ==
  ASSUME WInv, ~Overlap, CInv, NEW t \in Threads, drop[t] # <<>>
  PROVE  /\ pc[t] # "read" /\ Head(drop[t]) \in Objects /\ drop[t] \in Seq(Objects)
         /\ Live(Head(drop[t])) /\ shared[Head(drop[t])].refs \in Nat /\ shared[Head(drop[t])].refs > 0
         /\ shared[Head(drop[t])].refs = Units(Head(drop[t]))
         /\ \A d \in Dispatchers : pc[d] = "begin" => d # Head(drop[t])
<1>1. PICK xs \in Seq(Objects), x \in Objects : xs = drop[t] /\ xs # <<>> /\ x = Head(xs)
  <2>1. drop[t] \in Seq(Objects)
    BY DEF WInv, TypeOK
  <2>2. Head(drop[t]) \in Objects
    BY <2>1
  <2> QED
    BY <2>1, <2>2
<1>2. Listing(t, xs, x) = 1 + Listing(t, Tail(xs), x) /\ Listing(t, Tail(xs), x) \in Nat
  BY <1>1, TailCounts DEF Bit
<1>3. Listing(t, drop[t], x) > 0
  BY <1>1, <1>2
<1>4. Mine(t, pc[t], hand[t], drop[t], x) > 0
  <2>1. Listing(t, drop[t], x) \in Nat
    BY <1>1, <1>2
  <2> QED
    BY <1>3, <2>1 DEF Mine, Bit
<1>5. Live(x) /\ shared[x].refs = Units(x) /\ shared[x].refs > 0 /\ shared[x].refs \in Nat
  BY <1>4, UserLives DEF CInv
<1>6. ASSUME NEW d \in Dispatchers, pc[d] = "begin" PROVE d # x
  BY <1>3, <1>6, BeginsAlone
<1> QED
  BY <1>1, <1>5, <1>6, NeverRead

LEMMA DisrefIs ==
  ASSUME WInv, ~Overlap, CInv, NEW t \in Threads, Disref(t)
  PROVE  LET x == Head(drop[t])
         IN  /\ pc[t] = "drop" /\ drop[t] # <<>> /\ UNCHANGED <<index, slots, remote>>
             /\ \A y \in Objects \ {x} : shared'[y] = shared[y]
             /\ \/ /\ shared[x].refs > 1 /\ Moves(t, "drop", hand[t], Tail(drop[t]))
                   /\ shared'[x] = [status |-> shared[x].status, refs |-> shared[x].refs - 1]
                \/ /\ shared[x].refs = 1 /\ x \in Dispatchers /\ Moves(t, "drop", hand[t], Tail(drop[t]))
                   /\ shared'[x] = [status |-> "freed", refs |-> 0]
                \/ /\ shared[x].refs = 1 /\ x \in Remotes
                   /\ Moves(t, "drop", hand[t], <<remote[x].dispatcher>> \o Tail(drop[t]))
                   /\ shared'[x] = [status |-> "freed", refs |-> 0]
<1> DEFINE x    == Head(drop[t])
           left == shared[x].refs - 1
<1>1. pc[t] # "read"
  BY NeverRead
<1>2. pc[t] = "drop" /\ drop[t] # <<>> /\ UNCHANGED <<index, slots, remote>>
  BY <1>1 DEF Disref
<1>3. x \in Objects /\ shared[x].refs \in Nat /\ shared[x].refs > 0 /\ Known(x)
  BY <1>2, ReleasedLives DEF Known, Live
<1>4. shared \in [Objects -> SharedType] /\ hand \in [Threads -> Hands]
  BY InHand DEF WInv, TypeOK
<1>5. pc' = [pc EXCEPT ![t] = "drop"] /\ hand' = [hand EXCEPT ![t] = hand[t]]
  BY <1>1, <1>2, <1>4 DEF Disref, Goto
<1>6. /\ left > 0 => /\ shared' = [shared EXCEPT ![x].refs = left]
                     /\ drop' = [drop EXCEPT ![t] = Tail(@)]
      /\ ~(left > 0) =>
            /\ shared' = [shared EXCEPT ![x] = [status |-> "freed", refs |-> 0]]
            /\ x \in Dispatchers => drop' = [drop EXCEPT ![t] = Tail(drop[t])]
            /\ x \notin Dispatchers => drop' = [drop EXCEPT ![t] = <<remote[x].dispatcher>> \o Tail(drop[t])]
  BY <1>1, <1>2 DEF Disref, Release
<1>7. CASE left > 0
  <2>1. shared'[x] = [status |-> shared[x].status, refs |-> shared[x].refs - 1]
        /\ \A y \in Objects \ {x} : shared'[y] = shared[y]
    BY <1>3, <1>4, <1>6, <1>7 DEF SharedType
  <2>2. Moves(t, "drop", hand[t], Tail(drop[t]))
    BY <1>5, <1>6, <1>7 DEF Moves
  <2> QED
    BY <1>2, <1>3, <1>7, <2>1, <2>2
<1>8. CASE ~(left > 0)
  <2>1. shared'[x] = [status |-> "freed", refs |-> 0] /\ \A y \in Objects \ {x} : shared'[y] = shared[y]
    BY <1>3, <1>4, <1>6, <1>8
  <2>2. shared[x].refs = 1
    BY <1>3, <1>8
  <2>3. x \in Dispatchers => Moves(t, "drop", hand[t], Tail(drop[t]))
    BY <1>5, <1>6, <1>8 DEF Moves
  <2>4. x \notin Dispatchers => Moves(t, "drop", hand[t], <<remote[x].dispatcher>> \o Tail(drop[t]))
    BY <1>5, <1>6, <1>8 DEF Moves
  <2> HIDE DEF x, left
  <2> QED
    BY <1>2, <1>3, <2>1, <2>2, <2>3, <2>4, Distinct DEF x
<1> QED
  BY <1>7, <1>8

\* It is released once: the thread has one unit of it fewer.
LEMMA MineTail ==
  ASSUME NEW t, NEW h, NEW xs \in Seq(Objects), xs # <<>>, NEW x
  PROVE  /\ Mine(t, "drop", h, xs, x) = Mine(t, "drop", h, Tail(xs), x) + Bit(Head(xs) = x)
         /\ Mine(t, "drop", h, Tail(xs), x) \in Nat
<1>1. Listing(t, xs, x) = Bit(Head(xs) = x) + Listing(t, Tail(xs), x) /\ Listing(t, Tail(xs), x) \in Nat
  BY TailCounts
<1>2. PICK a \in Nat, b \in Nat, c \in Nat, e \in Nat, k \in Nat :
         /\ a = Bit(Runs(t, "drop", h, x)) /\ b = Bit(Uses("drop", h, x)) /\ c = Bit(Answers("drop", h, x))
         /\ e = Listing(t, Tail(xs), x) /\ k = Bit(Head(xs) = x)
  BY <1>1 DEF Bit
<1>3. Listing(t, xs, x) = k + e
  BY <1>1, <1>2, Zenon
<1>4. Mine(t, "drop", h, xs, x) = a + b + c + (k + e)
  BY <1>2, <1>3, Zenon DEF Mine
<1>5. Mine(t, "drop", h, Tail(xs), x) = a + b + c + e
  BY <1>2, Zenon DEF Mine
<1>6. a + b + c + (k + e) = (a + b + c + e) + k /\ a + b + c + e \in Nat
  OBVIOUS
<1> QED
  BY <1>2, <1>4, <1>5, <1>6, Zenon

LEMMA MinePut ==
  ASSUME NEW t, NEW h, NEW xs \in Seq(Objects), NEW y \in Objects, NEW x
  PROVE  Mine(t, "drop", h, <<y>> \o xs, x) = Mine(t, "drop", h, xs, x) + Bit(y = x)
<1>1. PICK ys \in Seq(Objects) : ys = <<y>> \o xs
  BY SeqPut
<1>2. ys # <<>> /\ Head(ys) = y /\ Tail(ys) = xs
  BY <1>1
<1>3. Mine(t, "drop", h, ys, x) = Mine(t, "drop", h, Tail(ys), x) + Bit(Head(ys) = x)
  BY <1>2, MineTail
<1>4. Mine(t, "drop", h, Tail(ys), x) = Mine(t, "drop", h, xs, x) /\ Bit(Head(ys) = x) = Bit(y = x)
  BY <1>2, Zenon
<1>5. Mine(t, "drop", h, ys, x) = Mine(t, "drop", h, <<y>> \o xs, x)
  BY <1>1, Zenon
<1> QED
  BY <1>3, <1>4, <1>5, Zenon

LEMMA DisrefCounts ==
  ASSUME WInv, ~Overlap, CInv, NEW t \in Threads, Disref(t)
  PROVE  CInv'
<1>1. /\ WInv' /\ drop[t] # <<>> /\ UNCHANGED <<index, slots, remote>> /\ pc[t] = "drop"
      /\ \A y \in Objects : y # Head(drop[t]) => shared'[y] = shared[y]
  BY DisrefKeeps, DisrefIs
<1>2. PICK old \in Seq(Objects), x \in Objects : old = drop[t] /\ x = Head(old)
  BY <1>1, ReleasedLives
<1>3. /\ Live(x) /\ shared[x].refs \in Nat /\ shared[x].refs > 0 /\ shared[x].refs = Units(x)
      /\ \A d \in Dispatchers : pc[d] = "begin" => d # x
      /\ old # <<>> /\ Tail(old) \in Seq(Objects)
  BY <1>1, <1>2, ReleasedLives
<1>4. \A y \in Objects \ {x} : shared'[y] = shared[y] /\ (Live(y)' <=> Live(y)) /\ Refs(y)' = Refs(y)
  BY <1>1, <1>2 DEF Live, Refs
<1>5. ASSUME NEW y \in Objects
      PROVE  /\ Mine(t, pc[t], hand[t], drop[t], y) = Mine(t, "drop", hand[t], Tail(old), y) + Bit(x = y)
             /\ Mine(t, "drop", hand[t], Tail(old), y) \in Nat
  BY <1>1, <1>2, <1>3, MineTail
<1>6. ASSUME NEW xs \in Seq(Objects), Moves(t, "drop", hand[t], xs) PROVE Began'
  BY <1>1, <1>2, <1>3, <1>6, BeganMoves, Distinct
<1>7. CASE /\ shared[x].refs > 1 /\ Moves(t, "drop", hand[t], Tail(old))
           /\ shared'[x] = [status |-> shared[x].status, refs |-> shared[x].refs - 1]
  <2>1. Live(x)' /\ Refs(x)' = Refs(x) - 1
    BY <1>3, <1>7 DEF Live, Refs
  <2>2. ASSUME NEW y \in Objects PROVE Balanced(t, "drop", hand[t], Tail(old), y)
    <3>1. Outer(y)' = Outer(y)
      BY <1>1, <1>3, <1>4, <2>1, OuterSame, Distinct
    <3>2. Refs(y)' = Refs(y) - Bit(x = y)
      BY <1>4, <2>1, Numbers DEF Bit
    <3> QED
      <4>1. PICK a \in Nat, b \in Nat, c \in Nat, n \in Nat, k \in Nat :
               /\ a = Refs(y) /\ b = Outer(y) /\ c = Mine(t, "drop", hand[t], Tail(old), y)
               /\ n = Mine(t, pc[t], hand[t], drop[t], y) /\ k = Bit(x = y)
        BY <1>5, Numbers DEF Bit
      <4>2. Outer(y)' = b /\ Refs(y)' = a - k
        BY <3>1, <3>2, <4>1, Zenon
      <4>3. n = c + k
        BY <1>5, <4>1, Zenon
      <4>4. a - k = a + (b - b) + (c - n)
        BY <4>3
      <4> QED
        BY <4>1, <4>2, <4>4, Zenon DEF Balanced
  <2> QED
    BY <1>1, <1>3, <1>6, <1>7, <2>2, BalancedMoves
<1>8. CASE /\ shared[x].refs = 1 /\ x \in Dispatchers /\ Moves(t, "drop", hand[t], Tail(old))
           /\ shared'[x] = [status |-> "freed", refs |-> 0]
  <2>1. Refs(x)' = Refs(x) - 1
    BY <1>3, <1>8 DEF Live, Refs
  <2>2. ASSUME NEW y \in Objects PROVE Balanced(t, "drop", hand[t], Tail(old), y)
    <3>1. Outer(y)' = Outer(y)
      BY <1>1, <1>4, <1>8, OuterSame, Distinct
    <3>2. Refs(y)' = Refs(y) - Bit(x = y)
      BY <1>4, <2>1, Numbers DEF Bit
    <3> QED
      <4>1. PICK a \in Nat, b \in Nat, c \in Nat, n \in Nat, k \in Nat :
               /\ a = Refs(y) /\ b = Outer(y) /\ c = Mine(t, "drop", hand[t], Tail(old), y)
               /\ n = Mine(t, pc[t], hand[t], drop[t], y) /\ k = Bit(x = y)
        BY <1>5, Numbers DEF Bit
      <4>2. Outer(y)' = b /\ Refs(y)' = a - k
        BY <3>1, <3>2, <4>1, Zenon
      <4>3. n = c + k
        BY <1>5, <4>1, Zenon
      <4>4. a - k = a + (b - b) + (c - n)
        BY <4>3
      <4> QED
        BY <4>1, <4>2, <4>4, Zenon DEF Balanced
  <2> QED
    BY <1>1, <1>3, <1>6, <1>8, <2>2, BalancedMoves
<1>9. CASE /\ shared[x].refs = 1 /\ x \in Remotes
           /\ Moves(t, "drop", hand[t], <<remote[x].dispatcher>> \o Tail(old))
           /\ shared'[x] = [status |-> "freed", refs |-> 0]
  <2>1. Refs(x)' = Refs(x) - 1 /\ ~Live(x)'
    BY <1>3, <1>9 DEF Live, Refs
  <2>2. PICK e \in Dispatchers : e = remote[x].dispatcher
    BY <1>3, <1>9 DEF WInv, PlacedKnown, Known, Live
  <2>3. PICK xs \in Seq(Objects) : xs = <<e>> \o Tail(old) /\ Moves(t, "drop", hand[t], xs)
    <3>1. <<e>> \o Tail(old) \in Seq(Objects)
      BY <1>3, <2>2, SeqPut, Distinct
    <3> QED
      BY <1>9, <2>2, <3>1
  <2>4. ASSUME NEW y \in Objects PROVE Balanced(t, "drop", hand[t], xs, y)
    <3>1. Cardinality(Hosted(y)') = Cardinality(Hosted(y)) - Bit(e = y)
      <4>1. Cardinality(Hosted(y)') = Cardinality(Hosted(y)) - Bit(x \in Hosted(y)) + Bit(x \in Hosted(y)')
        BY <1>1, <1>4, <1>9, HostedMoves, Distinct
      <4>2. x \in Hosted(y) <=> e = y
        BY <1>3, <1>9, <2>2 DEF Hosted
      <4>3. x \notin Hosted(y)'
        BY <2>1 DEF Hosted
      <4>4. Bit(x \in Hosted(y)) = Bit(e = y) /\ Bit(x \in Hosted(y)') = 0
        BY <4>2, <4>3 DEF Bit
      <4>5. Cardinality(Hosted(y)) \in Nat /\ Bit(e = y) \in Nat
        BY UnitsAre DEF Bit, UnitsOK
      <4> QED
        BY <4>1, <4>4, <4>5
    <3>2. Indexed(y)' = Indexed(y) /\ Placed(y)' = Placed(y)
      BY <1>1 DEF Indexed, Placed
    <3>3. Outer(y)' = Outer(y) - Bit(e = y)
      <4>1. PICK a \in Nat, b \in Nat, c \in Nat, k \in Nat :
               /\ a = Cardinality(Indexed(y)) /\ b = Cardinality(Placed(y)) /\ c = Cardinality(Hosted(y))
               /\ k = Bit(e = y)
        BY UnitsAre DEF UnitsOK, Bit
      <4>2. Outer(y) = a + b + c
        BY <4>1, Zenon DEF Outer
      <4>3. Outer(y)' = a + b + (c - k)
        BY <3>1, <3>2, <4>1, Zenon DEF Outer
      <4> QED
        BY <4>1, <4>2, <4>3
    <3>4. Refs(y)' = Refs(y) - Bit(x = y)
      BY <1>4, <2>1, Numbers DEF Bit
    <3>5. Mine(t, "drop", hand[t], xs, y) = Mine(t, "drop", hand[t], Tail(old), y) + Bit(e = y)
      <4>1. PICK ys \in Seq(Objects) : ys = Tail(old)
        BY <1>3
      <4>2. Mine(t, "drop", hand[t], <<e>> \o ys, y) = Mine(t, "drop", hand[t], ys, y) + Bit(e = y)
        BY MinePut, Distinct
      <4> QED
        BY <2>3, <4>1, <4>2, Zenon
    <3>6. PICK j \in Nat, k \in Nat : j = Bit(e = y) /\ k = Bit(x = y)
      BY DEF Bit
    <3> QED
      <4>1. PICK a \in Nat, b \in Nat, c \in Nat, n \in Nat :
               /\ a = Refs(y) /\ b = Outer(y) /\ c = Mine(t, "drop", hand[t], Tail(old), y)
               /\ n = Mine(t, pc[t], hand[t], drop[t], y)
        BY <1>5, Numbers
      <4>0. Mine(t, pc[t], hand[t], drop[t], y) = Mine(t, "drop", hand[t], Tail(old), y) + Bit(x = y)
        BY <1>5
      <4>2. Outer(y)' = b - j /\ Refs(y)' = a - k
        BY <3>3, <3>4, <3>6, <4>1, Zenon
      <4>5. Mine(t, "drop", hand[t], xs, y) = c + j
        BY <3>5, <3>6, <4>1, Zenon
      <4>6. n = c + k
        BY ONLY <4>0, <3>6, <4>1, Zenon
      <4>3. a - k = a + ((b - j) - b) + ((c + j) - n)
        BY <4>6
      <4> QED
        BY <4>1, <4>2, <4>3, <4>5, Zenon DEF Balanced
  <2> QED
    BY <1>1, <1>6, <2>3, <2>4, BalancedMoves
<1> QED
  BY <1>2, <1>7, <1>8, <1>9, DisrefIs

-----------------------------------------------------------------------------
(* The units of those who start, register and shut down. *)

LEMMA IndexedMoves ==
  ASSUME WInv, NEW s \in Services, NEW x \in Objects, \A q \in Services \ {s} : index'[q] = index[q]
  PROVE  Cardinality(Indexed(x)') = Cardinality(Indexed(x)) - Bit(index[s] = x) + Bit(index'[s] = x)
<1>1. \A q : q # s => (q \in Indexed(x) <=> q \in Indexed(x)')
  BY DEF Indexed
<1>2. Bit(s \in Indexed(x)) = Bit(index[s] = x) /\ Bit(s \in Indexed(x)') = Bit(index'[s] = x)
  BY DEF Indexed, Bit
<1>3. Cardinality(Indexed(x)') = Cardinality(Indexed(x)) - Bit(s \in Indexed(x)) + Bit(s \in Indexed(x)')
  BY <1>1, UsersFinite, OneChanges
<1> QED
  BY <1>2, <1>3, Zenon

LEMMA PlacedMoves ==
  ASSUME WInv, NEW i \in Slots, NEW x \in Objects, \A j \in Slots \ {i} : slots'[j] = slots[j]
  PROVE  Cardinality(Placed(x)') = Cardinality(Placed(x)) - Bit(slots[i] = x) + Bit(slots'[i] = x)
<1>1. \A j : j # i => (j \in Placed(x) <=> j \in Placed(x)')
  BY DEF Placed
<1>2. Bit(i \in Placed(x)) = Bit(slots[i] = x) /\ Bit(i \in Placed(x)') = Bit(slots'[i] = x)
  BY DEF Placed, Bit
<1>3. Cardinality(Placed(x)') = Cardinality(Placed(x)) - Bit(i \in Placed(x)) + Bit(i \in Placed(x)')
  BY <1>1, UsersFinite, OneChanges
<1> QED
  BY <1>2, <1>3, Zenon

LEMMA OuterMoves ==
  ASSUME WInv, NEW x \in Objects, NEW a \in Int, NEW b \in Int, NEW c \in Int,
         Cardinality(Indexed(x)') = Cardinality(Indexed(x)) + a,
         Cardinality(Placed(x)') = Cardinality(Placed(x)) + b,
         Cardinality(Hosted(x)') = Cardinality(Hosted(x)) + c
  PROVE  Outer(x)' = Outer(x) + (a + b + c)
<1>1. PICK i \in Nat, p \in Nat, h \in Nat :
         i = Cardinality(Indexed(x)) /\ p = Cardinality(Placed(x)) /\ h = Cardinality(Hosted(x))
  BY UnitsAre DEF UnitsOK
<1>2. Outer(x) = i + p + h
  BY <1>1, Zenon DEF Outer
<1>3. Outer(x)' = (i + a) + (p + b) + (h + c)
  BY <1>1, Zenon DEF Outer
<1> QED
  BY <1>2, <1>3

LEMMA BalancedWhen ==
  ASSUME WInv, ~Overlap, CInv, NEW t \in Threads, NEW label, NEW h, NEW xs, NEW x \in Objects,
         NEW n \in Int, NEW a \in Int, NEW b \in Int, n = a + b,
         Refs(x)' = Refs(x) + n, Outer(x)' = Outer(x) + a,
         Mine(t, label, h, xs, x) = Mine(t, pc[t], hand[t], drop[t], x) + b
  PROVE  Balanced(t, label, h, xs, x)
<1>1. PICK r \in Nat, o \in Nat, m \in Nat :
         r = Refs(x) /\ o = Outer(x) /\ m = Mine(t, pc[t], hand[t], drop[t], x)
  BY Numbers
<1>2. r + n = r + ((o + a) - o) + ((m + b) - m)
  OBVIOUS
<1>3. Refs(x)' = r + n /\ Outer(x)' = o + a
  BY <1>1, Zenon
<1>4. Mine(t, label, h, xs, x) = m + b
  BY <1>1, Zenon
<1> QED
  BY <1>1, <1>2, <1>3, <1>4, Zenon DEF Balanced

\* What an idle caller has, and what it has when it releases some objects.
LEMMA IdleHas ==
  ASSUME WInv, NEW t \in Callers, pc[t] = "idle", NEW x
  PROVE  /\ Mine(t, pc[t], hand[t], drop[t], x) = 0
         /\ \A xs : Mine(t, "drop", hand[t], xs, x) = 0 + Listing(t, xs, x)
<1>1. t \notin Dispatchers /\ hand[t].o = None /\ hand[t].rsp = None /\ drop[t] = <<>>
  BY IdleHand, Distinct
<1>2. Mine(t, pc[t], hand[t], drop[t], x) = 0 + 0 + 0 + Listing(t, drop[t], x)
  BY <1>1 DEF Mine, Runs, Uses, Answers, Bit
<1>3. Listing(t, drop[t], x) = 0
  BY <1>1, ListingEmpty
<1>4. \A xs : Mine(t, "drop", hand[t], xs, x) = 0 + 0 + 0 + Listing(t, xs, x)
  BY <1>1 DEF Mine, Runs, Uses, Answers, Bit
<1> QED
  BY <1>2, <1>3, <1>4

LEMMA StartCounts ==
  ASSUME WInv, ~Overlap, CInv, NEW t \in Callers, Start(t)
  PROVE  CInv'
<1>1. /\ t \in Threads /\ pc[t] = "idle" /\ WInv' /\ UNCHANGED <<slots, remote, shared, pc, hand, drop>>
      /\ index' = [s \in Services |-> None] /\ router.status = "STOPPED"
  <2>1. /\ pc[t] = "idle" /\ UNCHANGED <<slots, remote, shared, pc, hand, drop>>
        /\ index' = [s \in Services |-> None] /\ router.status = "STOPPED"
    BY DEF Start
  <2> QED
    BY <2>1, StartKeeps, Distinct
<1>2. index' = index
  <2>1. index \in [Services -> Remotes \cup {None}]
    BY DEF WInv, TypeOK
  <2>2. \A s \in Services : index[s] = None
    BY <1>1 DEF WInv, IndexRunning
  <2> QED
    BY <1>1, <2>1, <2>2
<1>3. Moves(t, pc[t], hand[t], drop[t]) /\ drop[t] \in Seq(Objects)
  BY <1>1 DEF WInv, TypeOK, Moves
<1>4. Stays(t, pc[t], hand[t], drop[t])
  BY <1>1, <1>3 DEF Stays
<1> QED
  BY <1>1, <1>2, <1>4, QuietMoves

LEMMA AddDispatcherCounts ==
  ASSUME WInv, ~Overlap, CInv, NEW t \in Callers, NEW d \in Dispatchers, AddDispatcher(t, d)
  PROVE  CInv'
<1>1. /\ pc[t] = "idle" /\ pc[d] = "off" /\ shared[d].status = "none" /\ WInv'
      /\ hand[t].o = None /\ hand[t].rsp = None /\ drop[t] = <<>>
      /\ hand' = [hand EXCEPT ![t] = [hand[t] EXCEPT !.o = d]]
  BY AddDispatcherKeeps
<1>2. /\ t \in Threads /\ t \notin Dispatchers /\ d \in Threads /\ d \in Objects /\ d \notin Remotes /\ t # d
  BY Distinct
<1>3. /\ shared' = [shared EXCEPT ![d] = [status |-> "STARTTING", refs |-> 1]]
      /\ pc' = [pc EXCEPT ![t] = "starting", ![d] = "begin"] /\ UNCHANGED <<index, slots, remote, drop>>
  BY DEF AddDispatcher
<1>4. /\ pc \in [Threads -> Labels] /\ hand \in [Threads -> Hands] /\ drop \in [Threads -> Seq(Objects)]
      /\ shared \in [Objects -> SharedType]
  BY <1>2, InHand DEF WInv, TypeOK, Labels
<1>5. PICK h \in Hands, xs \in Seq(Objects) : h = [hand[t] EXCEPT !.o = d] /\ xs = <<>>
  <2>1. [hand[t] EXCEPT !.o = d] \in Hands
    BY <1>2, <1>4 DEF Hands
  <2> QED
    BY <2>1, EmptyList
<1>6. /\ pc'[t] = "starting" /\ hand'[t] = h /\ pc'[d] = "begin"
      /\ \A u \in Threads \ {t} : hand'[u] = hand[u] /\ (u # d => pc'[u] = pc[u])
      /\ h.o = d /\ h.rsp = None
  BY <1>1, <1>2, <1>3, <1>4, <1>5 DEF Hands
<1>7. drop' = [drop EXCEPT ![t] = xs]
  BY <1>1, <1>2, <1>3, <1>4, <1>5
<1>8. /\ shared'[d] = [status |-> "STARTTING", refs |-> 1] /\ \A y \in Objects \ {d} : shared'[y] = shared[y]
  BY <1>2, <1>3, <1>4
<1>9. Began'
  <2> SUFFICES ASSUME NEW e \in Dispatchers, pc'[e] = "begin"
      PROVE  /\ shared'[e].status = "STARTTING" /\ shared'[e].refs = 1
             /\ \E u \in Threads : pc'[u] = "starting" /\ hand'[u].o = e
    BY DEF Began
  <2>1. CASE e = d
    BY <1>2, <1>6, <1>8, <2>1
  <2>2. CASE e # d
    <3>1. pc[e] = "begin" /\ e \in Objects
      BY <1>2, <1>6, <2>2, Distinct
    <3>2. /\ shared[e].status = "STARTTING" /\ shared[e].refs = 1
          /\ \E u \in Threads : pc[u] = "starting" /\ hand[u].o = e
      BY <3>1 DEF CInv, Began
    <3>3. PICK u \in Threads : pc[u] = "starting" /\ hand[u].o = e
      BY <3>2
    <3>4. pc'[u] = "starting" /\ hand'[u].o = e
      BY <1>1, <1>6, <3>3
    <3> QED
      BY <1>8, <2>2, <3>1, <3>2, <3>4
  <2> QED
    BY <2>1, <2>2
<1>10. ASSUME NEW x \in Objects PROVE Balanced(t, "starting", h, xs, x)
  <2>2. Outer(x)' = Outer(x) + 0
    BY <1>2, <1>3, <1>8, OuterSame, Distinct, Numbers DEF Live
  <2>3. Mine(t, pc[t], hand[t], drop[t], x) = 0
    BY <1>1, IdleHas
  <2>4. Mine(t, "starting", h, xs, x) = Bit(d = x)
    BY <1>2, <1>5, <1>6, ListingEmpty DEF Mine, Runs, Uses, Answers, Bit
  <2>5. Refs(x)' = Refs(x) + Bit(d = x)
    <3>1. CASE x = d
      BY <1>1, <1>8, <3>1 DEF Refs, Live, Bit
    <3>2. CASE x # d
      BY <1>2, <1>8, <3>2, Numbers DEF Refs, Live, Bit
    <3> QED
      BY <3>1, <3>2
  <2>6. PICK k \in Nat : k = Bit(d = x)
    BY DEF Bit
  <2>7. Refs(x)' = Refs(x) + k /\ Mine(t, "starting", h, xs, x) = Mine(t, pc[t], hand[t], drop[t], x) + k
    BY <2>3, <2>4, <2>5, <2>6
  <2>8. 0 \in Int /\ k \in Int /\ k = 0 + k
    OBVIOUS
  <2> QED
    BY <1>2, <2>2, <2>7, <2>8, BalancedWhen
<1>11. Acts(t, "starting", h, xs)
  BY <1>1, <1>6, <1>7 DEF Acts
<1>12. CountsUsers'
  BY <1>1, <1>2, <1>10, <1>11, CountsMove DEF CInv
<1> QED
  BY <1>9, <1>12 DEF CInv

LEMMA RegDispatcherCounts ==
  ASSUME WInv, ~Overlap, CInv, NEW t \in Callers, NEW i \in Slots, RegDispatcher(t, i)
  PROVE  CInv'
<1>1. /\ pc[t] = "starting" /\ hand[t].o \in Dispatchers /\ hand[t].rsp = None /\ drop[t] = <<>> /\ WInv'
      /\ shared[hand[t].o].status # "STARTTING" /\ UNCHANGED <<index, remote>>
  <2>1. UNCHANGED <<index, remote>>
    BY DEF RegDispatcher
  <2> QED
    BY <2>1, RegDispatcherKeeps
<1>2. PICK d \in Dispatchers : d = hand[t].o
  BY <1>1
<1>3. /\ t \in Threads /\ t \notin Dispatchers /\ d \in Objects /\ d \notin Remotes /\ d # None
      /\ Nothing.o = None /\ Nothing.rsp = None
  BY Distinct, HandsAre
<1>4. ASSUME NEW x PROVE Mine(t, pc[t], hand[t], drop[t], x) = Bit(d = x)
  BY <1>1, <1>2, <1>3, ListingEmpty DEF Mine, Runs, Uses, Answers, Bit
<1>5. Live(d)
  <2>1. Mine(t, pc[t], hand[t], drop[t], d) > 0
    BY <1>4 DEF Bit
  <2> QED
    BY <1>3, <2>1, UserLives DEF CInv
<1>6. ASSUME NEW label, NEW xs, Moves(t, label, Nothing, xs), label # "begin", \A y \in Objects \ {d} : shared'[y] = shared[y]
      PROVE  Began'
  <2> SUFFICES ASSUME NEW e \in Dispatchers, pc'[e] = "begin"
      PROVE  /\ shared'[e].status = "STARTTING" /\ shared'[e].refs = 1
             /\ \E u \in Threads : pc'[u] = "starting" /\ hand'[u].o = e
    BY DEF Began
  <2>1. /\ pc \in [Threads -> Labels] /\ hand \in [Threads -> Hands]
    BY DEF WInv, TypeOK, Labels
  <2>2. \A u \in Threads \ {t} : pc'[u] = pc[u] /\ hand'[u] = hand[u]
    BY <1>6, <2>1 DEF Moves
  <2>3. e # t /\ e \in Threads /\ e \in Objects /\ pc[e] = "begin"
    BY <1>3, <2>2, Distinct
  <2>4. /\ shared[e].status = "STARTTING" /\ shared[e].refs = 1
        /\ \E u \in Threads : pc[u] = "starting" /\ hand[u].o = e
    BY <2>3 DEF CInv, Began
  <2>5. PICK u \in Threads : pc[u] = "starting" /\ hand[u].o = e
    BY <2>4
  <2>6. e # d
    BY <1>1, <1>2, <2>4
  <2>7. u # t /\ pc'[u] = "starting" /\ hand'[u].o = e
    BY <1>2, <2>2, <2>5, <2>6
  <2> QED
    BY <1>6, <2>3, <2>4, <2>6, <2>7
<1>7. CASE /\ Moves(t, "idle", Nothing, <<>>) /\ UNCHANGED shared
           /\ slots[i] = None /\ slots' = [slots EXCEPT ![i] = hand[t].o]
  <2>1. PICK xs \in Seq(Objects) : xs = <<>> /\ Moves(t, "idle", Nothing, xs)
    BY <1>7, EmptyList
  <2>2. Began'
    BY <1>6, <1>7, <2>1
  <2>3. ASSUME NEW x \in Objects PROVE Balanced(t, "idle", Nothing, xs, x)
    <3>1. Mine(t, "idle", Nothing, xs, x) = 0
      BY <1>3, <2>1, ListingEmpty DEF Mine, Runs, Uses, Answers, Bit
    <3>2. PICK k \in Nat : k = Bit(d = x)
      BY DEF Bit
    <3>3. Mine(t, "idle", Nothing, xs, x) = Mine(t, pc[t], hand[t], drop[t], x) + (-k)
      BY <1>4, <3>1, <3>2
    <3>4. Refs(x)' = Refs(x) + 0
      BY <1>3, <1>7, Numbers DEF Refs, Live
    <3>5. Cardinality(Placed(x)') = Cardinality(Placed(x)) + k
      <4>1. slots'[i] = d /\ \A j \in Slots \ {i} : slots'[j] = slots[j]
        BY <1>2, <1>7 DEF WInv, TypeOK
      <4>2. Cardinality(Placed(x)') = Cardinality(Placed(x)) - Bit(slots[i] = x) + Bit(slots'[i] = x)
        BY <4>1, PlacedMoves
      <4>3. Bit(slots[i] = x) = 0 /\ Bit(slots'[i] = x) = k
        BY <1>7, <3>2, <4>1, Distinct DEF Bit
      <4> QED
        BY <4>2, <4>3, UnitsAre DEF UnitsOK
    <3>6. Indexed(x)' = Indexed(x) /\ Hosted(x)' = Hosted(x)
      BY <1>1, <1>7 DEF Indexed, Hosted, Live
    <3>7. Cardinality(Indexed(x)') = Cardinality(Indexed(x)) + 0 /\ Cardinality(Hosted(x)') = Cardinality(Hosted(x)) + 0
      BY <3>6, UnitsAre DEF UnitsOK
    <3>8. Outer(x)' = Outer(x) + (0 + k + 0) /\ 0 \in Int /\ -k \in Int /\ k \in Int /\ 0 + k + 0 = k /\ 0 = k + (-k)
      BY <3>5, <3>7, OuterMoves
    <3> QED
      BY <1>3, <3>3, <3>4, <3>8, BalancedWhen
  <2> QED
    BY <1>1, <1>3, <2>1, <2>2, <2>3, BalancedMoves
<1>8. CASE /\ Moves(t, "drop", Nothing, <<hand[t].o>>) /\ UNCHANGED slots
           /\ shared' = [shared EXCEPT ![hand[t].o].status = "STOPPING"]
  <2>1. PICK xs \in Seq(Objects) : xs = <<d>> /\ Moves(t, "drop", Nothing, xs)
    <3>1. <<d>> \in Seq(Objects)
      BY <1>3
    <3> QED
      BY <1>2, <1>8, <3>1
  <2>2. /\ shared'[d] = [status |-> "STOPPING", refs |-> shared[d].refs]
        /\ \A y \in Objects \ {d} : shared'[y] = shared[y]
    BY <1>2, <1>3, <1>5, <1>8, StatusKeeps DEF Live, Known, Statuses
  <2>3. Began'
    BY <1>6, <2>1, <2>2
  <2>4. \A x \in Objects : (Live(x)' <=> Live(x)) /\ Refs(x)' = Refs(x)
    BY <1>5, <2>2 DEF Live, Refs
  <2>5. ASSUME NEW x \in Objects PROVE Balanced(t, "drop", Nothing, xs, x)
    <3>1. Listing(t, xs, x) = Bit(d = x)
      BY <1>3, <2>1, ListingOne
    <3>2. Mine(t, "drop", Nothing, xs, x) = 0 + 0 + 0 + Listing(t, xs, x)
      BY <1>3 DEF Mine, Runs, Uses, Answers, Bit
    <3>3. PICK k \in Nat : k = Bit(d = x)
      BY DEF Bit
    <3>4. Mine(t, "drop", Nothing, xs, x) = Mine(t, pc[t], hand[t], drop[t], x) + 0
      BY <1>4, <3>1, <3>2, <3>3
    <3>5. Refs(x)' = Refs(x) + 0
      BY <1>3, <2>4, Numbers
    <3>6. Outer(x)' = Outer(x) + 0
      BY <1>1, <1>3, <1>8, <2>4, OuterSame, Distinct, Numbers
    <3>7. 0 \in Int /\ 0 = 0 + 0
      OBVIOUS
    <3> QED
      BY <1>3, <3>4, <3>5, <3>6, <3>7, BalancedWhen
  <2> QED
    BY <1>1, <1>3, <2>1, <2>3, <2>5, BalancedMoves
<1> QED
  BY <1>7, <1>8, RegDispatcherKeeps

LEMMA NumberedOuter ==
  ASSUME WInv, NEW x \in Objects
  PROVE  /\ Cardinality(Indexed(x)) + 0 = Cardinality(Indexed(x))
         /\ Cardinality(Placed(x)) + 0 = Cardinality(Placed(x))
         /\ Cardinality(Hosted(x)) + 0 = Cardinality(Hosted(x))
BY UnitsAre DEF UnitsOK

\* A dispatcher that is placed or that hosts a service is one that has begun.
LEMMA BegunElsewhere ==
  ASSUME WInv, ~Overlap, CInv, NEW d \in Dispatchers, pc[d] = "begin", NEW i \in Slots
  PROVE  slots[i] # d
<1> SUFFICES ASSUME slots[i] = d PROVE FALSE
  OBVIOUS
<1>1. i \in Placed(d) /\ d \in Objects
  BY Distinct DEF Placed
<1>2. Outer(d) > 0
  BY <1>1, OuterMembers
<1> QED
  BY <1>2, BeginsAlone

LEMMA DestroyServiceCounts ==
  ASSUME WInv, ~Overlap, CInv, NEW t \in Callers, NEW s \in Services, DestroyService(t, s)
  PROVE  CInv'
<1>1. /\ pc[t] = "idle" /\ index[s] \in Remotes /\ WInv' /\ t \in Threads
      /\ index' = [index EXCEPT ![s] = None] /\ UNCHANGED <<slots, remote>>
      /\ shared' = [shared EXCEPT ![index[s]].status = "TODESTROY"]
      /\ Moves(t, "drop", hand[t], <<index[s]>>)
  <2>1. UNCHANGED <<slots, remote>>
    BY DEF DestroyService
  <2> QED
    BY <2>1, DestroyServiceKeeps, Distinct
<1>2. PICK r \in Remotes : r = index[s]
  BY <1>1
<1>3. r \in Objects /\ r \notin Dispatchers /\ r # None
  BY Distinct
<1>4. Live(r)
  <2>1. s \in Indexed(r)
    BY <1>2 DEF Indexed
  <2>2. Outer(r) > 0
    BY <1>3, <2>1, OuterMembers
  <2> QED
    BY <1>1, <1>3, <2>2, UserLives DEF CInv
<1>5. /\ shared'[r] = [status |-> "TODESTROY", refs |-> shared[r].refs]
      /\ \A y \in Objects \ {r} : shared'[y] = shared[y]
  BY <1>1, <1>2, <1>3, <1>4, StatusKeeps DEF Live, Known, Statuses
<1>6. \A x \in Objects : (Live(x)' <=> Live(x)) /\ Refs(x)' = Refs(x)
  BY <1>4, <1>5 DEF Live, Refs
<1>7. PICK xs \in Seq(Objects) : xs = <<r>> /\ Moves(t, "drop", hand[t], xs)
  <2>1. <<r>> \in Seq(Objects)
    BY <1>3
  <2> QED
    BY <1>1, <1>2, <2>1
<1>8. Began'
  BY <1>1, <1>3, <1>5, <1>7, BeganMoves, Distinct
<1>9. ASSUME NEW x \in Objects PROVE Balanced(t, "drop", hand[t], xs, x)
  <2>1. PICK k \in Nat : k = IF r = x THEN 1 ELSE 0
    OBVIOUS
  <2>2. Mine(t, "drop", hand[t], xs, x) = Mine(t, pc[t], hand[t], drop[t], x) + k
    <3>1. Listing(t, xs, x) = Bit(r = x)
      BY <1>3, <1>7, ListingOne
    <3>2. Listing(t, xs, x) = k
      BY <2>1, <3>1 DEF Bit
    <3> QED
      BY <1>1, <3>2, IdleHas
  <2>3. Cardinality(Indexed(x)') = Cardinality(Indexed(x)) + (-k)
    <3>1. index'[s] = None /\ \A q \in Services \ {s} : index'[q] = index[q]
      BY <1>1 DEF WInv, TypeOK
    <3>2. Cardinality(Indexed(x)') = Cardinality(Indexed(x)) - Bit(index[s] = x) + Bit(index'[s] = x)
      BY <3>1, IndexedMoves
    <3>3. Bit(index[s] = x) = k /\ Bit(index'[s] = x) = 0
      BY <1>2, <2>1, <3>1, Distinct DEF Bit
    <3> QED
      BY <3>2, <3>3, UnitsAre DEF UnitsOK
  <2>4. Placed(x)' = Placed(x) /\ Hosted(x)' = Hosted(x)
    BY <1>1, <1>6, Distinct DEF Placed, Hosted
  <2>5. /\ Cardinality(Placed(x)') = Cardinality(Placed(x)) + 0
        /\ Cardinality(Hosted(x)') = Cardinality(Hosted(x)) + 0
    BY <2>4, NumberedOuter
  <2>6. Outer(x)' = Outer(x) + (-k + 0 + 0) /\ 0 \in Int /\ -k \in Int /\ k \in Int /\ -k + 0 + 0 = -k /\ 0 = (-k) + k
    BY <2>3, <2>5, OuterMoves
  <2>7. Refs(x)' = Refs(x) + 0
    BY <1>1, <1>6, Numbers
  <2> QED
    BY <1>1, <2>2, <2>6, <2>7, BalancedWhen
<1> QED
  BY <1>1, <1>7, <1>8, <1>9, BalancedMoves

LEMMA ShutdownDispatcherCounts ==
  ASSUME WInv, ~Overlap, CInv, NEW t \in Callers, NEW i \in Slots, ShutdownDispatcher(t, i)
  PROVE  CInv'
<1>1. /\ pc[t] = "drop" /\ drop[t] = <<>> /\ slots[i] \in Dispatchers /\ WInv' /\ t \in Threads
      /\ slots' = [slots EXCEPT ![i] = None] /\ UNCHANGED <<index, remote>>
      /\ Moves(t, "drop", hand[t], <<slots[i]>>)
      /\ shared' = IF shared[slots[i]].status \in {"RUNNING", "STARTTING"}
                   THEN [shared EXCEPT ![slots[i]].status = "STOPPING"] ELSE shared
  <2>1. UNCHANGED <<index, remote>>
    BY DEF ShutdownDispatcher
  <2> QED
    BY <2>1, ShutdownDispatcherKeeps, Distinct
<1>2. PICK d \in Dispatchers : d = slots[i]
  BY <1>1
<1>3. d \in Objects /\ d \notin Remotes /\ d # None
  BY Distinct
<1>4. Live(d)
  <2>1. i \in Placed(d)
    BY <1>2 DEF Placed
  <2>2. Outer(d) > 0
    BY <1>3, <2>1, OuterMembers
  <2> QED
    BY <1>1, <1>3, <2>2, UserLives DEF CInv
<1>5. /\ Live(d)' /\ shared'[d].refs = shared[d].refs
      /\ \A y \in Objects \ {d} : shared'[y] = shared[y]
  <2>1. CASE shared' = [shared EXCEPT ![d].status = "STOPPING"]
    <3>1. /\ shared'[d] = [status |-> "STOPPING", refs |-> shared[d].refs]
          /\ \A y \in Objects \ {d} : shared'[y] = shared[y]
      BY <1>3, <1>4, <2>1, StatusKeeps DEF Live, Known, Statuses
    <3> QED
      BY <3>1 DEF Live
  <2>2. CASE shared' = shared
    BY <1>4, <2>2 DEF Live
  <2> QED
    BY <1>1, <1>2, <2>1, <2>2
<1>6. \A x \in Objects : (Live(x)' <=> Live(x)) /\ Refs(x)' = Refs(x)
  BY <1>4, <1>5 DEF Live, Refs
<1>7. PICK xs \in Seq(Objects) : xs = <<d>> /\ Moves(t, "drop", hand[t], xs)
  <2>1. <<d>> \in Seq(Objects)
    BY <1>3
  <2> QED
    BY <1>1, <1>2, <2>1
<1>8. Began'
  <2>1. \A e \in Dispatchers : pc[e] = "begin" /\ e # t => shared'[e] = shared[e]
    BY <1>2, <1>5, BegunElsewhere, Distinct
  <2> QED
    BY <1>1, <1>7, <2>1, BeganMoves
<1>9. ASSUME NEW x \in Objects PROVE Balanced(t, "drop", hand[t], xs, x)
  <2>1. PICK k \in Nat : k = IF d = x THEN 1 ELSE 0
    OBVIOUS
  <2>2. Mine(t, "drop", hand[t], xs, x) = Mine(t, pc[t], hand[t], drop[t], x) + k
    <3>0. PICK old \in Seq(Objects) : old = <<>> /\ old = drop[t]
      BY <1>1, EmptyList
    <3>1. Mine(t, "drop", hand[t], <<d>> \o old, x) = Mine(t, "drop", hand[t], old, x) + Bit(d = x)
      BY <1>3, MinePut
    <3>2. <<d>> \o old = xs
      BY <1>7, <3>0
    <3>3. Bit(d = x) = k
      BY <2>1 DEF Bit
    <3> QED
      BY <1>1, <3>0, <3>1, <3>2, <3>3, Zenon
  <2>3. Cardinality(Placed(x)') = Cardinality(Placed(x)) + (-k)
    <3>1. slots'[i] = None /\ \A j \in Slots \ {i} : slots'[j] = slots[j]
      BY <1>1 DEF WInv, TypeOK
    <3>2. Cardinality(Placed(x)') = Cardinality(Placed(x)) - Bit(slots[i] = x) + Bit(slots'[i] = x)
      BY <3>1, PlacedMoves
    <3>3. Bit(slots[i] = x) = k /\ Bit(slots'[i] = x) = 0
      BY <1>2, <2>1, <3>1, Distinct DEF Bit
    <3> QED
      BY <3>2, <3>3, UnitsAre DEF UnitsOK
  <2>4. Indexed(x)' = Indexed(x) /\ Hosted(x)' = Hosted(x)
    BY <1>1, <1>6, Distinct DEF Indexed, Hosted
  <2>5. /\ Cardinality(Indexed(x)') = Cardinality(Indexed(x)) + 0
        /\ Cardinality(Hosted(x)') = Cardinality(Hosted(x)) + 0
    BY <2>4, NumberedOuter
  <2>6. Outer(x)' = Outer(x) + (0 + -k + 0) /\ 0 \in Int /\ -k \in Int /\ k \in Int /\ 0 + -k + 0 = -k /\ 0 = (-k) + k
    BY <2>3, <2>5, OuterMoves
  <2>7. Refs(x)' = Refs(x) + 0
    BY <1>1, <1>6, Numbers
  <2> QED
    BY <1>1, <2>2, <2>6, <2>7, BalancedWhen
<1> QED
  BY <1>1, <1>7, <1>8, <1>9, BalancedMoves

LEMMA ShutdownCounts ==
  ASSUME WInv, ~Overlap, CInv, NEW t \in Callers, Shutdown(t)
  PROVE  CInv'
<1> DEFINE all == {index[s] : s \in Services} \ {None}
<1>1. /\ pc[t] = "idle" /\ WInv' /\ t \in Threads /\ UNCHANGED <<slots, remote>>
      /\ Moves(t, "drop", hand[t], SetToSeq(all)) /\ index' = [s \in Services |-> None]
      /\ \A x \in Objects : shared'[x] = IF x \in all THEN [status |-> "TODESTROY", refs |-> shared[x].refs]
                                         ELSE shared[x]
  <2>1. UNCHANGED <<slots, remote>>
    BY DEF Shutdown
  <2> QED
    BY <2>1, ShutdownKeeps, Distinct
<1>2. all \subseteq Remotes /\ IsFiniteSet(all) /\ \A x \in all : x \in Objects
  BY AllIndexed
<1>3. ASSUME NEW x \in all PROVE Live(x) /\ Cardinality(Indexed(x)) = 1
  <2>1. PICK s \in Services : index[s] = x /\ x # None
    OBVIOUS
  <2>2. s \in Indexed(x)
    BY <2>1 DEF Indexed
  <2>3. Outer(x) > 0
    BY <1>2, <2>2, OuterMembers
  <2>4. Live(x)
    BY <1>1, <1>2, <2>3, UserLives DEF CInv
  <2>5. \A q \in Indexed(x) : q = s
    BY <2>1 DEF Indexed, WInv, IndexRunning
  <2>6. Indexed(x) = {s}
    BY <2>2, <2>5
  <2> QED
    BY <2>4, <2>6, FS_Singleton
<1>4. ASSUME NEW x \in Objects, x \notin all PROVE Cardinality(Indexed(x)) = 0
  <2>1. Indexed(x) = {}
    BY <1>4, Distinct DEF Indexed
  <2> QED
    BY <2>1, FS_EmptySet
<1>5. ASSUME NEW x \in Objects PROVE Cardinality(Indexed(x)') = 0
  <2>1. Indexed(x)' = {}
    BY <1>1, Distinct DEF Indexed
  <2> QED
    BY <2>1, FS_EmptySet
<1>6. PICK xs \in Seq(Objects) :
         /\ Moves(t, "drop", hand[t], xs) /\ \A y \in all : \E i \in DOMAIN xs : xs[i] = y
         /\ \A i \in DOMAIN xs : xs[i] \in all
         /\ \A i, j \in DOMAIN xs : xs[i] = xs[j] => i = j
  <2> DEFINE ys == SetToSeq(all)
  <2>1. /\ ys \in Seq(all) /\ \A y \in all : \E i \in DOMAIN ys : ys[i] = y
        /\ \A i, j \in DOMAIN ys : ys[i] = ys[j] => i = j
    BY <1>2, Listed
  <2> HIDE DEF ys, all
  <2>2. ys \in Seq(Objects) /\ \A i \in DOMAIN ys : ys[i] \in all
    BY <1>2, <2>1
  <2>3. Moves(t, "drop", hand[t], ys)
    BY <1>1 DEF ys
  <2> QED
    BY <2>1, <2>2, <2>3
<1> HIDE DEF all
<1>7. \A x \in Objects : (Live(x)' <=> Live(x)) /\ Refs(x)' = Refs(x)
  <2>1. ASSUME NEW x \in Objects, x \in all PROVE (Live(x)' <=> Live(x)) /\ Refs(x)' = Refs(x)
    <3>1. Live(x) /\ shared'[x] = [status |-> "TODESTROY", refs |-> shared[x].refs]
      BY <1>1, <1>3, <2>1
    <3> QED
      BY <3>1 DEF Live, Refs
  <2>2. ASSUME NEW x \in Objects, x \notin all PROVE (Live(x)' <=> Live(x)) /\ Refs(x)' = Refs(x)
    <3>1. shared'[x] = shared[x]
      BY <1>1, <2>2
    <3> QED
      BY <3>1 DEF Live, Refs
  <2> QED
    BY <2>1, <2>2
<1>8. Began'
  <2>1. \A d \in Dispatchers : shared'[d] = shared[d]
    BY <1>1, <1>2, Distinct
  <2> QED
    BY <1>1, <1>6, <2>1, BeganMoves
<1>9. ASSUME NEW x \in Objects PROVE Balanced(t, "drop", hand[t], xs, x)
  <2>1. PICK k \in Nat : k = IF x \in all THEN 1 ELSE 0
    OBVIOUS
  <2>2. Mine(t, "drop", hand[t], xs, x) = Mine(t, pc[t], hand[t], drop[t], x) + k
    <3>1. Listing(t, xs, x) = Bit(x \in all)
      BY <1>6, ListingAll
    <3>2. Listing(t, xs, x) = k
      BY <2>1, <3>1 DEF Bit
    <3> QED
      BY <1>1, <3>2, IdleHas
  <2>3. Cardinality(Indexed(x)') = Cardinality(Indexed(x)) + (-k)
    BY <1>3, <1>4, <1>5, <2>1
  <2>4. Placed(x)' = Placed(x) /\ Hosted(x)' = Hosted(x)
    BY <1>1, <1>7, Distinct DEF Placed, Hosted
  <2>5. /\ Cardinality(Placed(x)') = Cardinality(Placed(x)) + 0
        /\ Cardinality(Hosted(x)') = Cardinality(Hosted(x)) + 0
    BY <2>4, NumberedOuter
  <2>6. Outer(x)' = Outer(x) + (-k + 0 + 0) /\ 0 \in Int /\ -k \in Int /\ k \in Int /\ -k + 0 + 0 = -k /\ 0 = (-k) + k
    BY <2>3, <2>5, OuterMoves
  <2>7. Refs(x)' = Refs(x) + 0
    BY <1>1, <1>7, Numbers
  <2> QED
    BY <1>1, <2>2, <2>6, <2>7, BalancedWhen
<1> QED
  BY <1>1, <1>6, <1>8, <1>9, BalancedMoves

LEMMA InitServiceCounts ==
  ASSUME WInv, ~Overlap, CInv, NEW t \in Callers, NEW s \in Services, NEW i \in Slots, NEW r \in Remotes,
         InitService(t, s, i, r)
  PROVE  CInv'
<1>0. Registers(t, s, i, r) /\ WInv' /\ t \in Threads /\ UNCHANGED slots
  <2>1. UNCHANGED slots
    BY DEF InitService
  <2>2. Registers(t, s, i, r) /\ WInv'
    BY InitServiceKeeps
  <2> QED
    BY <2>1, <2>2, Distinct
<1>1. /\ pc[t] = "idle" /\ shared[r].status = "none" /\ slots[i] \in Dispatchers /\ CanRef(slots[i])
      /\ remote' = [remote EXCEPT ![r] = [id |-> s, dispatcher |-> slots[i]]]
      /\ shared'[slots[i]] = [status |-> shared[slots[i]].status, refs |-> shared[slots[i]].refs + 2]
      /\ \A x \in Objects \ {slots[i], r} : shared'[x] = shared[x]
      /\ WInv' /\ t \in Threads /\ UNCHANGED slots
  BY <1>0, Zenon DEF Registers
<1>2. PICK d \in Dispatchers : d = slots[i]
  BY <1>1
<1>3. /\ r \in Objects /\ r \notin Dispatchers /\ r # None /\ d \in Objects /\ d \notin Remotes /\ d # r
      /\ <<d>> \in Seq(Objects) /\ <<d, r>> \in Seq(Objects)
  BY Distinct
<1>4. PICK xs \in Seq(Objects), stored \in {0, 1}, kept \in {0, 1}, status \in {"RUNNING", "TODESTROY"} :
         /\ Moves(t, "drop", hand[t], xs) /\ stored + kept = 1
         /\ shared'[r] = [status |-> status, refs |-> 1]
         /\ \/ stored = 1 /\ xs = <<d>> /\ index[s] = None /\ index' = [index EXCEPT ![s] = r]
            \/ stored = 0 /\ xs = <<d, r>> /\ UNCHANGED index
  <2>1. CASE /\ index[s] = None /\ index' = [index EXCEPT ![s] = r]
             /\ Moves(t, "drop", hand[t], <<slots[i]>>)
             /\ shared'[r] = [status |-> "RUNNING", refs |-> 1]
    <3>1. PICK xs \in Seq(Objects) : xs = <<d>> /\ Moves(t, "drop", hand[t], xs)
      BY <1>2, <1>3, <2>1
    <3>2. 1 + 0 = 1 /\ 1 \in {0, 1} /\ 0 \in {0, 1}
      OBVIOUS
    <3> QED
      BY <2>1, <3>1, <3>2
  <2>2. CASE /\ UNCHANGED index /\ Moves(t, "drop", hand[t], <<slots[i], r>>)
             /\ shared'[r] = [status |-> "TODESTROY", refs |-> 1]
    <3>1. PICK xs \in Seq(Objects) : xs = <<d, r>> /\ Moves(t, "drop", hand[t], xs)
      BY <1>2, <1>3, <2>2
    <3>2. 0 + 1 = 1 /\ 1 \in {0, 1} /\ 0 \in {0, 1}
      OBVIOUS
    <3> QED
      BY <2>2, <3>1, <3>2
  <2> QED
    BY <1>0, <2>1, <2>2, Zenon DEF Registers
<1>5. /\ Live(d) /\ Live(d)' /\ ~Live(r) /\ Live(r)'
      /\ shared'[d].refs = shared[d].refs + 2 /\ shared'[r].refs = 1
      /\ \A x \in Objects \ {d, r} : shared'[x] = shared[x]
  BY <1>1, <1>2, <1>4 DEF CanRef, Live, UpToRunning
<1>6. Began'
  <2>1. \A e \in Dispatchers : pc[e] = "begin" /\ e # t => shared'[e] = shared[e]
    BY <1>2, <1>3, <1>5, BegunElsewhere, Distinct
  <2> QED
    BY <1>1, <1>4, <2>1, BeganMoves
<1>7. ASSUME NEW x \in Objects PROVE Balanced(t, "drop", hand[t], xs, x)
  <2>1. PICK j \in Nat, k \in Nat : j = (IF d = x THEN 1 ELSE 0) /\ k = IF r = x THEN 1 ELSE 0
    OBVIOUS
  <2>2. PICK made \in Nat, left \in Nat :
           /\ made = (IF stored = 1 THEN k ELSE 0) /\ left = (IF stored = 1 THEN 0 ELSE k) /\ made + left = k
    BY <2>1
  <2>3. Refs(x)' = Refs(x) + (j + j + k)
    <3>1. CASE x = d
      BY <1>3, <1>5, <2>1, <3>1, Numbers DEF Refs
    <3>2. CASE x = r
      BY <1>3, <1>5, <2>1, <3>2 DEF Refs
    <3>3. CASE x # d /\ x # r
      <4>1. Refs(x)' = Refs(x)
        BY <1>5, <3>3 DEF Refs, Live
      <4> QED
        BY <1>1, <2>1, <3>3, <4>1, Numbers
    <3> QED
      BY <3>1, <3>2, <3>3
  <2>4. Mine(t, "drop", hand[t], xs, x) = Mine(t, pc[t], hand[t], drop[t], x) + (j + left)
    <3>1. Listing(t, xs, x) = j + left
      <4>1. CASE stored = 1 /\ xs = <<d>>
        <5>1. Listing(t, <<d>>, x) = Bit(d = x)
          BY <1>3, ListingOne
        <5> QED
          BY <2>1, <2>2, <4>1, <5>1 DEF Bit
      <4>2. CASE stored = 0 /\ xs = <<d, r>>
        <5>1. Listing(t, <<d, r>>, x) = Bit(d = x) + Bit(r = x)
          BY <1>3, ListingTwo
        <5> QED
          BY <2>1, <2>2, <4>2, <5>1 DEF Bit
      <4> QED
        BY <1>4, <4>1, <4>2
    <3> QED
      BY <1>1, <3>1, IdleHas
  <2>5. Cardinality(Indexed(x)') = Cardinality(Indexed(x)) + made
    <3>1. CASE stored = 1 /\ index[s] = None /\ index' = [index EXCEPT ![s] = r]
      <4>1. index'[s] = r /\ \A q \in Services \ {s} : index'[q] = index[q]
        BY <3>1 DEF WInv, TypeOK
      <4>2. Cardinality(Indexed(x)') = Cardinality(Indexed(x)) - Bit(index[s] = x) + Bit(index'[s] = x)
        BY <4>1, IndexedMoves
      <4>3. Bit(index[s] = x) = 0 /\ Bit(index'[s] = x) = made
        BY <2>1, <2>2, <3>1, <4>1, Distinct DEF Bit
      <4> QED
        BY <4>2, <4>3, UnitsAre DEF UnitsOK
    <3>2. CASE stored = 0 /\ UNCHANGED index
      <4>1. Indexed(x)' = Indexed(x)
        BY <3>2 DEF Indexed
      <4> QED
        BY <2>2, <3>2, <4>1, NumberedOuter
    <3> QED
      BY <1>4, <3>1, <3>2
  <2>6. Cardinality(Placed(x)') = Cardinality(Placed(x)) + 0
    <3>1. Placed(x)' = Placed(x)
      BY <1>1 DEF Placed
    <3> QED
      BY <3>1, NumberedOuter
  <2>7. Cardinality(Hosted(x)') = Cardinality(Hosted(x)) + j
    <3>1. remote \in [Remotes -> [id : Services \cup {None}, dispatcher : Dispatchers \cup {None}]]
      BY DEF WInv, TypeOK
    <3>2. \A q \in Remotes : q # r => (Live(q)' <=> Live(q)) /\ remote'[q] = remote[q]
      <4>1. \A q \in Remotes : q # r => shared'[q] = shared[q]
        BY <1>3, <1>5, Distinct
      <4> QED
        BY <1>1, <3>1, <4>1 DEF Live
    <3>3. Cardinality(Hosted(x)') = Cardinality(Hosted(x)) - Bit(r \in Hosted(x)) + Bit(r \in Hosted(x)')
      BY <3>2, HostedMoves
    <3>4. r \notin Hosted(x)
      BY <1>5 DEF Hosted
    <3>5. r \in Hosted(x)' <=> d = x
      BY <1>1, <1>2, <1>5, <3>1 DEF Hosted
    <3>6. Bit(r \in Hosted(x)) = 0 /\ Bit(r \in Hosted(x)') = j
      BY <2>1, <3>4, <3>5 DEF Bit
    <3> QED
      BY <3>3, <3>6, UnitsAre DEF UnitsOK
  <2>8. Outer(x)' = Outer(x) + (made + 0 + j)
    <3>1. made \in Int /\ 0 \in Int /\ j \in Int
      OBVIOUS
    <3> QED
      BY <2>5, <2>6, <2>7, <3>1, OuterMoves
  <2>9. PICK n \in Int, a \in Int, b \in Int :
           n = j + j + k /\ a = made + 0 + j /\ b = j + left /\ n = a + b
    <3>1. j + j + k = (made + 0 + j) + (j + left)
      BY <2>2
    <3>2. j + j + k \in Int /\ made + 0 + j \in Int /\ j + left \in Int
      OBVIOUS
    <3> QED
      BY <3>1, <3>2, Zenon
  <2>10. /\ Refs(x)' = Refs(x) + n /\ Outer(x)' = Outer(x) + a
         /\ Mine(t, "drop", hand[t], xs, x) = Mine(t, pc[t], hand[t], drop[t], x) + b
    BY <2>3, <2>4, <2>8, <2>9, Zenon
  <2> QED
    BY <1>1, <2>9, <2>10, BalancedWhen
<1> QED
  BY <1>1, <1>4, <1>6, <1>7, BalancedMoves

-----------------------------------------------------------------------------
(* The count of an object is the number of its users. *)

LEMMA CountsInit == Init => CInv
<1> SUFFICES ASSUME Init PROVE CInv
  OBVIOUS
<1>1. Began
  <2>1. \A d \in Dispatchers : pc[d] = "off"
    BY Distinct DEF Init
  <2> QED
    BY <2>1 DEF Began
<1>2. ASSUME NEW x \in Objects PROVE Units(x) = 0 /\ ~Live(x)
  <2>0. \A y \in Objects : ~Live(y)
    BY DEF Init, Live
  <2>1. Indexed(x) = {} /\ Placed(x) = {} /\ Hosted(x) = {}
    BY <2>0, Distinct DEF Init, Indexed, Placed, Hosted
  <2>2. Running(x) = {} /\ Using(x) = {} /\ Answering(x) = {}
    BY Distinct DEF Init, Running, Using, Answering, Nothing
  <2>3. \A t \in Threads : drop[t] = <<>>
    BY DEF Init
  <2>4. Dropping(x) = {}
    BY <2>3 DEF Dropping
  <2>5. Cardinality({}) = 0
    BY FS_EmptySet
  <2> QED
    BY <2>0, <2>1, <2>2, <2>4, <2>5 DEF Units
<1> QED
  BY <1>1, <1>2 DEF CInv, CountsUsers

LEMMA CallerStepCounts ==
  ASSUME IInv, ~Overlap, CInv, NEW t \in Callers, CallerStep(t)
  PROVE  CInv'
<1>1. t \in Threads /\ WInv
  BY Distinct DEF IInv
<1>2. CASE \E i \in Slots : RegDispatcher(t, i) \/ ShutdownDispatcher(t, i)
  BY <1>1, <1>2, RegDispatcherCounts, ShutdownDispatcherCounts
<1>3. CASE ShutdownEnd(t) \/ Return(t)
  BY <1>1, <1>3, CallEnds
<1>4. CASE RefTarget(t)
  BY <1>1, <1>4, RefTargetCounts
<1>5. CASE SendSync(t) \/ SendAsync(t) \/ Push(t)
  BY <1>1, <1>5, CallerCounts
<1>6. CASE Disref(t)
  BY <1>1, <1>6, DisrefCounts
<1> QED
  BY <1>2, <1>3, <1>4, <1>5, <1>6 DEF CallerStep

LEMMA DispatcherStepCounts ==
  ASSUME IInv, ~Overlap, CInv, NEW d \in Dispatchers, DispatcherStep(d)
  PROVE  CInv'
<1>1. d \in Threads /\ WInv /\ OInv
  BY Distinct DEF IInv
<1>2. CASE BeginThread(d) \/ Drain(d) \/ Disref(d)
  BY <1>1, <1>2, BeginThreadCounts, DrainCounts, DisrefCounts
<1>3. CASE StopRunning(d) \/ PopLevel(d)
  BY <1>1, <1>3, LoopCounts
<1>4. CASE HandleResponse(d)
  <2>1. hand[d].m \in Messages
    BY <1>1, <1>4, WorkingHand DEF HandleResponse, WithMessage
  <2>2. message[hand[d].m].state = "live"
    BY <1>1, <2>1, HeldIsLive
  <2> QED
    BY <1>1, <1>4, <2>2, HandlerCounts
<1>5. CASE RefHandler(d) \/ RefSender(d)
  BY <1>1, <1>5, RefHandlerCounts, RefSenderCounts
<1>6. CASE ExecRequest(d) \/ AppendReply(d) \/ PushReply(d)
  BY <1>1, <1>6, HandlerCounts
<1>7. CASE HandlingDone(d)
  BY <1>1, <1>7, HandlingDoneCounts
<1> QED
  BY <1>2, <1>3, <1>4, <1>5, <1>6, <1>7 DEF DispatcherStep

LEMMA CountsStep ==
  ASSUME ~Overlap
  PROVE  IInv /\ CInv /\ [Next]_vars => CInv'
<1> SUFFICES ASSUME IInv, CInv, [Next]_vars PROVE CInv'
  OBVIOUS
<1>0. WInv
  BY DEF IInv
<1>1. CASE \E t \in Admins : Administer(t)
  <2>1. PICK t \in Callers : Administer(t)
    BY <1>1, Distinct
  <2>2. CASE Start(t) \/ Shutdown(t)
    BY <1>0, <2>2, StartCounts, ShutdownCounts
  <2>3. CASE \E d \in Dispatchers : AddDispatcher(t, d)
    BY <1>0, <2>3, AddDispatcherCounts
  <2>4. CASE \E s \in Services, i \in Slots, r \in Remotes : InitService(t, s, i, r)
    BY <1>0, <2>4, InitServiceCounts
  <2>5. CASE \E s \in Services : DestroyService(t, s)
    BY <1>0, <2>5, DestroyServiceCounts
  <2> QED
    BY <2>1, <2>2, <2>3, <2>4, <2>5 DEF Administer
<1>2. CASE \E t \in Callers \ Admins : Request(t)
  BY <1>0, <1>2, SendCounts DEF Request
<1>3. CASE \E t \in Callers : CallerStep(t)
  BY <1>3, CallerStepCounts
<1>4. CASE \E d \in Dispatchers : DispatcherStep(d)
  BY <1>4, DispatcherStepCounts
<1>5. CASE UNCHANGED vars
  <2>1. /\ \A x : Indexed(x)' = Indexed(x) /\ Placed(x)' = Placed(x) /\ Hosted(x)' = Hosted(x)
        /\ \A x : Running(x)' = Running(x) /\ Using(x)' = Using(x) /\ Answering(x)' = Answering(x)
        /\ \A x : Dropping(x)' = Dropping(x) /\ (Live(x)' <=> Live(x))
    BY <1>5 DEF vars, Indexed, Placed, Hosted, Live, Running, Using, Answering, Dropping
  <2>2. \A x : Units(x)' = Units(x)
    BY <2>1 DEF Units
  <2>3. CountsUsers'
    BY <1>5, <2>1, <2>2 DEF CInv, CountsUsers, vars
  <2>4. Began'
    BY <1>5 DEF CInv, Began, vars
  <2> QED
    BY <2>3, <2>4 DEF CInv
<1> QED
  BY <1>1, <1>2, <1>3, <1>4, <1>5 DEF Next

(* While threads are inside Disreference of an object in turn, the count of  *)
(* every service and every dispatcher is the number of its users, whatever   *)
(* registrations, shutdowns and messages in flight overlap: it is destroyed  *)
(* when the last one lets go, and nobody is left with one that was.          *)
THEOREM UsersCounted ==
  ASSUME ~Overlap
  PROVE  Spec => []CountsUsers
<1>1. CInv => CountsUsers
  BY DEF CInv
<1>2. IInv /\ CInv /\ [Next]_vars => CInv'
  BY CountsStep
<1> QED
  BY <1>1, <1>2, RouterInit, RouterStep, CountsInit, PTL DEF Spec
=============================================================================
