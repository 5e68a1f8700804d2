------------------------ MODULE EventListener_proof ------------------------
(***************************************************************************)
(* Proofs about the device file of a service, for any clients, any size of *)
(* the queues and any number of events, and about listening for its events *)
(* from user space, for any application threads and listeners and any      *)
(* number of listener threads.                                             *)
(***************************************************************************)
EXTENDS EventListener, SequenceTheorems, TLAPS

(* The device file. *)

\* No client is twice on the list of clients or on the way of an event.
NoneTwice == IsInjective(clientList) /\ IsInjective(sending.left)

\* The event being sent is the one numbered last.
SendsNewest == sending # NoEvent => sending.left # <<>> /\ nextEvent > 1 /\ sending.event = nextEvent - 1

\* The newest event client c may have been given.
Newest(c) ==
    IF sending # NoEvent /\ c \in Range(sending.left) THEN nextEvent - 2 ELSE nextEvent - 1

(* The queue of a client with record r that has read event l, when no event *)
(* after b has reached it: its size is at least its length and at most the  *)
(* limit, and its events ascend from l to b.                                *)
QueueOK(r, l, b) ==
    /\ Len(r.eventQueue) <= r.eventQueueSize /\ r.eventQueueSize <= QueueMax
    /\ l <= b
    /\ \A i \in DOMAIN r.eventQueue : l < r.eventQueue[i] /\ r.eventQueue[i] <= b
    /\ \A i, j \in DOMAIN r.eventQueue : i < j => r.eventQueue[i] < r.eventQueue[j]

QueuesOK == \A c \in Clients : QueueOK(client[c], lastRead[c], Newest(c))

IInv == TypeOK /\ NoneTwice /\ SendsNewest /\ QueuesOK /\ NothingQueuedUnlessListening

-----------------------------------------------------------------------------
(* Sequences. *)

\* An element is taken out of a sequence: the others move up.
LEMMA RemoveAtProperties ==
  ASSUME NEW S, NEW s \in Seq(S), NEW i \in DOMAIN s
  PROVE  /\ RemoveAt(s, i) \in Seq(S)
         /\ Len(RemoveAt(s, i)) = Len(s) - 1
         /\ \A j \in 1..(Len(s) - 1) : RemoveAt(s, i)[j] = IF j < i THEN s[j] ELSE s[j + 1]
<1> DEFINE a == SubSeq(s, 1, i - 1)
           b == SubSeq(s, i + 1, Len(s))
<1>1. i \in 1..Len(s) /\ Len(s) \in Nat
  BY LenProperties
<1>2. a \in Seq(S) /\ Len(a) = i - 1 /\ \A j \in 1..(i - 1) : a[j] = s[j]
  BY <1>1, SubSeqProperties
<1>3. b \in Seq(S) /\ Len(b) = Len(s) - i /\ \A j \in 1..(Len(s) - i) : b[j] = s[i + j]
  BY <1>1, SubSeqProperties
<1>4. RemoveAt(s, i) = a \o b
  BY DEF RemoveAt
<1> HIDE DEF a, b
<1> QED
  BY <1>1, <1>2, <1>3, <1>4, ConcatProperties

\* Without one element, the others stay and none is twice.
LEMMA RemoveAtKeeps ==
  ASSUME NEW S, NEW s \in Seq(S), IsInjective(s), NEW i \in DOMAIN s
  PROVE  /\ IsInjective(RemoveAt(s, i))
         /\ Range(s) \ {s[i]} \subseteq Range(RemoveAt(s, i))
<1> DEFINE t == RemoveAt(s, i)
<1>1. /\ DOMAIN s = 1..Len(s) /\ Len(s) \in Nat
      /\ DOMAIN t = 1..(Len(s) - 1)
      /\ \A j \in 1..(Len(s) - 1) : t[j] = IF j < i THEN s[j] ELSE s[j + 1]
  <2>1. DOMAIN s = 1..Len(s) /\ Len(s) \in Nat
    BY LenProperties
  <2>2. /\ t \in Seq(S) /\ Len(t) = Len(s) - 1
        /\ \A j \in 1..(Len(s) - 1) : t[j] = IF j < i THEN s[j] ELSE s[j + 1]
    BY RemoveAtProperties
  <2> HIDE DEF t
  <2>3. DOMAIN t = 1..Len(t)
    BY <2>2, LenProperties
  <2> QED
    BY <2>1, <2>2, <2>3
<1> HIDE DEF t
<1>2. IsInjective(t)
  <2> DEFINE from(j) == IF j < i THEN j ELSE j + 1
  <2>1. ASSUME NEW j \in DOMAIN t PROVE from(j) \in DOMAIN s /\ t[j] = s[from(j)]
    BY <1>1
  <2>2. ASSUME NEW j \in DOMAIN t, NEW k \in DOMAIN t, from(j) = from(k) PROVE j = k
    BY <1>1, <2>2
  <2>3. \A j, k \in DOMAIN s : s[j] = s[k] => j = k
    BY DEF IsInjective
  <2> HIDE DEF from
  <2>4. ASSUME NEW j \in DOMAIN t, NEW k \in DOMAIN t, t[j] = t[k] PROVE j = k
    BY <2>1, <2>2, <2>3, <2>4, Zenon
  <2> QED
    BY <2>4 DEF IsInjective
<1>3. ASSUME NEW j \in DOMAIN s, s[j] # s[i] PROVE s[j] \in Range(t)
  <2>1. j < i => j \in DOMAIN t /\ t[j] = s[j]
    BY <1>1
  <2>2. j > i => j - 1 \in DOMAIN t /\ t[j - 1] = s[j]
    BY <1>1
  <2> QED
    BY <1>1, <1>3, <2>1, <2>2 DEF Range
<1> QED
  BY <1>2, <1>3 DEF t, Range

\* A client is at one place in a sequence without repetitions.
LEMMA TailKeeps ==
  ASSUME NEW S, NEW s \in Seq(S), s # <<>>, IsInjective(s)
  PROVE  /\ Head(s) \in S /\ Tail(s) \in Seq(S) /\ IsInjective(Tail(s))
         /\ Range(Tail(s)) = Range(s) \ {Head(s)}
         /\ Len(s) = 1 => Range(s) = {Head(s)}
         /\ Len(s) # 1 => Tail(s) # <<>>
         /\ Head(s) \in Range(s)
<1>1. /\ Len(s) \in Nat /\ Len(s) > 0 /\ DOMAIN s = 1..Len(s) /\ Head(s) = s[1] /\ Head(s) \in S
      /\ Tail(s) \in Seq(S) /\ DOMAIN Tail(s) = 1..(Len(s) - 1)
      /\ \A i \in 1..(Len(s) - 1) : Tail(s)[i] = s[i + 1]
  BY HeadTailProperties, LenProperties
<1> DEFINE t == Tail(s)
<1> HIDE DEF t
<1>2. IsInjective(t)
  BY <1>1 DEF t, IsInjective
<1>3. Range(t) = Range(s) \ {Head(s)}
  <2>1. ASSUME NEW x \in Range(t) PROVE x \in Range(s) \ {Head(s)}
    BY <1>1, <2>1 DEF t, Range, IsInjective
  <2>2. ASSUME NEW x \in Range(s) \ {Head(s)} PROVE x \in Range(t)
    <3>0. PICK j \in DOMAIN s : x = s[j]
      BY <2>2 DEF Range
    <3>1. j \in 2..Len(s) /\ x = s[j]
      BY <1>1, <2>2, <3>0
    <3>2. t[j - 1] = x /\ j - 1 \in DOMAIN t
      BY <1>1, <3>1 DEF t
    <3> QED
      BY <3>2 DEF Range
  <2> QED
    BY <2>1, <2>2
<1>4. (Len(s) = 1 => Range(s) = {Head(s)}) /\ Head(s) \in Range(s)
  BY <1>1 DEF Range
<1>5. Len(s) # 1 => t # <<>>
  <2>1. t \in Seq(S) /\ Len(t) = Len(s) - 1
    BY HeadTailProperties DEF t
  <2>2. Len(<<>>) = 0
    BY EmptySeq
  <2> QED
    BY <1>1, <2>1, <2>2
<1> QED
  BY <1>1, <1>2, <1>3, <1>4, <1>5 DEF t

-----------------------------------------------------------------------------
(* The queue of one client. *)

\* Taking the oldest event out of a queue, to read it or to drop it.
LEMMA TakeOldest ==
  ASSUME NEW r \in ClientRecord, NEW l \in Int, NEW b \in Int, QueueOK(r, l, b), r.eventQueue # <<>>,
         NEW t \in ClientRecord, t.eventQueue = Tail(r.eventQueue),
         t.eventQueueSize = r.eventQueueSize - 1
  PROVE  /\ QueueOK(t, l, b) /\ QueueOK(t, Head(r.eventQueue), b)
         /\ Head(r.eventQueue) \in Events
<1> DEFINE q == r.eventQueue
<1>1. q \in Seq(Events) /\ r.eventQueueSize \in Int
  BY DEF ClientRecord
<1>2. /\ Len(q) \in Nat /\ Len(q) > 0 /\ DOMAIN q = 1..Len(q) /\ Head(q) = q[1] /\ Head(q) \in Events
      /\ Len(Tail(q)) = Len(q) - 1 /\ DOMAIN Tail(q) = 1..(Len(q) - 1)
      /\ \A i \in 1..(Len(q) - 1) : Tail(q)[i] = q[i + 1]
  BY <1>1, HeadTailProperties, LenProperties
<1>3. /\ \A i \in DOMAIN q : l < q[i] /\ q[i] <= b
      /\ \A i, j \in DOMAIN q : i < j => q[i] < q[j]
      /\ \A i \in DOMAIN q : q[i] \in Int
  BY <1>1, <1>2, BoundsAssumption DEF QueueOK, Events
<1> DEFINE p == t.eventQueue
<1>4. /\ Len(p) <= t.eventQueueSize /\ t.eventQueueSize <= QueueMax
      /\ DOMAIN p = 1..(Len(q) - 1) /\ \A i \in 1..(Len(q) - 1) : p[i] = q[i + 1]
  BY <1>1, <1>2, QueueMaxAssumption DEF QueueOK
<1> HIDE DEF p, q
<1>5. /\ \A i \in DOMAIN p : i \in Int /\ p[i] = q[i + 1] /\ i + 1 \in DOMAIN q /\ 1 < i + 1
      /\ 1 \in DOMAIN q
  BY <1>2, <1>4
<1>6. /\ \A i, j \in DOMAIN p : i < j => p[i] < p[j]
      /\ \A i \in DOMAIN p : l < p[i] /\ Head(q) < p[i] /\ p[i] <= b
  <2>1. ASSUME NEW i \in DOMAIN p, NEW j \in DOMAIN p, i < j PROVE p[i] < p[j]
    <3>1. i + 1 < j + 1
      BY <1>5, <2>1
    <3> QED
      BY <1>3, <1>5, <3>1
  <2>2. ASSUME NEW i \in DOMAIN p PROVE l < p[i] /\ Head(q) < p[i] /\ p[i] <= b
    BY <1>2, <1>3, <1>5
  <2> QED
    BY <2>1, <2>2
<1>7. l <= b /\ Head(q) <= b
  BY <1>2, <1>3 DEF QueueOK
<1> QED
  BY <1>2, <1>4, <1>6, <1>7 DEF QueueOK, p, q

\* Putting a newer event behind the others.
LEMMA PutNewest ==
  ASSUME NEW r \in ClientRecord, NEW l \in Int, NEW b \in Int, QueueOK(r, l, b),
         r.eventQueueSize < QueueMax, NEW e \in Events, e > b,
         NEW t \in ClientRecord, t.eventQueue = Append(r.eventQueue, e),
         t.eventQueueSize = r.eventQueueSize + 1
  PROVE  QueueOK(t, l, e)
<1> DEFINE q == r.eventQueue
<1>1. q \in Seq(Events) /\ r.eventQueueSize \in Int
  BY DEF ClientRecord
<1>2. /\ Len(q) \in Nat /\ DOMAIN q = 1..Len(q)
      /\ Len(Append(q, e)) = Len(q) + 1 /\ DOMAIN Append(q, e) = 1..(Len(q) + 1)
      /\ \A i \in 1..Len(q) : Append(q, e)[i] = q[i]
      /\ Append(q, e)[Len(q) + 1] = e
  BY <1>1, AppendProperties, LenProperties
<1>3. /\ \A i \in DOMAIN q : l < q[i] /\ q[i] <= b
      /\ \A i, j \in DOMAIN q : i < j => q[i] < q[j]
      /\ \A i \in DOMAIN q : q[i] \in Int
      /\ e \in Int
  BY <1>1, <1>2, BoundsAssumption DEF QueueOK, Events
<1> DEFINE p == t.eventQueue
<1>4. /\ DOMAIN p = 1..(Len(q) + 1) /\ Len(p) = Len(q) + 1 /\ p[Len(q) + 1] = e
      /\ \A i \in DOMAIN q : p[i] = q[i]
  BY <1>2
<1>5. Len(p) <= t.eventQueueSize /\ t.eventQueueSize <= QueueMax /\ l <= b
  BY <1>1, <1>2, <1>4, QueueMaxAssumption DEF QueueOK
<1> HIDE DEF p, q
<1>6. \A i \in DOMAIN p : i \in DOMAIN q \/ i = Len(q) + 1
  BY <1>2, <1>4
<1>7. \A i \in DOMAIN p : l < p[i] /\ p[i] <= e
  BY <1>3, <1>4, <1>5, <1>6
<1>8. ASSUME NEW i \in DOMAIN p, NEW j \in DOMAIN p, i < j PROVE p[i] < p[j]
  <2>1. i \in DOMAIN q
    BY <1>2, <1>4, <1>8
  <2>2. CASE j \in DOMAIN q
    BY <1>3, <1>4, <1>8, <2>1, <2>2
  <2>3. CASE j = Len(q) + 1
    BY <1>3, <1>4, <2>1, <2>3
  <2> QED
    BY <1>6, <2>2, <2>3
<1> QED
  BY <1>3, <1>5, <1>7, <1>8 DEF QueueOK, p

\* The record of a client with another count of wakeups.
LEMMA WakeupFields ==
  ASSUME NEW r \in ClientRecord, NEW w \in Nat, NEW t, t = [r EXCEPT !.wakeup = w]
  PROVE  /\ t \in ClientRecord /\ t.status = r.status
         /\ t.eventQueue = r.eventQueue /\ t.eventQueueSize = r.eventQueueSize
BY DEF ClientRecord

\* A queue that is left alone or emptied stays as good, whatever its size is.
LEMMA OtherFields ==
  ASSUME NEW r \in ClientRecord, NEW l \in Int, NEW b \in Int, QueueOK(r, l, b),
         NEW t \in ClientRecord, t.eventQueue \in {r.eventQueue, <<>>},
         t.eventQueueSize = r.eventQueueSize
  PROVE  QueueOK(t, l, b)
<1>1. Len(r.eventQueue) \in Nat /\ r.eventQueueSize \in Int
  BY LenProperties DEF ClientRecord
<1>2. CASE t.eventQueue = r.eventQueue
  BY <1>2 DEF QueueOK
<1>3. CASE t.eventQueue = <<>>
  BY <1>1, <1>3, EmptySeq DEF QueueOK
<1> QED
  BY <1>2, <1>3

\* A new client has an empty queue.
LEMMA NewClientOK ==
  /\ NewClient \in ClientRecord /\ NewClient.status # "LISTENING" /\ NewClient.eventQueue = <<>>
  /\ \A l, b \in Nat : l <= b => QueueOK(NewClient, l, b)
<1>1. Len(<<>>) = 0 /\ DOMAIN <<>> = {} /\ <<>> \in Seq(Events)
  BY EmptySeq
<1> QED
  BY <1>1, QueueMaxAssumption DEF NewClient, ClientRecord, Statuses, QueueOK

\* A queue that is in order up to b is so up to any later event.
LEMMA Loosen ==
  ASSUME NEW r \in ClientRecord, NEW l \in Int, NEW a \in Int, NEW b \in Int, QueueOK(r, l, a), a <= b
  PROVE  QueueOK(r, l, b)
<1>0. r.eventQueue \in Seq(Events)
  BY DEF ClientRecord
<1>1. \A i \in DOMAIN r.eventQueue : r.eventQueue[i] \in Int
  BY <1>0, LenProperties, ElementOfSeq, BoundsAssumption DEF Events
<1> QED
  BY <1>1 DEF QueueOK

-----------------------------------------------------------------------------
(* The steps. *)

\* Events are numbered.
LEMMA Numbers ==
  ASSUME TypeOK
  PROVE  /\ nextEvent \in Int /\ nextEvent >= 1 /\ nextEvent - 1 <= MaxEvents
         /\ \A c \in Clients : Newest(c) \in Int /\ lastRead[c] \in Int /\ client[c] \in ClientRecord
BY BoundsAssumption DEF TypeOK, Newest

(* A step that writes one client's record and what it has read, and keeps   *)
(* its queue in order, keeps the invariant.                                 *)
LEMMA ClientChanges ==
  ASSUME IInv, NEW c \in Clients, NEW r \in ClientRecord, client' = [client EXCEPT ![c] = r],
         NEW l \in 0..MaxEvents, lastRead' = [lastRead EXCEPT ![c] = l],
         UNCHANGED <<clientList, sending, nextEvent, crashed>>,
         closing' \in {closing, closing \cup {c}}, closing' \subseteq Range(clientList),
         QueueOK(r, l, Newest(c)),
         r.status # "LISTENING" /\ c \notin closing' => r.eventQueue = <<>>
  PROVE  IInv'
<1> USE DEF IInv
<1>1. TypeOK'
  BY DEF TypeOK
<1>2. NoneTwice' /\ SendsNewest'
  BY DEF NoneTwice, SendsNewest
<1>3. QueuesOK'
  <2> SUFFICES ASSUME NEW d \in Clients PROVE QueueOK(client'[d], lastRead'[d], Newest(d)')
    BY DEF QueuesOK
  <2>1. Newest(d)' = Newest(d)
    BY DEF Newest
  <2>2. client'[d] = IF d = c THEN r ELSE client[d]
    BY DEF TypeOK
  <2>3. lastRead'[d] = IF d = c THEN l ELSE lastRead[d]
    BY DEF TypeOK
  <2> QED
    BY <2>1, <2>2, <2>3 DEF QueuesOK
<1>4. NothingQueuedUnlessListening'
  BY DEF NothingQueuedUnlessListening, TypeOK
<1> QED
  BY <1>1, <1>2, <1>3, <1>4

\* The operations of a client other than opening and closing.
LEMMA ClientStepKeeps ==
  ASSUME IInv, NEW c \in Clients,
         \/ CloseBegin(c) \/ StartListening(c) \/ Wakeup(c) \/ Poll(c)
         \/ \E status \in {"STOPPED", "EXITED"} : StopListening(c, status)
         \/ \E fits \in BOOLEAN : ReadDevEvent(c, fits)
  PROVE  IInv'
<1> USE DEF IInv
<1> DEFINE r == client[c]
           l == lastRead[c]
<1>1. /\ r \in ClientRecord /\ l \in 0..MaxEvents /\ l \in Int /\ Newest(c) \in Int
      /\ QueueOK(r, l, Newest(c)) /\ lastRead = [lastRead EXCEPT ![c] = l]
      /\ client = [client EXCEPT ![c] = r]
      /\ closing \subseteq Range(clientList)
  BY Numbers DEF QueuesOK, TypeOK
<1>2. CASE CloseBegin(c)
  <2> DEFINE t == [r EXCEPT !.status = "STOPPED"]
  <2>1. t \in ClientRecord /\ t.eventQueue = r.eventQueue /\ t.eventQueueSize = r.eventQueueSize
    BY <1>1 DEF ClientRecord, Statuses
  <2>2. QueueOK(t, l, Newest(c))
    BY <1>1, <2>1, OtherFields
  <2>3. client' = [client EXCEPT ![c] = t] /\ closing' = closing \cup {c} /\ c \in Range(clientList)
        /\ UNCHANGED <<clientList, sending, nextEvent, lastRead, crashed>>
    BY <1>2 DEF CloseBegin, Set, InUse, IsOpen
  <2> QED
    BY <1>1, <2>1, <2>2, <2>3, ClientChanges
<1>3. CASE StartListening(c)
  <2> DEFINE t == [r EXCEPT !.status = "LISTENING"]
  <2>1. /\ t \in ClientRecord /\ t.eventQueue = r.eventQueue /\ t.eventQueueSize = r.eventQueueSize
        /\ t.status = "LISTENING"
    BY <1>1 DEF ClientRecord, Statuses
  <2>2. QueueOK(t, l, Newest(c))
    BY <1>1, <2>1, OtherFields
  <2>3. client' = [client EXCEPT ![c] = t]
        /\ UNCHANGED <<clientList, closing, sending, nextEvent, lastRead, crashed>>
    BY <1>3 DEF StartListening, Set
  <2> QED
    BY <1>1, <2>1, <2>2, <2>3, ClientChanges
<1>4. ASSUME NEW status \in {"STOPPED", "EXITED"}, StopListening(c, status) PROVE IInv'
  <2> DEFINE t == [r EXCEPT !.status = status, !.eventQueue = <<>>]
  <2>1. t \in ClientRecord /\ t.eventQueue = <<>> /\ t.eventQueueSize = r.eventQueueSize
    BY <1>1, EmptySeq DEF ClientRecord, Statuses
  <2>2. QueueOK(t, l, Newest(c))
    BY <1>1, <2>1, OtherFields
  <2>3. client' = [client EXCEPT ![c] = t]
        /\ UNCHANGED <<clientList, closing, sending, nextEvent, lastRead, crashed>>
    BY <1>4 DEF StopListening, CleanEventQueue, Set
  <2> QED
    BY <1>1, <2>1, <2>2, <2>3, ClientChanges
<1>5. CASE Wakeup(c) \/ Poll(c)
  <2>1. /\ client' = [client EXCEPT ![c] = client'[c]]
        /\ client'[c] \in ClientRecord /\ client'[c].status = r.status
        /\ client'[c].eventQueue = r.eventQueue /\ client'[c].eventQueueSize = r.eventQueueSize
        /\ UNCHANGED <<clientList, closing, sending, nextEvent, lastRead, crashed>>
    <3>1. /\ UNCHANGED <<clientList, closing, sending, nextEvent, lastRead, crashed>>
          /\ \/ client' = client
             \/ \E w \in Nat : client' = [client EXCEPT ![c] = [r EXCEPT !.wakeup = w]]
      <4>1. r.wakeup \in Nat /\ r.wakeup + 1 \in Nat /\ (r.wakeup > 0 => r.wakeup - 1 \in Nat)
        BY <1>1 DEF ClientRecord
      <4>2. CASE Wakeup(c)
        BY <4>1, <4>2 DEF Wakeup, Set
      <4>3. CASE Poll(c)
        BY <1>1, <4>1, <4>3 DEF Poll, PollMask, Set
      <4> QED
        BY <1>5, <4>2, <4>3
    <3>2. CASE client' = client
      BY <1>1, <3>1, <3>2
    <3>3. ASSUME NEW w \in Nat, client' = [client EXCEPT ![c] = [r EXCEPT !.wakeup = w]]
          PROVE  /\ client' = [client EXCEPT ![c] = client'[c]]
                 /\ client'[c] \in ClientRecord /\ client'[c].status = r.status
                 /\ client'[c].eventQueue = r.eventQueue
                 /\ client'[c].eventQueueSize = r.eventQueueSize
      <4>1. client'[c] = [r EXCEPT !.wakeup = w] /\ client' = [client EXCEPT ![c] = client'[c]]
        BY <3>3 DEF TypeOK
      <4> QED
        BY <1>1, <4>1, WakeupFields
    <3> QED
      BY <1>1, <3>1, <3>2, <3>3
  <2>2. QueueOK(client'[c], l, Newest(c))
    BY <1>1, <2>1, OtherFields
  <2>3. r.status # "LISTENING" /\ c \notin closing => r.eventQueue = <<>>
    BY DEF NothingQueuedUnlessListening
  <2> QED
    BY <1>1, <2>1, <2>2, <2>3, ClientChanges
<1>6. ASSUME NEW fits \in BOOLEAN, ReadDevEvent(c, fits) PROVE IInv'
  <2> DEFINE t == [r EXCEPT !.eventQueue = Tail(@), !.eventQueueSize = @ - 1]
  <2>0. r.status # "LISTENING" /\ c \notin closing => r.eventQueue = <<>>
    BY DEF NothingQueuedUnlessListening
  <2>1. r.eventQueue # <<>> /\ UNCHANGED <<clientList, closing, sending, nextEvent, crashed>>
    BY <1>6 DEF ReadDevEvent
  <2>2. CASE UNCHANGED <<client, lastRead>>
    BY <1>1, <2>0, <2>1, <2>2, ClientChanges
  <2>3. CASE client' = [client EXCEPT ![c] = t] /\ lastRead' = [lastRead EXCEPT ![c] = Head(r.eventQueue)]
    <3>1. Tail(r.eventQueue) \in Seq(Events) /\ r.eventQueueSize - 1 \in Int
      <4>1. r.eventQueue \in Seq(Events) /\ r.eventQueueSize \in Int
        BY <1>1 DEF ClientRecord
      <4> QED
        BY <2>1, <4>1, HeadTailProperties
    <3>2. /\ t \in ClientRecord /\ t.eventQueue = Tail(r.eventQueue)
          /\ t.eventQueueSize = r.eventQueueSize - 1 /\ t.status = r.status
      <4> DEFINE q == Tail(r.eventQueue)
                 n == r.eventQueueSize - 1
      <4>1. /\ r \in ClientRecord /\ q \in Seq(Events) /\ n \in Int
            /\ t = [r EXCEPT !.eventQueue = q, !.eventQueueSize = n]
        BY <1>1, <3>1
      <4> HIDE DEF q, n, t, r
      <4>2. t \in ClientRecord /\ t.status = r.status /\ t.eventQueue = q /\ t.eventQueueSize = n
        BY <4>1 DEF ClientRecord
      <4> QED
        BY <4>2 DEF q, n
    <3>3. QueueOK(t, Head(r.eventQueue), Newest(c)) /\ Head(r.eventQueue) \in 0..MaxEvents
      <4>1. r \in ClientRecord /\ l \in Int /\ Newest(c) \in Int /\ QueueOK(r, l, Newest(c))
            /\ r.eventQueue # <<>>
        BY <1>1, <2>1
      <4> HIDE DEF t, r, l
      <4>2. QueueOK(t, Head(r.eventQueue), Newest(c)) /\ Head(r.eventQueue) \in Events
        BY <3>2, <4>1, TakeOldest
      <4> QED
        BY <4>2, BoundsAssumption DEF Events
    <3> QED
      BY <1>1, <2>0, <2>1, <2>3, <3>2, <3>3, ClientChanges
  <2> QED
    BY <1>6, <2>2, <2>3 DEF ReadDevEvent, Set
<1> QED
  BY <1>2, <1>3, <1>4, <1>5, <1>6

\* A client that comes or goes has a new record, and no event is being sent.
LEMMA OpenCloseKeeps ==
  ASSUME IInv, NEW c \in Clients, Open(c) \/ CloseEnd(c)
  PROVE  IInv'
<1> USE DEF IInv
<1>1. /\ client' = [client EXCEPT ![c] = NewClient]
      /\ lastRead' = [lastRead EXCEPT ![c] = 0] \/ lastRead' = lastRead
      /\ sending = NoEvent /\ UNCHANGED <<sending, nextEvent, crashed>>
  BY DEF Open, CloseEnd, Set, Unlocked
<1>2. /\ clientList' \in Seq(Clients) /\ IsInjective(clientList')
      /\ closing' \subseteq Range(clientList') /\ closing \ {c} \subseteq closing' /\ closing' \subseteq closing
  <2>1. CASE Open(c)
    <3>1. clientList \in Seq(Clients) /\ clientList' = Append(clientList, c) /\ c \notin Range(clientList)
          /\ closing' = closing
      BY <2>1 DEF Open, IsOpen, TypeOK
    <3>2. /\ clientList' \in Seq(Clients) /\ Len(clientList) \in Nat
          /\ DOMAIN clientList = 1..Len(clientList) /\ DOMAIN clientList' = 1..(Len(clientList) + 1)
          /\ \A i \in 1..Len(clientList) : clientList'[i] = clientList[i]
          /\ clientList'[Len(clientList) + 1] = c
      BY <3>1, AppendProperties, LenProperties
    <3>3. IsInjective(clientList')
      BY <3>1, <3>2 DEF IsInjective, NoneTwice, Range
    <3>4. Range(clientList) \subseteq Range(clientList')
      BY <3>2 DEF Range
    <3> QED
      BY <3>1, <3>2, <3>3, <3>4 DEF TypeOK
  <2>2. CASE CloseEnd(c)
    <3>1. PICK i \in DOMAIN clientList : clientList[i] = c /\ clientList' = RemoveAt(clientList, i)
      BY <2>2 DEF CloseEnd
    <3>2. clientList \in Seq(Clients) /\ IsInjective(clientList)
      BY DEF TypeOK, NoneTwice
    <3>3. clientList' \in Seq(Clients)
      BY <3>1, <3>2, RemoveAtProperties
    <3>4. IsInjective(clientList') /\ Range(clientList) \ {c} \subseteq Range(clientList')
      BY <3>1, <3>2, RemoveAtKeeps
    <3>5. closing' = closing \ {c}
      BY <2>2 DEF CloseEnd
    <3> QED
      BY <3>3, <3>4, <3>5 DEF TypeOK
  <2> QED
    BY <2>1, <2>2
<1>3. /\ nextEvent - 1 \in Nat /\ nextEvent - 1 <= MaxEvents
      /\ \A d \in Clients : Newest(d) = nextEvent - 1 /\ Newest(d)' = nextEvent - 1
  BY <1>1, BoundsAssumption DEF Newest, TypeOK
<1>4. TypeOK'
  BY <1>1, <1>2, NewClientOK, BoundsAssumption DEF TypeOK
<1>5. NoneTwice' /\ SendsNewest'
  BY <1>1, <1>2 DEF NoneTwice, SendsNewest
<1>6. QueuesOK'
  <2> SUFFICES ASSUME NEW d \in Clients PROVE QueueOK(client'[d], lastRead'[d], nextEvent - 1)
    BY <1>3 DEF QueuesOK
  <2>1. CASE d = c
    <3>1. lastRead'[d] \in {0, lastRead[d]} /\ lastRead[d] \in Nat /\ client'[d] = NewClient
      BY <1>1, <2>1, BoundsAssumption DEF TypeOK
    <3>2. lastRead'[d] \in Nat /\ lastRead'[d] <= nextEvent - 1
      BY <1>3, <3>1 DEF QueuesOK, QueueOK
    <3> QED
      BY <1>3, <3>1, <3>2, NewClientOK
  <2>2. CASE d # c
    BY <1>1, <1>3, <2>2 DEF QueuesOK, TypeOK
  <2> QED
    BY <2>1, <2>2
<1>7. NothingQueuedUnlessListening'
  BY <1>1, <1>2, NewClientOK DEF NothingQueuedUnlessListening, TypeOK
<1> QED
  BY <1>4, <1>5, <1>6, <1>7

\* An event begins its way along the list or to one client.
LEMMA SendKeeps ==
  ASSUME IInv, NEW left \in Seq(Clients), IsInjective(left), Send(left)
  PROVE  IInv'
<1> USE DEF IInv
<1>1. /\ sending = NoEvent /\ sending' = [event |-> nextEvent, left |-> left]
      /\ nextEvent' = nextEvent + 1 /\ nextEvent \in 1..MaxEvents /\ left # <<>>
      /\ UNCHANGED <<clientList, client, closing, lastRead, crashed>>
  BY BoundsAssumption DEF Send, Unlocked, TypeOK
<1>2. TypeOK'
  BY <1>1, BoundsAssumption DEF TypeOK
<1>3. NoneTwice' /\ SendsNewest'
  BY <1>1, BoundsAssumption DEF NoneTwice, SendsNewest
<1>4. QueuesOK'
  <2> SUFFICES ASSUME NEW d \in Clients PROVE QueueOK(client[d], lastRead[d], Newest(d)')
    BY <1>1 DEF QueuesOK
  <2>1. Newest(d)' \in Int /\ Newest(d) \in Int /\ Newest(d) <= Newest(d)'
    BY <1>1, BoundsAssumption DEF Newest
  <2> QED
    BY <2>1, Numbers, Loosen DEF QueuesOK
<1>5. NothingQueuedUnlessListening'
  BY <1>1 DEF NothingQueuedUnlessListening
<1> QED
  BY <1>2, <1>3, <1>4, <1>5

\* The client an event is at, and the bounds before and after it has been there.
LEMMA AtClient ==
  ASSUME IInv, sending # NoEvent, NEW c, c = Head(sending.left)
  PROVE  /\ c \in Clients /\ sending.event \in Events /\ sending.event = nextEvent - 1
         /\ Newest(c) = nextEvent - 2
         /\ NextClient /\ nextEvent' = nextEvent =>
               /\ sending' \in [event : 0..MaxEvents, left : Seq(Clients)]
               /\ IsInjective(sending'.left)
               /\ sending' # NoEvent => sending'.left # <<>> /\ sending'.event = sending.event
               /\ Newest(c)' = nextEvent - 1
               /\ \A d \in Clients \ {c} : Newest(d)' = Newest(d)
<1> USE DEF IInv
<1>1. /\ sending \in [event : 0..MaxEvents, left : Seq(Clients)]
      /\ sending.left \in Seq(Clients) /\ sending.left # <<>> /\ IsInjective(sending.left)
      /\ nextEvent \in 1..(MaxEvents + 1) /\ nextEvent > 1 /\ sending.event = nextEvent - 1
  BY DEF TypeOK, NoneTwice, SendsNewest
<1>2. /\ c \in Clients /\ Tail(sending.left) \in Seq(Clients) /\ IsInjective(Tail(sending.left))
      /\ Range(Tail(sending.left)) = Range(sending.left) \ {c}
      /\ Len(sending.left) = 1 => Range(sending.left) = {c}
  BY <1>1, TailKeeps
<1>3. /\ Len(sending.left) # 1 => Tail(sending.left) # <<>>
      /\ c \in Range(sending.left)
  BY <1>1, TailKeeps
<1>4. sending.event \in Events /\ Newest(c) = nextEvent - 2
  BY <1>1, <1>3, BoundsAssumption DEF Newest, Events
<1>5. ASSUME NextClient, nextEvent' = nextEvent, Len(sending.left) = 1
      PROVE  /\ sending' \in [event : 0..MaxEvents, left : Seq(Clients)]
             /\ IsInjective(sending'.left) /\ sending' = NoEvent
             /\ Newest(c)' = nextEvent - 1
             /\ \A d \in Clients \ {c} : Newest(d)' = Newest(d)
  <2>1. sending' = NoEvent /\ DOMAIN <<>> = {} /\ <<>> \in Seq(Clients)
    BY <1>5, EmptySeq DEF NextClient
  <2> QED
    BY <1>1, <1>2, <1>5, <2>1, BoundsAssumption DEF Newest, IsInjective, NoEvent
<1>6. ASSUME NextClient, nextEvent' = nextEvent, Len(sending.left) # 1
      PROVE  /\ sending' \in [event : 0..MaxEvents, left : Seq(Clients)]
             /\ IsInjective(sending'.left) /\ sending'.left # <<>> /\ sending'.event = sending.event
             /\ Newest(c)' = nextEvent - 1
             /\ \A d \in Clients \ {c} : Newest(d)' = Newest(d)
  <2>1. /\ sending' = [sending EXCEPT !.left = Tail(sending.left)]
        /\ sending'.left = Tail(sending.left) /\ sending'.event = sending.event
        /\ sending' \in [event : 0..MaxEvents, left : Seq(Clients)]
    BY <1>1, <1>2, <1>6 DEF NextClient
  <2>2. sending' # NoEvent
    BY <1>1, <2>1 DEF NoEvent
  <2> QED
    BY <1>1, <1>2, <1>3, <1>6, <2>1, <2>2 DEF Newest
<1> QED
  BY <1>1, <1>2, <1>4, <1>5, <1>6

\* An event is done with a client, whose queue is in order with the event.
LEMMA ReachedKeeps ==
  ASSUME IInv, sending # NoEvent, NEW c, c = Head(sending.left), NextClient,
         NEW r \in ClientRecord, client' = [client EXCEPT ![c] = r],
         QueueOK(r, lastRead[c], nextEvent - 1),
         r.status # "LISTENING" /\ c \notin closing => r.eventQueue = <<>>,
         UNCHANGED <<clientList, closing, nextEvent, lastRead, crashed>>
  PROVE  IInv'
<1> USE DEF IInv
<1>1. /\ c \in Clients
      /\ sending' \in [event : 0..MaxEvents, left : Seq(Clients)]
      /\ IsInjective(sending'.left)
      /\ sending' # NoEvent => sending'.left # <<>> /\ sending'.event = nextEvent - 1
      /\ Newest(c)' = nextEvent - 1
      /\ \A d \in Clients \ {c} : Newest(d)' = Newest(d)
  BY AtClient
<1>2. TypeOK'
  BY <1>1 DEF TypeOK
<1>3. NoneTwice' /\ SendsNewest'
  BY <1>1 DEF NoneTwice, SendsNewest
<1>4. QueuesOK'
  <2> SUFFICES ASSUME NEW d \in Clients PROVE QueueOK(client'[d], lastRead[d], Newest(d)')
    BY DEF QueuesOK
  <2>1. CASE d = c
    BY <1>1, <2>1 DEF TypeOK
  <2>2. CASE d # c
    BY <1>1, <2>2 DEF TypeOK, QueuesOK
  <2> QED
    BY <2>1, <2>2
<1>5. NothingQueuedUnlessListening'
  BY <1>1 DEF NothingQueuedUnlessListening, TypeOK
<1> QED
  BY <1>2, <1>3, <1>4, <1>5

\* A full queue makes room first; the record that is left is in between.
LEMMA QueuedOK ==
  ASSUME IInv, sending # NoEvent, NEW c, c = Head(sending.left),
         ~(IsFull(c) /\ client[c].eventQueue = <<>>)
  PROVE  /\ Queued(c) \in ClientRecord /\ Queued(c).status = client[c].status
         /\ QueueOK(Queued(c), lastRead[c], nextEvent - 1)
<1> USE DEF IInv
<1> DEFINE r == client[c]
           l == lastRead[c]
           e == sending.event
           kept == IF IsFull(c) THEN Tail(r.eventQueue) ELSE r.eventQueue
           size == IF IsFull(c) THEN r.eventQueueSize - 1 ELSE r.eventQueueSize
           m == [r EXCEPT !.eventQueue = kept, !.eventQueueSize = size]
           q == Append(kept, e)
           t == Queued(c)
<1>1. /\ c \in Clients /\ e \in Events /\ e = nextEvent - 1
      /\ r \in ClientRecord /\ l \in Int /\ Newest(c) \in Int /\ Newest(c) = nextEvent - 2
      /\ QueueOK(r, l, Newest(c)) /\ nextEvent \in Int
  BY AtClient, Numbers DEF QueuesOK
<1>2. r.eventQueue \in Seq(Events) /\ r.eventQueueSize \in Int
  BY <1>1 DEF ClientRecord
<1>3. kept \in Seq(Events) /\ size \in Int /\ q \in Seq(Events) /\ size + 1 \in Int
  <2>1. r.eventQueue # <<>> => Tail(r.eventQueue) \in Seq(Events)
    BY <1>2, HeadTailProperties
  <2>2. kept \in Seq(Events) /\ size \in Int
    BY <1>2, <2>1
  <2> QED
    BY <1>1, <2>2, AppendProperties
<1>4. size < QueueMax
  BY <1>1, <1>2, QueueMaxAssumption DEF IsFull, QueueOK
<1>5. t = [r EXCEPT !.eventQueue = q, !.eventQueueSize = size + 1]
  <2> DEFINE n == IF IsFull(c) THEN r.eventQueueSize ELSE r.eventQueueSize + 1
  <2>1. n = size + 1
    BY <1>2
  <2>2. t = [r EXCEPT !.eventQueue = q, !.eventQueueSize = n]
    BY DEF Queued
  <2> HIDE DEF n, size
  <2> QED
    BY <2>1, <2>2
<1>6. /\ m \in ClientRecord /\ m.eventQueue = kept /\ m.eventQueueSize = size
      /\ t \in ClientRecord /\ t.eventQueue = q /\ t.eventQueueSize = size + 1 /\ t.status = r.status
  <2>1. /\ r \in ClientRecord /\ q \in Seq(Events) /\ kept \in Seq(Events) /\ size \in Int
        /\ size + 1 \in Int
        /\ t = [r EXCEPT !.eventQueue = q, !.eventQueueSize = size + 1]
        /\ m = [r EXCEPT !.eventQueue = kept, !.eventQueueSize = size]
    BY <1>1, <1>3, <1>5
  <2> HIDE DEF r, q, kept, size, t, m
  <2> QED
    BY <2>1 DEF ClientRecord
<1>7. QueueOK(m, l, Newest(c))
  <2>1. CASE IsFull(c)
    <3>1. /\ r \in ClientRecord /\ l \in Int /\ Newest(c) \in Int /\ QueueOK(r, l, Newest(c))
          /\ r.eventQueue # <<>>
          /\ m \in ClientRecord /\ m.eventQueue = Tail(r.eventQueue)
          /\ m.eventQueueSize = r.eventQueueSize - 1
      BY <1>1, <1>6, <2>1
    <3> HIDE DEF r, l, m
    <3> QED
      BY <3>1, TakeOldest
  <2>2. CASE ~IsFull(c)
    <3>1. /\ r \in ClientRecord /\ l \in Int /\ Newest(c) \in Int /\ QueueOK(r, l, Newest(c))
          /\ m \in ClientRecord /\ m.eventQueue = r.eventQueue
          /\ m.eventQueueSize = r.eventQueueSize
      BY <1>1, <1>6, <2>2
    <3> HIDE DEF r, l, m
    <3> QED
      BY <3>1, OtherFields
  <2> QED
    BY <2>1, <2>2
<1>8. QueueOK(t, l, e)
  <2>1. /\ m \in ClientRecord /\ l \in Int /\ Newest(c) \in Int /\ QueueOK(m, l, Newest(c))
        /\ m.eventQueueSize < QueueMax /\ e \in Events /\ e > Newest(c)
        /\ t \in ClientRecord /\ t.eventQueue = Append(m.eventQueue, e)
        /\ t.eventQueueSize = m.eventQueueSize + 1
    <3> HIDE DEF m, l, e, t, r, kept, size
    <3>1. e > Newest(c)
      BY <1>1
    <3> QED
      BY <1>1, <1>4, <1>6, <1>7, <3>1
  <2> HIDE DEF m, l, e, t
  <2> QED
    BY <2>1, PutNewest
<1> QED
  BY <1>1, <1>6, <1>8

\* An event at a client: queued or not, it goes on.
LEMMA SendToClientKeeps ==
  ASSUME IInv, SendToClient
  PROVE  IInv'
<1> USE DEF IInv
<1> DEFINE c == Head(sending.left)
<1>1. /\ sending # NoEvent /\ NextClient
      /\ UNCHANGED <<clientList, closing, nextEvent, lastRead, crashed>>
  BY DEF SendToClient
<1>2. /\ c \in Clients /\ Newest(c) = nextEvent - 2 /\ nextEvent \in Int /\ Newest(c) \in Int
      /\ client[c] \in ClientRecord /\ lastRead[c] \in Int /\ QueueOK(client[c], lastRead[c], Newest(c))
  BY <1>1, AtClient, Numbers DEF QueuesOK
<1>3. CASE client[c].status # "LISTENING"
  <2>1. client' = [client EXCEPT ![c] = client[c]]
    BY <1>2, <1>3 DEF SendToClient, TypeOK
  <2>2. QueueOK(client[c], lastRead[c], nextEvent - 1)
    BY <1>2, Loosen
  <2>3. c \notin closing => client[c].eventQueue = <<>>
    BY <1>2, <1>3 DEF NothingQueuedUnlessListening
  <2> QED
    BY <1>1, <1>2, <2>1, <2>2, <2>3, ReachedKeeps
<1>4. CASE client[c].status = "LISTENING"
  <2>1. ~(IsFull(c) /\ client[c].eventQueue = <<>>) /\ client' = [client EXCEPT ![c] = Queued(c)]
    BY <1>4 DEF SendToClient, Set
  <2>2. /\ Queued(c) \in ClientRecord /\ Queued(c).status = "LISTENING"
        /\ QueueOK(Queued(c), lastRead[c], nextEvent - 1)
    BY <1>1, <1>4, <2>1, QueuedOK
  <2> QED
    BY <1>1, <2>1, <2>2, ReachedKeeps
<1> QED
  BY <1>3, <1>4

\* Without memory nobody waits for the event any more, and one may be dropped.
LEMMA SendOutOfMemoryKeeps ==
  ASSUME IInv, SendOutOfMemory
  PROVE  IInv'
<1> USE DEF IInv
<1> DEFINE c == Head(sending.left)
           r == client[c]
           l == lastRead[c]
           t == [r EXCEPT !.eventQueue = Tail(@), !.eventQueueSize = @ - 1]
<1>1. /\ sending # NoEvent /\ sending' = NoEvent
      /\ UNCHANGED <<clientList, closing, nextEvent, lastRead, crashed>>
      /\ r.status = "LISTENING" /\ ~(IsFull(c) /\ r.eventQueue = <<>>)
      /\ client' = IF IsFull(c) THEN [client EXCEPT ![c] = t] ELSE client
  BY DEF SendOutOfMemory, Set
<1>2. /\ c \in Clients /\ nextEvent \in Int /\ l \in Int /\ Newest(c) \in Int
      /\ r \in ClientRecord /\ QueueOK(r, l, Newest(c))
  BY <1>1, AtClient, Numbers DEF QueuesOK
<1>3. ASSUME IsFull(c)
      PROVE  t \in ClientRecord /\ t.status = "LISTENING" /\ QueueOK(t, l, Newest(c))
  <2>1. r.eventQueue \in Seq(Events) /\ r.eventQueueSize \in Int
    BY <1>2 DEF ClientRecord
  <2>2. r.eventQueue # <<>>
    BY <1>1, <1>3
  <2>3. Tail(r.eventQueue) \in Seq(Events) /\ r.eventQueueSize - 1 \in Int
    BY <2>1, <2>2, HeadTailProperties
  <2>4. /\ t \in ClientRecord /\ t.eventQueue = Tail(r.eventQueue)
        /\ t.eventQueueSize = r.eventQueueSize - 1 /\ t.status = r.status
    <3> DEFINE q == Tail(r.eventQueue)
               n == r.eventQueueSize - 1
    <3>1. /\ r \in ClientRecord /\ q \in Seq(Events) /\ n \in Int
          /\ t = [r EXCEPT !.eventQueue = q, !.eventQueueSize = n]
      BY <1>2, <2>3
    <3> HIDE DEF q, n, t, r
    <3>2. t \in ClientRecord /\ t.status = r.status /\ t.eventQueue = q /\ t.eventQueueSize = n
      BY <3>1 DEF ClientRecord
    <3> QED
      BY <3>2 DEF q, n
  <2> HIDE DEF t, r, l
  <2>5. QueueOK(t, l, Newest(c))
    BY <1>2, <2>2, <2>4, TakeOldest
  <2> QED
    BY <1>1, <2>4, <2>5
<1>4. ASSUME NEW d \in Clients
      PROVE  /\ client'[d] \in ClientRecord /\ QueueOK(client'[d], lastRead[d], Newest(d))
             /\ client'[d] = client[d] \/ client'[d].status = "LISTENING"
  <2>1. CASE IsFull(c) /\ d = c
    <3>1. client'[d] = t
      BY <1>1, <2>1 DEF TypeOK
    <3> HIDE DEF t
    <3> QED
      BY <1>3, <2>1, <3>1
  <2>2. CASE ~(IsFull(c) /\ d = c)
    <3>1. client'[d] = client[d]
      BY <1>1, <2>2 DEF TypeOK
    <3> QED
      BY <3>1 DEF QueuesOK, TypeOK
  <2> QED
    BY <2>1, <2>2
<1>5. client' \in [Clients -> ClientRecord]
  <2>1. DOMAIN client' = Clients /\ client' = [d \in Clients |-> client'[d]]
    BY <1>1 DEF TypeOK
  <2> QED
    BY <1>4, <2>1
<1>6. TypeOK'
  <2>1. NoEvent \in [event : 0..MaxEvents, left : Seq(Clients)]
    BY EmptySeq, BoundsAssumption DEF NoEvent
  <2> QED
    BY <1>1, <1>5, <2>1 DEF TypeOK
<1>7. NoneTwice' /\ SendsNewest'
  <2>1. IsInjective(<<>>)
    BY EmptySeq DEF IsInjective
  <2> QED
    BY <1>1, <2>1 DEF NoneTwice, SendsNewest, NoEvent
<1>8. QueuesOK'
  <2> SUFFICES ASSUME NEW d \in Clients PROVE QueueOK(client'[d], lastRead[d], Newest(d)')
    BY <1>1 DEF QueuesOK
  <2>1. Newest(d)' = nextEvent - 1 /\ Newest(d) <= nextEvent - 1
    BY <1>1, <1>2 DEF Newest
  <2>2. nextEvent - 1 \in Int /\ lastRead[d] \in Int /\ Newest(d) \in Int
    BY Numbers
  <2> QED
    BY <1>4, <2>1, <2>2, Loosen
<1>9. NothingQueuedUnlessListening'
  BY <1>1, <1>4 DEF NothingQueuedUnlessListening
<1> QED
  BY <1>6, <1>7, <1>8, <1>9

LEMMA NextIInv == IInv /\ [Next]_vars => IInv'
<1> SUFFICES ASSUME IInv, [Next]_vars PROVE IInv'
  OBVIOUS
<1> USE DEF IInv
<1>1. ASSUME NEW c \in Clients, ClientStep(c) PROVE IInv'
  <2>1. CASE Open(c) \/ CloseEnd(c)
    BY <2>1, OpenCloseKeeps
  <2>2. CASE ~(Open(c) \/ CloseEnd(c))
    BY <1>1, <2>2, ClientStepKeeps DEF ClientStep
  <2> QED
    BY <2>1, <2>2
<1>2. CASE Send(clientList)
  BY <1>2, SendKeeps DEF TypeOK, NoneTwice
<1>3. ASSUME NEW c \in Range(clientList), Send(<<c>>) PROVE IInv'
  <2>1. c \in Clients
    BY LenProperties DEF TypeOK, Range
  <2>2. <<c>> \in Seq(Clients) /\ IsInjective(<<c>>)
    BY <2>1 DEF IsInjective
  <2> QED
    BY <1>3, <2>2, SendKeeps
<1>4. CASE DropFromEmpty
  <2>1. /\ UNCHANGED <<clientList, client, closing, sending, nextEvent, lastRead>>
        /\ crashed' \in BOOLEAN
    BY <1>4 DEF DropFromEmpty
  <2> QED
    BY <2>1 DEF TypeOK, NoneTwice, SendsNewest, QueuesOK, Newest, NothingQueuedUnlessListening
<1>5. CASE UNCHANGED vars
  BY <1>5 DEF vars, TypeOK, NoneTwice, SendsNewest, QueuesOK, Newest, NothingQueuedUnlessListening
<1>6. CASE SendToClient \/ SendOutOfMemory
  BY <1>6, SendToClientKeeps, SendOutOfMemoryKeeps
<1>7. CASE DriverStep
  <2> HIDE DEF IInv
  <2>1. (\E c \in Range(clientList) : Send(<<c>>)) => IInv'
    BY <1>3
  <2> QED
    BY <1>2, <2>1, <1>4, <1>6, <1>7, Zenon DEF DriverStep
<1> HIDE DEF IInv
<1> QED
  BY <1>1, <1>5, <1>7, Zenon DEF Next

LEMMA InitIInv == Init => IInv
<1> SUFFICES ASSUME Init PROVE IInv
  OBVIOUS
<1>0. clientList = <<>> /\ <<>> \in Seq(Clients) /\ IsInjective(<<>>) /\ sending = NoEvent
  BY EmptySeq DEF Init, IsInjective
<1>1. TypeOK
  <2>1. clientList \in Seq(Clients) /\ sending \in [event : 0..MaxEvents, left : Seq(Clients)]
    BY <1>0, BoundsAssumption DEF NoEvent
  <2>2. client \in [Clients -> ClientRecord]
    BY NewClientOK DEF Init
  <2>3. nextEvent \in 1..(MaxEvents + 1) /\ 0 \in 0..MaxEvents
    BY BoundsAssumption DEF Init
  <2>4. lastRead \in [Clients -> 0..MaxEvents]
    BY <2>3 DEF Init
  <2>5. closing \subseteq Range(clientList) /\ crashed \in BOOLEAN
    BY Zenon DEF Init
  <2> QED
    BY <2>1, <2>2, <2>3, <2>4, <2>5 DEF TypeOK
<1>2. NoneTwice /\ SendsNewest
  BY <1>0 DEF NoneTwice, SendsNewest, NoEvent
<1>3. QueuesOK
  <2> SUFFICES ASSUME NEW c \in Clients PROVE QueueOK(NewClient, 0, Newest(c))
    BY DEF QueuesOK, Init
  <2>1. Newest(c) = 0
    BY DEF Newest, Init
  <2> QED
    BY <2>1, NewClientOK
<1>4. NothingQueuedUnlessListening
  BY NewClientOK DEF Init, NothingQueuedUnlessListening
<1> QED
  BY <1>1, <1>2, <1>3, <1>4 DEF IInv

\* The inductive invariant holds in every state.
LEMMA Inductive == Spec => []IInv
BY InitIInv, NextIInv, PTL DEF Spec

-----------------------------------------------------------------------------
(* The results. *)

(* The type invariant: what the operations and the sender write has its type. *)
THEOREM TypeCorrect == Spec => []TypeOK
<1>1. IInv => TypeOK
  BY DEF IInv
<1> QED
  BY <1>1, Inductive, PTL

(* No client's queue outgrows EVENT_QUEUE_MAX, although the size compared    *)
(* with the limit is not corrected when HdfVnodeCleanEventQueue empties the  *)
(* queue: it is never less than the length.                                  *)
THEOREM BoundedQueues == Spec => []QueueBounded
<1>1. IInv => QueueBounded
  <2> SUFFICES ASSUME IInv, NEW c \in Clients PROVE Len(client[c].eventQueue) <= QueueMax
    BY DEF QueueBounded
  <2>1. client[c] \in ClientRecord /\ QueueOK(client[c], lastRead[c], Newest(c))
    BY DEF IInv, TypeOK, QueuesOK
  <2>2. client[c].eventQueue \in Seq(Events) /\ client[c].eventQueueSize \in Int
    BY <2>1 DEF ClientRecord
  <2>3. Len(client[c].eventQueue) \in Nat
    BY <2>2, LenProperties
  <2> QED
    BY <2>1, <2>2, <2>3, QueueMaxAssumption DEF QueueOK
<1> QED
  BY <1>1, Inductive, PTL

(* A client reads the events it gets in the order in which the driver sent   *)
(* them, to it alone or to all, whatever is dropped on the way               *)
(* (HdfVNodeAdapterSendDevEvent, VNodeAdapterSendDevEventToClient).          *)
THEOREM OrderedEvents == Spec => []EventsInOrder
<1>1. IInv => EventsInOrder
  <2> SUFFICES ASSUME IInv, NEW c \in Clients,
                      NEW i \in DOMAIN (<<lastRead[c]>> \o client[c].eventQueue),
                      NEW j \in DOMAIN (<<lastRead[c]>> \o client[c].eventQueue), i < j
               PROVE  (<<lastRead[c]>> \o client[c].eventQueue)[i] <
                      (<<lastRead[c]>> \o client[c].eventQueue)[j]
    BY DEF EventsInOrder
  <2> DEFINE q == client[c].eventQueue
             l == lastRead[c]
             p == <<l>> \o q
  <2>1. client[c] \in ClientRecord /\ QueueOK(client[c], l, Newest(c)) /\ l \in 0..MaxEvents
    BY DEF IInv, TypeOK, QueuesOK
  <2>2. q \in Seq(0..MaxEvents) /\ <<l>> \in Seq(0..MaxEvents) /\ Len(<<l>>) = 1 /\ <<l>>[1] = l
    <3>1. q \in Seq(Events)
      BY <2>1 DEF ClientRecord
    <3>2. Events \subseteq 0..MaxEvents
      BY BoundsAssumption DEF Events
    <3>3. q \in Seq(0..MaxEvents)
      BY <3>1, <3>2, SeqMonotonic
    <3> QED
      BY <2>1, <3>3
  <2>3. /\ p \in Seq(0..MaxEvents) /\ Len(p) = Len(q) + 1 /\ Len(q) \in Nat
        /\ \A k \in 1..(Len(q) + 1) : p[k] = IF k <= 1 THEN <<l>>[k] ELSE q[k - 1]
    <3> HIDE DEF q, l
    <3> QED
      BY <2>2, ConcatProperties, LenProperties
  <2>4. DOMAIN p = 1..(Len(q) + 1) /\ DOMAIN q = 1..Len(q)
    BY <2>2, <2>3, LenProperties
  <2>5. /\ \A k \in DOMAIN q : l < q[k]
        /\ \A k, m \in DOMAIN q : k < m => q[k] < q[m]
    BY <2>1 DEF QueueOK
  <2>6. i \in 1..(Len(q) + 1) /\ j \in 2..(Len(q) + 1)
    BY <2>3, <2>4
  <2> HIDE DEF q, l, p
  <2>7. p[j] = q[j - 1] /\ j - 1 \in DOMAIN q
    BY <2>3, <2>4, <2>6
  <2>8. CASE i = 1
    <3>1. p[i] = l
      BY <2>2, <2>3, <2>6, <2>8
    <3> QED
      BY <2>5, <2>7, <3>1 DEF p, q, l
  <2>9. CASE i # 1
    <3>1. p[i] = q[i - 1] /\ i - 1 \in DOMAIN q /\ i - 1 < j - 1
      BY <2>3, <2>4, <2>6, <2>9
    <3> QED
      BY <2>5, <2>7, <3>1 DEF p, q, l
  <2> QED
    BY <2>8, <2>9
<1> QED
  BY <1>1, Inductive, PTL

(* Events wait only at a client that listens: HDF_LISTEN_EVENT_STOP and     *)
(* HDF_LISTEN_EVENT_EXIT empty the queue, and nothing is put into it before *)
(* the next HDF_LISTEN_EVENT_START.                                         *)
THEOREM SilentUnlessListening == Spec => []NothingQueuedUnlessListening
<1>1. IInv => NothingQueuedUnlessListening
  BY DEF IInv
<1> QED
  BY <1>1, Inductive, PTL

-----------------------------------------------------------------------------
(* The service object and its listener threads. *)

\* One call at a time holds the adapter's mutex, and its thread is in use.
OneCall ==
    /\ \A u \in Users : user[u].pc # "idle" => adapter.locked /\ adapter.thread # NULL
    /\ \A u, v \in Users : user[u].pc # "idle" /\ user[v].pc # "idle" => u = v
    /\ adapter.thread = NULL => adapter.listeners = {}
    /\ \A u \in Users : user[u].pc \notin {"idle", "start"} => adapter.listeners = {}
    /\ adapter.thread < nextThread

\* A thread's status, by where its task is.
InLoop == {"loop", "assign", "poll", "read", "dispatch", "exit"}

Running ==
    \A i \in Threads :
        /\ thread[i].status = "UNINITED" <=> i >= nextThread
        /\ thread[i].status \in {"UNINITED", "INITED"} => task[i].pc = "none"
        /\ thread[i].status = "STARTED" => task[i].pc = "start"
        /\ thread[i].status = "RUNNING" => task[i].pc \in InLoop
        /\ thread[i].status = "EXITED" => task[i].pc \in {"last", "none"}
        /\ thread[i].status = "INITED" => i = adapter.thread /\ \E u \in Users : user[u].pc = "start"

\* A call that destroys the thread, by where the call is.
Destroying ==
    \A u \in Users :
        /\ user[u].pc \in {"exit", "wait", "check"} => ~thread[adapter.thread].bound
        /\ user[u].pc = "free" => thread[adapter.thread].status = "EXITED"
        /\ Settled /\ user[u].pc = "destroy" => thread[adapter.thread].status \in {"RUNNING", "EXITED"}
        /\ Settled /\ user[u].pc = "stop" => ~thread[adapter.thread].bound

\* Who dispatches an event holds the thread's mutex and has the service
\* object; a thread that was given up has lost it, or is at its end.
Bound ==
    \A i \in Threads :
        /\ task[i].pc = "dispatch" => thread[i].locked /\ thread[i].bound /\ task[i].event # 0
        /\ Settled /\ i # adapter.thread => ~thread[i].bound \/ thread[i].status \in {"UNINITED", "EXITED"}

TInv == IInv /\ ETypeOK
LInv == OneCall /\ Running /\ Destroying /\ Bound

\* A thread's struct is freed when it has been given up, by one of the two.
Frees ==
    \A i \in Threads :
        /\ i = adapter.thread \/ i >= nextThread => thread[i].freed = 0 /\ ~thread[i].shouldStop
        /\ thread[i].freed <= 1
        /\ thread[i].freed = 1 => task[i].pc \in {"last", "none"} /\ (thread[i].shouldStop => task[i].pc = "none")

\* The event being dispatched was read last; those before it are dispatched.
Dispatches ==
    /\ DispatchedInOrder
    /\ \A k \in DOMAIN log : log[k] <= lastRead[fd]
    /\ \A i \in Threads :
          task[i].pc = "dispatch" =>
              task[i].event = lastRead[fd] /\ \A k \in DOMAIN log : log[k] < task[i].event

-----------------------------------------------------------------------------
USE ClientAssumption, ListenAssumption

(* The device file: every step of the application, of its threads and of   *)
(* the driver is one of VNodeAdapter, or leaves the file alone.             *)
LEMMA FileInductive == IInv /\ [ENext]_<<vars, evars>> => IInv'
<1> SUFFICES ASSUME IInv, [ENext]_<<vars, evars>> PROVE IInv'
  OBVIOUS
<1>1. [Next]_vars
  <2>1. ASSUME NEW u \in Users, NEW l \in Listeners, Register(u, l) \/ Unregister(u, l) PROVE UNCHANGED vars
    BY <2>1 DEF Register, Unregister
  <2>2. ASSUME NEW u \in Users, UserContinues(u) PROVE UNCHANGED vars \/ ClientStep(fd)
    BY <2>2 DEF UserContinues, RegisterDone, ThreadStart, Destroy, ClearPointers, ExitIoctl, WaitOver,
                CheckExited, FreeThread, StopThread, ClientStep
  <2>3. ASSUME NEW i \in Threads, TaskStep(i) PROVE UNCHANGED vars \/ ClientStep(fd)
    BY <2>3 DEF TaskStep, TaskStart, TaskLoop, AssignPfds, TaskPoll, ReadNothing, ReadEvent, ReadFailure,
                Dispatch, TaskExit, TaskLast, ClientStep
  <2>4. CASE DriverSends \/ DriverContinues
    BY <2>4 DEF DriverSends, DriverContinues, Next, DriverStep
  <2>5. CASE UNCHANGED <<vars, evars>>
    BY <2>5
  <2> QED BY <2>1, <2>2, <2>3, <2>4, <2>5 DEF ENext, Next
<1> QED BY <1>1, NextIInv

LEMMA FileInit == EInit => IInv
<1> SUFFICES ASSUME EInit PROVE IInv
  OBVIOUS
<1>1. clientList = <<fd>> /\ Range(clientList) = {fd} /\ sending = NoEvent /\ sending.left = <<>>
  BY DEF EInit, Range, NoEvent
<1>2. TypeOK
  <2>1. clientList \in Seq(Clients) /\ sending \in [event : 0..MaxEvents, left : Seq(Clients)]
    BY <1>1, BoundsAssumption DEF NoEvent
  <2>2. client \in [Clients -> ClientRecord]
    BY NewClientOK DEF EInit
  <2>3. nextEvent \in 1..(MaxEvents + 1) /\ 0 \in 0..MaxEvents
    BY BoundsAssumption DEF EInit
  <2>4. lastRead \in [Clients -> 0..MaxEvents]
    BY <2>3 DEF EInit
  <2>5. closing \subseteq Range(clientList) /\ crashed \in BOOLEAN
    BY Zenon DEF EInit
  <2> QED BY <2>1, <2>2, <2>3, <2>4, <2>5 DEF TypeOK
<1>3. NoneTwice /\ SendsNewest
  BY <1>1 DEF NoneTwice, SendsNewest, IsInjective
<1>4. QueuesOK
  <2> SUFFICES ASSUME NEW c \in Clients PROVE QueueOK(NewClient, 0, Newest(c))
    BY DEF QueuesOK, EInit
  <2>1. Newest(c) = 0
    BY <1>1 DEF Newest, EInit
  <2> QED BY <2>1, NewClientOK
<1>5. NothingQueuedUnlessListening
  BY NewClientOK DEF EInit, NothingQueuedUnlessListening
<1> QED BY <1>2, <1>3, <1>4, <1>5 DEF IInv

-----------------------------------------------------------------------------
(* The threads of the application and those that listen.                    *)
LEMMA ThreadSet ==
    ASSUME ETypeOK, NEW i \in Threads, NEW fields \in ThreadRecord, SetThread(i, fields)
    PROVE  /\ thread' \in [Threads -> ThreadRecord]
           /\ thread'[i] = fields /\ \A j \in Threads \ {i} : thread'[j] = thread[j]
BY DEF SetThread, ETypeOK

LEMMA TaskMoves ==
    ASSUME ETypeOK, NEW i \in Threads,
           NEW label \in {"none", "start", "loop", "assign", "poll", "read", "dispatch", "exit", "last"},
           TaskGoto(i, label)
    PROVE  /\ task' \in [Threads -> TaskRecord]
           /\ task'[i].pc = label /\ task'[i].event = task[i].event
           /\ \A j \in Threads \ {i} : task'[j] = task[j]
BY DEF TaskGoto, ETypeOK, TaskRecord

LEMMA UserMoves ==
    ASSUME ETypeOK, NEW u \in Users,
           NEW label \in {"idle", "start", "destroy", "clear", "exit", "wait", "check", "free", "stop"},
           Goto(u, label)
    PROVE  /\ user' \in [Users -> UserRecord]
           /\ user'[u].pc = label /\ \A v \in Users \ {u} : user'[v] = user[v]
BY DEF Goto, ETypeOK, UserRecord

\* A step of a listener thread, and what its file and its mutex do meanwhile.
LEMMA TaskKeeps ==
    ASSUME TInv, LInv, IInv', NEW i \in Threads, UNCHANGED <<adapter, user, nextThread>>, log' \in Seq(Events),
           thread' \in [Threads -> ThreadRecord], task' \in [Threads -> TaskRecord],
           \A j \in Threads \ {i} : thread'[j] = thread[j] /\ task'[j] = task[j],
           thread'[i].bound = thread[i].bound,
           thread'[i].status # "INITED", thread[i].status \notin {"UNINITED", "INITED"},
           thread[i].status = "EXITED" => thread'[i].status = "EXITED",
           thread[i].status = "RUNNING" => thread'[i].status \in {"RUNNING", "EXITED"},
           thread'[i].status # "UNINITED",
           thread'[i].status = "STARTED" => task'[i].pc = "start",
           thread'[i].status = "RUNNING" => task'[i].pc \in InLoop,
           thread'[i].status = "EXITED" => task'[i].pc \in {"last", "none"},
           task'[i].pc = "dispatch" => thread'[i].locked /\ thread'[i].bound /\ task'[i].event # 0
    PROVE  TInv' /\ LInv'
<1>1. ETypeOK'
  BY DEF TInv, ETypeOK, IInv
<1>2. OneCall'
  BY DEF LInv, OneCall
<1>3. Running'
  BY DEF LInv, Running
<1>4. Destroying'
  <2>1. adapter.thread \in Threads \cup {NULL}
    BY DEF TInv, ETypeOK, AdapterRecord
  <2>2. \A u \in Users : user[u].pc # "idle" => adapter.thread \in Threads
    BY <2>1 DEF LInv, OneCall
  <2>3. \A j \in Threads :
            /\ thread'[j].bound = thread[j].bound
            /\ thread[j].status = "EXITED" => thread'[j].status = "EXITED"
            /\ thread[j].status = "RUNNING" => thread'[j].status \in {"RUNNING", "EXITED"}
    OBVIOUS
  <2> QED BY <2>2, <2>3 DEF LInv, Destroying
<1>5. Bound'
  BY DEF LInv, Bound, Running
<1> QED BY <1>1, <1>2, <1>3, <1>4, <1>5 DEF TInv, LInv

\* Of a step that changes no more than where the thread is.
LEMMA TaskMovesKeeps ==
    ASSUME TInv, LInv, IInv', NEW i \in Threads, UNCHANGED <<adapter, thread, user, nextThread, log>>,
           task[i].pc \in InLoop, NEW label \in InLoop \ {"dispatch"}, TaskGoto(i, label)
    PROVE  TInv' /\ LInv'
<1>1. /\ task' \in [Threads -> TaskRecord] /\ task'[i].pc = label
      /\ \A j \in Threads \ {i} : task'[j] = task[j]
  BY TaskMoves DEF TInv, InLoop
<1>2. thread[i].status = "RUNNING" /\ thread' = thread /\ thread \in [Threads -> ThreadRecord]
  BY DEF LInv, Running, InLoop, TInv, ETypeOK, ThreadRecord, AtOrAfterStarted
<1>3. log' \in Seq(Events)
  BY DEF TInv, ETypeOK
<1> QED BY <1>1, <1>2, <1>3, TaskKeeps DEF InLoop

LEMMA TaskStepKeeps == ASSUME TInv, LInv, IInv', NEW i \in Threads, TaskStep(i) PROVE TInv' /\ LInv'
<1>0. /\ thread[i] \in ThreadRecord /\ task[i] \in TaskRecord /\ log \in Seq(Events)
      /\ thread \in [Threads -> ThreadRecord] /\ task \in [Threads -> TaskRecord]
  BY DEF TInv, ETypeOK
<1>1. CASE TaskLoop(i) \/ TaskPoll(i) \/ ReadNothing(i) \/ ReadFailure(i)
  <2>1. /\ UNCHANGED <<adapter, thread, user, nextThread, log>> /\ task[i].pc \in InLoop
        /\ \E label \in InLoop \ {"dispatch"} : TaskGoto(i, label)
    BY <1>1 DEF TaskLoop, TaskPoll, ReadNothing, ReadFailure, InLoop
  <2> QED BY <2>1, TaskMovesKeeps
<1>2. CASE TaskStart(i)
  <2>1. [thread[i] EXCEPT !.status = "RUNNING"] \in ThreadRecord
    BY <1>0 DEF ThreadRecord, AtOrAfterStarted
  <2>2. /\ thread' \in [Threads -> ThreadRecord] /\ thread'[i] = [thread[i] EXCEPT !.status = "RUNNING"]
        /\ \A j \in Threads \ {i} : thread'[j] = thread[j]
    BY <1>2, <2>1, ThreadSet DEF TaskStart, TInv
  <2>3. thread'[i].status = "RUNNING" /\ thread'[i].bound = thread[i].bound
    BY <1>0, <2>2 DEF ThreadRecord
  <2>4. task' \in [Threads -> TaskRecord] /\ task'[i].pc = "loop" /\ \A j \in Threads \ {i} : task'[j] = task[j]
    BY <1>2, TaskMoves DEF TaskStart, TInv
  <2>5. thread[i].status = "STARTED"
    BY <1>0, <1>2 DEF TaskStart, LInv, Running, InLoop, ThreadRecord, AtOrAfterStarted
  <2> QED BY <1>0, <1>2, <2>2, <2>3, <2>4, <2>5, TaskKeeps DEF TaskStart, InLoop
<1>3. CASE AssignPfds(i)
  <2>1. [thread[i] EXCEPT !.pollChanged = FALSE] \in ThreadRecord
    BY <1>0 DEF ThreadRecord
  <2>2. /\ thread' \in [Threads -> ThreadRecord] /\ thread'[i] = [thread[i] EXCEPT !.pollChanged = FALSE]
        /\ \A j \in Threads \ {i} : thread'[j] = thread[j]
    BY <1>3, <2>1, ThreadSet DEF AssignPfds, TInv
  <2>3. thread'[i].status = thread[i].status /\ thread'[i].bound = thread[i].bound
    BY <1>0, <2>2 DEF ThreadRecord
  <2>4. /\ task' \in [Threads -> TaskRecord] /\ task'[i].pc \in {"poll", "exit"}
        /\ \A j \in Threads \ {i} : task'[j] = task[j]
    BY <1>0, <1>3 DEF AssignPfds, TaskRecord, ThreadRecord
  <2>5. thread[i].status = "RUNNING"
    BY <1>0, <1>3 DEF AssignPfds, LInv, Running, InLoop, ThreadRecord, AtOrAfterStarted
  <2> QED BY <1>0, <1>3, <2>2, <2>3, <2>4, <2>5, TaskKeeps DEF AssignPfds, InLoop
<1>4. CASE ReadEvent(i)
  <2>1. [thread[i] EXCEPT !.locked = TRUE] \in ThreadRecord
    BY <1>0 DEF ThreadRecord
  <2>2. /\ thread' \in [Threads -> ThreadRecord] /\ thread'[i] = [thread[i] EXCEPT !.locked = TRUE]
        /\ \A j \in Threads \ {i} : thread'[j] = thread[j]
    BY <1>4, <2>1, ThreadSet DEF ReadEvent, TInv
  <2>3. /\ thread'[i].status = thread[i].status /\ thread'[i].bound = thread[i].bound
        /\ thread'[i].locked /\ thread[i].bound
    BY <1>0, <1>4, <2>2 DEF ThreadRecord, ReadEvent
  <2>4. PICK e \in 1..MaxEvents : e = Head(client[fd].eventQueue)
    <3>1. client[fd].eventQueue \in Seq(Events) /\ client[fd].eventQueue # <<>>
      BY <1>4 DEF TInv, IInv, TypeOK, ClientRecord, ReadEvent, ReadDevEvent
    <3>2. Head(client[fd].eventQueue) \in Events
      BY <3>1, HeadTailProperties
    <3> QED BY <3>2 DEF Events
  <2>5. /\ task' \in [Threads -> TaskRecord] /\ task'[i].pc = "dispatch" /\ task'[i].event # 0
        /\ \A j \in Threads \ {i} : task'[j] = task[j]
    <3>1. task' = [task EXCEPT ![i].pc = "dispatch", ![i].event = e]
      BY <1>4, <2>4 DEF ReadEvent
    <3>2. e # 0 /\ e \in 0..MaxEvents
      BY BoundsAssumption
    <3> QED BY ONLY <1>0, <3>1, <3>2 DEF TaskRecord
  <2>6. thread[i].status = "RUNNING"
    BY <1>0, <1>4 DEF ReadEvent, LInv, Running, InLoop, ThreadRecord, AtOrAfterStarted
  <2>7. /\ UNCHANGED <<adapter, user, nextThread>> /\ log' \in Seq(Events)
        /\ thread'[i].status = "RUNNING" /\ "dispatch" \in InLoop
    BY <1>0, <1>4, <2>3, <2>6 DEF ReadEvent, InLoop
  <2> QED BY ONLY TInv, LInv, IInv', i \in Threads, <2>2, <2>3, <2>5, <2>6, <2>7, TaskKeeps
<1>5. CASE Dispatch(i)
  <2>1. [thread[i] EXCEPT !.locked = FALSE] \in ThreadRecord
    BY <1>0 DEF ThreadRecord
  <2>2. /\ thread' \in [Threads -> ThreadRecord] /\ thread'[i] = [thread[i] EXCEPT !.locked = FALSE]
        /\ \A j \in Threads \ {i} : thread'[j] = thread[j]
    BY <1>5, <2>1, ThreadSet DEF Dispatch, TInv
  <2>3. thread'[i].status = thread[i].status /\ thread'[i].bound = thread[i].bound
    BY <1>0, <2>2 DEF ThreadRecord
  <2>4. task' \in [Threads -> TaskRecord] /\ task'[i].pc = "loop" /\ \A j \in Threads \ {i} : task'[j] = task[j]
    BY <1>5, TaskMoves DEF Dispatch, TInv
  <2>5. thread[i].status = "RUNNING"
    BY <1>0, <1>5 DEF Dispatch, LInv, Running, InLoop, ThreadRecord, AtOrAfterStarted
  <2>6. log' \in Seq(Events)
    <3>1. task[i].event \in Events
      BY <1>0, <1>5 DEF Dispatch, LInv, Bound, TaskRecord, Events
    <3> QED BY <1>0, <1>5, <3>1, AppendProperties DEF Dispatch
  <2> QED BY <1>5, <2>2, <2>3, <2>4, <2>5, <2>6, TaskKeeps DEF Dispatch, InLoop
<1>6. CASE TaskExit(i)
  <2>1. [thread[i] EXCEPT !.status = "EXITED"] \in ThreadRecord
    BY <1>0 DEF ThreadRecord
  <2>2. /\ thread' \in [Threads -> ThreadRecord] /\ thread'[i] = [thread[i] EXCEPT !.status = "EXITED"]
        /\ \A j \in Threads \ {i} : thread'[j] = thread[j]
    BY <1>6, <2>1, ThreadSet DEF TaskExit, TInv
  <2>3. thread'[i].status = "EXITED" /\ thread'[i].bound = thread[i].bound
    BY <1>0, <2>2 DEF ThreadRecord
  <2>4. task' \in [Threads -> TaskRecord] /\ task'[i].pc = "last" /\ \A j \in Threads \ {i} : task'[j] = task[j]
    BY <1>6, TaskMoves DEF TaskExit, TInv
  <2>5. thread[i].status = "RUNNING"
    BY <1>0, <1>6 DEF TaskExit, LInv, Running, InLoop, ThreadRecord, AtOrAfterStarted
  <2> QED BY <1>0, <1>6, <2>2, <2>3, <2>4, <2>5, TaskKeeps DEF TaskExit
<1>7. CASE TaskLast(i)
  <2>1. PICK fields \in {thread[i], [thread[i] EXCEPT !.freed = @ + 1]} : SetThread(i, fields)
    BY <1>7 DEF TaskLast
  <2>2. fields \in ThreadRecord /\ fields.status = thread[i].status /\ fields.bound = thread[i].bound
    BY <1>0 DEF ThreadRecord
  <2>3. /\ thread' \in [Threads -> ThreadRecord] /\ thread'[i] = fields
        /\ \A j \in Threads \ {i} : thread'[j] = thread[j]
    BY <2>1, <2>2, ThreadSet DEF TInv
  <2>4. task' \in [Threads -> TaskRecord] /\ task'[i].pc = "none" /\ \A j \in Threads \ {i} : task'[j] = task[j]
    BY <1>7, TaskMoves DEF TaskLast, TInv
  <2>5. thread[i].status = "EXITED"
    BY <1>0, <1>7 DEF TaskLast, LInv, Running, InLoop, ThreadRecord, AtOrAfterStarted
  <2> QED BY <1>0, <1>7, <2>2, <2>3, <2>4, <2>5, TaskKeeps DEF TaskLast
<1> QED BY <1>1, <1>2, <1>3, <1>4, <1>5, <1>6, <1>7 DEF TaskStep

\* The thread of a call.
LEMMA InUseThread ==
    ASSUME TInv, LInv, NEW u \in Users, user[u].pc # "idle"
    PROVE  /\ adapter.thread \in Threads /\ thread[adapter.thread] \in ThreadRecord
           /\ \A v \in Users \ {u} : user[v].pc = "idle"
           /\ thread \in [Threads -> ThreadRecord] /\ user \in [Users -> UserRecord]
BY DEF TInv, ETypeOK, AdapterRecord, LInv, OneCall

\* A step of a call that destroys the thread.
LEMMA DestroyKeeps ==
    ASSUME TInv, LInv, IInv', NEW u \in Users, user[u].pc \notin {"idle", "start"},
           NEW label \in {"destroy", "clear", "exit", "wait", "check", "free", "stop"}, Goto(u, label),
           UNCHANGED <<adapter, task, nextThread, log>>, thread' \in [Threads -> ThreadRecord],
           \A j \in Threads \ {adapter.thread} : thread'[j] = thread[j],
           thread'[adapter.thread].status = thread[adapter.thread].status,
           thread'[adapter.thread].locked = thread[adapter.thread].locked,
           thread'[adapter.thread].bound => thread[adapter.thread].bound,
           thread[adapter.thread].locked => thread'[adapter.thread].bound = thread[adapter.thread].bound,
           label \in {"exit", "wait", "check"} => ~thread'[adapter.thread].bound,
           label = "free" => thread[adapter.thread].status = "EXITED",
           Settled /\ label = "destroy" => thread[adapter.thread].status \in {"RUNNING", "EXITED"},
           Settled /\ label = "stop" => ~thread'[adapter.thread].bound
    PROVE  TInv' /\ LInv'
<1>1. /\ user' \in [Users -> UserRecord] /\ user'[u].pc = label /\ \A v \in Users \ {u} : user'[v] = user[v]
  BY UserMoves DEF TInv
<1>2. adapter.thread \in Threads /\ \A v \in Users \ {u} : user[v].pc = "idle"
  BY InUseThread
<1>3. ETypeOK'
  BY <1>1 DEF TInv, ETypeOK, IInv
<1>4. OneCall'
  BY <1>1, <1>2 DEF LInv, OneCall
<1>5. Running'
  BY <1>1, <1>2 DEF LInv, Running
<1>6. Destroying'
  BY <1>1, <1>2 DEF Destroying
<1>7. Bound'
  BY <1>1, <1>2 DEF LInv, Bound
<1> QED BY <1>3, <1>4, <1>5, <1>6, <1>7 DEF TInv, LInv

\* The steps of such a call, up to its last.
LEMMA DestroySteps ==
    ASSUME TInv, LInv, IInv', NEW u \in Users,
           Destroy(u) \/ ClearPointers(u) \/ ExitIoctl(u) \/ WaitOver(u) \/ CheckExited(u)
    PROVE  TInv' /\ LInv'
<1> DEFINE t == adapter.thread
<1>1. t \in Threads /\ thread[t] \in ThreadRecord /\ thread \in [Threads -> ThreadRecord]
  BY InUseThread DEF Destroy, ClearPointers, ExitIoctl, WaitOver, CheckExited
<1>2. CASE Destroy(u)
  <2>1. /\ user[u].pc = "destroy" /\ UNCHANGED <<adapter, thread, task, nextThread, log>>
        /\ Goto(u, IF thread[t].status = "RUNNING" THEN "clear"
                   ELSE IF thread[t].status = "STARTED" THEN "stop" ELSE "free")
    BY <1>2 DEF Destroy
  <2>2. Settled => thread[t].status \in {"RUNNING", "EXITED"}
    BY <2>1 DEF LInv, Destroying
  <2>3. thread[t].status \in {"RUNNING", "STARTED", "EXITED"}
    <3>1. thread[t].status # "INITED"
      BY <1>1, <2>1, InUseThread DEF LInv, Running
    <3>2. thread[t].status # "UNINITED"
      BY <1>1 DEF LInv, Running, OneCall, TInv, ETypeOK, Threads
    <3> QED BY <1>1, <3>1, <3>2 DEF ThreadRecord, AtOrAfterStarted
  <2>4. CASE thread[t].status = "RUNNING"
    BY <1>1, <2>1, <2>4, DestroyKeeps
  <2>5. CASE thread[t].status = "STARTED"
    BY <1>1, <2>1, <2>2, <2>5, DestroyKeeps
  <2>6. CASE thread[t].status = "EXITED"
    BY <1>1, <2>1, <2>6, DestroyKeeps
  <2> QED BY <2>3, <2>4, <2>5, <2>6
<1>3. CASE ClearPointers(u)
  <2>1. /\ user[u].pc = "clear" /\ UNCHANGED <<adapter, task, nextThread, log>> /\ Goto(u, "exit")
        /\ ~thread[t].locked /\ SetThread(t, [thread[t] EXCEPT !.bound = FALSE])
    BY <1>3 DEF ClearPointers
  <2>2. [thread[t] EXCEPT !.bound = FALSE] \in ThreadRecord
    BY <1>1 DEF ThreadRecord
  <2>3. /\ thread' \in [Threads -> ThreadRecord] /\ thread'[t] = [thread[t] EXCEPT !.bound = FALSE]
        /\ \A j \in Threads \ {t} : thread'[j] = thread[j]
    BY <1>1, <2>1, <2>2, ThreadSet DEF TInv
  <2>4. /\ thread'[t].status = thread[t].status /\ thread'[t].locked = thread[t].locked
        /\ ~thread'[t].bound
    BY <1>1, <2>3 DEF ThreadRecord
  <2> QED BY <2>1, <2>3, <2>4, DestroyKeeps
<1>4. CASE ExitIoctl(u)
  <2>1. /\ user[u].pc = "exit" /\ UNCHANGED <<adapter, task, nextThread, log>> /\ Goto(u, "wait")
        /\ SetThread(t, [thread[t] EXCEPT !.pfd = FALSE])
    BY <1>4 DEF ExitIoctl
  <2>2. [thread[t] EXCEPT !.pfd = FALSE] \in ThreadRecord
    BY <1>1 DEF ThreadRecord
  <2>3. /\ thread' \in [Threads -> ThreadRecord] /\ thread'[t] = [thread[t] EXCEPT !.pfd = FALSE]
        /\ \A j \in Threads \ {t} : thread'[j] = thread[j]
    BY <1>1, <2>1, <2>2, ThreadSet DEF TInv
  <2>4. /\ thread'[t].status = thread[t].status /\ thread'[t].locked = thread[t].locked
        /\ thread'[t].bound = thread[t].bound
    BY <1>1, <2>3 DEF ThreadRecord
  <2>5. ~thread[t].bound
    BY <2>1 DEF LInv, Destroying
  <2> QED BY <2>1, <2>3, <2>4, <2>5, DestroyKeeps
<1>5. CASE WaitOver(u) \/ CheckExited(u)
  <2>1. /\ user[u].pc \in {"wait", "check"} /\ UNCHANGED <<adapter, thread, task, nextThread, log>>
        /\ Goto(u, "check") \/ (thread[t].status = "EXITED" /\ Goto(u, "free")) \/ Goto(u, "stop")
    BY <1>5 DEF WaitOver, CheckExited
  <2>2. ~thread[t].bound
    BY <2>1 DEF LInv, Destroying
  <2>3. CASE Goto(u, "check")
    BY <1>1, <2>1, <2>2, <2>3, DestroyKeeps
  <2>4. CASE thread[t].status = "EXITED" /\ Goto(u, "free")
    BY <1>1, <2>1, <2>2, <2>4, DestroyKeeps
  <2>5. CASE Goto(u, "stop")
    BY <1>1, <2>1, <2>2, <2>5, DestroyKeeps
  <2> QED BY <2>1, <2>3, <2>4, <2>5
<1> QED BY <1>2, <1>3, <1>4, <1>5

\* Its last step: the thread is given up.
LEMMA GiveUpKeeps == ASSUME TInv, LInv, IInv', NEW u \in Users, FreeThread(u) \/ StopThread(u) PROVE TInv' /\ LInv'
<1> DEFINE t == adapter.thread
<1>1. /\ user[u].pc \in {"free", "stop"} /\ UNCHANGED <<task, nextThread, log>> /\ Goto(u, "idle")
      /\ adapter' = [adapter EXCEPT !.locked = FALSE, !.thread = NULL]
      /\ SetThread(t, [thread[t] EXCEPT !.freed = @ + 1]) \/ SetThread(t, [thread[t] EXCEPT !.shouldStop = TRUE])
  BY DEF FreeThread, StopThread, UnregisterDone
<1>2. /\ t \in Threads /\ thread[t] \in ThreadRecord /\ thread \in [Threads -> ThreadRecord]
      /\ \A v \in Users \ {u} : user[v].pc = "idle"
  BY <1>1, InUseThread
<1>3. PICK fields \in {[thread[t] EXCEPT !.freed = @ + 1], [thread[t] EXCEPT !.shouldStop = TRUE]} : SetThread(t, fields)
  BY <1>1
<1>4. /\ fields \in ThreadRecord /\ fields.status = thread[t].status /\ fields.bound = thread[t].bound
      /\ fields.locked = thread[t].locked
  <2>1. CASE fields = [thread[t] EXCEPT !.freed = @ + 1]
    BY <1>2, <2>1 DEF ThreadRecord
  <2>2. CASE fields = [thread[t] EXCEPT !.shouldStop = TRUE]
    BY <1>2, <2>2 DEF ThreadRecord
  <2> QED BY <2>1, <2>2
<1>5. /\ thread' \in [Threads -> ThreadRecord] /\ thread'[t] = fields
      /\ \A j \in Threads \ {t} : thread'[j] = thread[j]
  BY <1>2, <1>3, <1>4, ThreadSet DEF TInv
<1>6. user' \in [Users -> UserRecord] /\ user'[u].pc = "idle" /\ \A v \in Users \ {u} : user'[v] = user[v]
  BY <1>1, UserMoves DEF TInv
<1>7. adapter' \in AdapterRecord /\ adapter'.thread = NULL /\ adapter'.listeners = adapter.listeners
  BY <1>1 DEF TInv, ETypeOK, AdapterRecord
<1>8. ETypeOK'
  BY <1>1, <1>5, <1>6, <1>7 DEF TInv, ETypeOK, IInv
<1>9. OneCall'
  <2>1. adapter.listeners = {} /\ NULL < nextThread
    BY <1>1 DEF LInv, OneCall, NULL, TInv, ETypeOK
  <2> QED BY <1>1, <1>2, <1>6, <1>7, <2>1 DEF OneCall
<1>10. Running'
  <2>1. \A i \in Threads : thread[i].status # "INITED"
    BY <1>1, <1>2 DEF LInv, Running
  <2> QED BY <1>1, <1>2, <1>4, <1>5, <2>1 DEF LInv, Running
<1>11. Destroying'
  BY <1>2, <1>6 DEF Destroying
<1>12. Bound'
  <2>1. Settled => ~thread[t].bound \/ thread[t].status = "EXITED"
    BY <1>1 DEF LInv, Destroying
  <2> QED BY <1>1, <1>2, <1>4, <1>5, <1>7, <2>1 DEF LInv, Bound
<1> QED BY <1>8, <1>9, <1>10, <1>11, <1>12 DEF TInv, LInv

\* A listener is registered: its thread is a new one, or one that is there.
LEMMA RegisterKeeps ==
    ASSUME TInv, LInv, IInv', NEW u \in Users, NEW l \in Listeners, Register(u, l)
    PROVE  TInv' /\ LInv'
<1>1. /\ user[u].pc = "idle" /\ ~adapter.locked /\ UNCHANGED <<task, log>>
      /\ user' = [user EXCEPT ![u] = [pc |-> "start", listener |-> l]]
  BY DEF Register
<1>2. /\ thread \in [Threads -> ThreadRecord] /\ user \in [Users -> UserRecord] /\ adapter \in AdapterRecord
      /\ nextThread \in 1..(MaxThreads + 1)
  BY DEF TInv, ETypeOK
<1>3. \A v \in Users : user[v].pc = "idle"
  BY <1>1 DEF LInv, OneCall
<1>4. user' \in [Users -> UserRecord] /\ user'[u].pc = "start" /\ \A v \in Users \ {u} : user'[v] = user[v]
  <2>1. [pc |-> "start", listener |-> l] \in UserRecord
    BY DEF UserRecord
  <2> QED BY <1>1, <1>2, <2>1
<1>5. \A i \in Threads : thread[i].status # "INITED"
  BY <1>3 DEF LInv, Running
<1>6. CASE adapter.thread = NULL
  <2>1. /\ nextThread <= MaxThreads /\ nextThread' = nextThread + 1
        /\ adapter' = [locked |-> TRUE, listeners |-> adapter.listeners \cup {l}, thread |-> nextThread]
        /\ SetThread(nextThread, NewThread)
    BY <1>6 DEF Register
  <2>2. nextThread \in Threads /\ nextThread' \in 1..(MaxThreads + 1)
    BY <1>2, <2>1 DEF Threads
  <2>3. adapter' \in AdapterRecord /\ adapter'.locked /\ adapter'.thread = nextThread
    BY <1>2, <2>1, <2>2 DEF AdapterRecord
  <2>4. NewThread \in ThreadRecord /\ NewThread.status = "INITED"
    BY DEF NewThread, ThreadRecord
  <2>5. /\ thread' \in [Threads -> ThreadRecord] /\ thread'[nextThread] = NewThread
        /\ \A j \in Threads \ {nextThread} : thread'[j] = thread[j]
    BY <2>1, <2>2, <2>4, ThreadSet DEF TInv
  <2>6. ETypeOK'
    BY <1>1, <1>4, <2>2, <2>3, <2>5 DEF TInv, ETypeOK, IInv
  <2>7. OneCall'
    BY <1>2, <1>3, <1>4, <2>1, <2>2, <2>3 DEF OneCall, NULL, Threads
  <2>8. thread[nextThread].status = "UNINITED" /\ task[nextThread].pc = "none"
    BY <2>2 DEF LInv, Running, Threads
  <2>9. Running'
    <3> SUFFICES ASSUME NEW i \in Threads
                 PROVE  /\ thread'[i].status = "UNINITED" <=> i >= nextThread'
                        /\ thread'[i].status \in {"UNINITED", "INITED"} => task[i].pc = "none"
                        /\ thread'[i].status = "STARTED" => task[i].pc = "start"
                        /\ thread'[i].status = "RUNNING" => task[i].pc \in InLoop
                        /\ thread'[i].status = "EXITED" => task[i].pc \in {"last", "none"}
                        /\ thread'[i].status = "INITED" => i = adapter'.thread /\ \E v \in Users : user'[v].pc = "start"
      BY <1>1 DEF Running
    <3>1. CASE i = nextThread
      BY <1>2, <1>4, <2>1, <2>3, <2>4, <2>5, <2>8, <3>1
    <3>2. CASE i # nextThread
      <4>1. thread'[i] = thread[i] /\ (i >= nextThread <=> i >= nextThread')
        BY <1>2, <2>1, <2>5, <3>2 DEF Threads
      <4> QED BY <1>5, <4>1 DEF LInv, Running
    <3> QED BY <3>1, <3>2
  <2>10. Destroying'
    BY <1>3, <1>4 DEF Destroying
  <2>11. Bound'
    BY <1>1, <1>6, <2>2, <2>3, <2>5, <2>8 DEF LInv, Bound, NULL, Threads
  <2> QED BY <2>6, <2>7, <2>9, <2>10, <2>11 DEF TInv, LInv
<1>7. CASE adapter.thread # NULL
  <2> DEFINE t == adapter.thread
  <2>1. /\ UNCHANGED nextThread /\ task[t].pc # "last"
        /\ adapter' = [adapter EXCEPT !.locked = TRUE, !.listeners = @ \cup {l}]
        /\ SetThread(t, IF thread[t].status = "EXITED"
                        THEN [thread[t] EXCEPT !.status = "INITED", !.shouldStop = FALSE, !.bound = TRUE]
                        ELSE [thread[t] EXCEPT !.bound = TRUE])
    BY <1>7 DEF Register
  <2>2. t \in Threads /\ thread[t] \in ThreadRecord
    BY <1>2, <1>7 DEF AdapterRecord
  <2>3. adapter' \in AdapterRecord /\ adapter'.locked /\ adapter'.thread = t
    BY <1>2, <2>1 DEF AdapterRecord
  <2>4. PICK fields \in ThreadRecord :
            /\ SetThread(t, fields) /\ fields.locked = thread[t].locked /\ fields.bound
            /\ fields.status = IF thread[t].status = "EXITED" THEN "INITED" ELSE thread[t].status
    <3>1. CASE thread[t].status = "EXITED"
      <4> DEFINE new == [thread[t] EXCEPT !.status = "INITED", !.shouldStop = FALSE, !.bound = TRUE]
      <4>1. new \in ThreadRecord /\ new.locked = thread[t].locked /\ new.bound /\ new.status = "INITED"
        BY <2>2 DEF ThreadRecord
      <4>2. SetThread(t, new)
        BY <2>1, <3>1
      <4> QED BY <3>1, <4>1, <4>2
    <3>2. CASE thread[t].status # "EXITED"
      <4> DEFINE new == [thread[t] EXCEPT !.bound = TRUE]
      <4>1. new \in ThreadRecord /\ new.locked = thread[t].locked /\ new.bound /\ new.status = thread[t].status
        BY <2>2 DEF ThreadRecord
      <4>2. SetThread(t, new)
        BY <2>1, <3>2
      <4> QED BY <3>2, <4>1, <4>2
    <3> QED BY <3>1, <3>2
  <2>5. /\ thread' \in [Threads -> ThreadRecord] /\ thread'[t] = fields
        /\ \A j \in Threads \ {t} : thread'[j] = thread[j]
    BY <2>2, <2>4, ThreadSet DEF TInv
  <2>6. ETypeOK'
    BY <1>1, <1>4, <2>1, <2>3, <2>5 DEF TInv, ETypeOK, IInv
  <2>7. OneCall'
    BY <1>3, <1>4, <1>7, <2>1, <2>3 DEF LInv, OneCall
  <2>8. task[t].pc = "none" \/ thread[t].status # "EXITED"
    BY <2>1, <2>2 DEF LInv, Running
  <2>9. Running'
    BY <1>1, <1>4, <1>5, <2>1, <2>2, <2>3, <2>4, <2>5, <2>8 DEF LInv, Running
  <2>10. Destroying'
    BY <1>3, <1>4 DEF Destroying
  <2>11. Bound'
    BY <1>1, <2>2, <2>3, <2>4, <2>5 DEF LInv, Bound
  <2> QED BY <2>6, <2>7, <2>9, <2>10, <2>11 DEF TInv, LInv
<1> QED BY <1>6, <1>7

LEMMA RegisterDoneKeeps == ASSUME TInv, LInv, IInv', NEW u \in Users, RegisterDone(u) PROVE TInv' /\ LInv'
<1> DEFINE t == adapter.thread
<1>1. /\ user[u].pc = "start" /\ thread[t].status # "INITED" /\ Goto(u, "idle")
      /\ UNCHANGED <<thread, task, nextThread, log>>
      /\ adapter' = [adapter EXCEPT !.locked = FALSE,
                        !.listeners = IF thread[t].status \in AtOrAfterStarted
                                      THEN @ ELSE @ \ {user[u].listener}]
  BY DEF RegisterDone
<1>2. t \in Threads /\ \A v \in Users \ {u} : user[v].pc = "idle"
  BY <1>1, InUseThread
<1>3. user' \in [Users -> UserRecord] /\ user'[u].pc = "idle" /\ \A v \in Users \ {u} : user'[v] = user[v]
  BY <1>1, UserMoves DEF TInv
<1>4. adapter' \in AdapterRecord /\ adapter'.thread = t
  <2>1. PICK listeners \in SUBSET Listeners : adapter' = [adapter EXCEPT !.locked = FALSE, !.listeners = listeners]
    BY <1>1 DEF TInv, ETypeOK, AdapterRecord
  <2> QED BY <2>1 DEF TInv, ETypeOK, AdapterRecord
<1>5. ETypeOK'
  BY <1>1, <1>3, <1>4 DEF TInv, ETypeOK, IInv
<1>6. OneCall'
  BY <1>1, <1>2, <1>3, <1>4 DEF LInv, OneCall, NULL, Threads
<1>7. Running'
  <2>1. \A i \in Threads : thread[i].status # "INITED"
    BY <1>1, <1>2 DEF LInv, Running
  <2> QED BY <1>1, <2>1 DEF LInv, Running
<1>8. Destroying' /\ Bound'
  BY <1>1, <1>2, <1>3, <1>4 DEF LInv, Destroying, Bound
<1> QED BY <1>5, <1>6, <1>7, <1>8 DEF TInv, LInv

LEMMA ThreadStartKeeps == ASSUME TInv, LInv, IInv', NEW u \in Users, ThreadStart(u) PROVE TInv' /\ LInv'
<1> DEFINE t == adapter.thread
<1>1. /\ user[u].pc = "start" /\ thread[t].status = "INITED" /\ Goto(u, "idle") /\ UNCHANGED <<nextThread, log>>
      /\ SetThread(t, [thread[t] EXCEPT !.status = "STARTED", !.pfd = TRUE])
      /\ task' = [task EXCEPT ![t] = [pc |-> "start", fds |-> FALSE, event |-> 0]]
      /\ adapter' = [adapter EXCEPT !.locked = FALSE]
  BY DEF ThreadStart
<1>2. /\ t \in Threads /\ thread[t] \in ThreadRecord /\ \A v \in Users \ {u} : user[v].pc = "idle"
  BY <1>1, InUseThread
<1>3. user' \in [Users -> UserRecord] /\ user'[u].pc = "idle" /\ \A v \in Users \ {u} : user'[v] = user[v]
  BY <1>1, UserMoves DEF TInv
<1>4. adapter' \in AdapterRecord /\ adapter'.thread = t /\ adapter'.listeners = adapter.listeners
  BY <1>1 DEF TInv, ETypeOK, AdapterRecord
<1>5. [thread[t] EXCEPT !.status = "STARTED", !.pfd = TRUE] \in ThreadRecord
  BY <1>2 DEF ThreadRecord, AtOrAfterStarted
<1>6. /\ thread' \in [Threads -> ThreadRecord]
      /\ thread'[t] = [thread[t] EXCEPT !.status = "STARTED", !.pfd = TRUE]
      /\ \A j \in Threads \ {t} : thread'[j] = thread[j]
  BY <1>1, <1>2, <1>5, ThreadSet DEF TInv
<1>7. thread'[t].status = "STARTED"
  BY <1>2, <1>6 DEF ThreadRecord
<1>8. task' \in [Threads -> TaskRecord] /\ task'[t].pc = "start" /\ \A j \in Threads \ {t} : task'[j] = task[j]
  <2>1. [pc |-> "start", fds |-> FALSE, event |-> 0] \in TaskRecord
    BY BoundsAssumption DEF TaskRecord
  <2> QED BY <1>1, <1>2, <2>1 DEF TInv, ETypeOK
<1>9. ETypeOK'
  BY <1>1, <1>3, <1>4, <1>6, <1>8 DEF TInv, ETypeOK, IInv
<1>10. OneCall'
  BY <1>1, <1>2, <1>3, <1>4 DEF LInv, OneCall
<1>11. Running'
  <2>1. \A i \in Threads \ {t} : thread[i].status # "INITED"
    BY <1>1, <1>2 DEF LInv, Running
  <2>2. ~(t >= nextThread) /\ UNCHANGED nextThread
    BY <1>1, <1>2 DEF LInv, Running
  <2>3. \A i \in Threads \ {t} :
            /\ thread'[i].status = "UNINITED" <=> i >= nextThread
            /\ thread'[i].status = "UNINITED" => task'[i].pc = "none"
            /\ thread'[i].status = "STARTED" => task'[i].pc = "start"
            /\ thread'[i].status = "RUNNING" => task'[i].pc \in InLoop
            /\ thread'[i].status = "EXITED" => task'[i].pc \in {"last", "none"}
            /\ thread'[i].status # "INITED"
    BY <1>6, <1>8, <2>1 DEF LInv, Running
  <2> QED BY <1>2, <1>7, <1>8, <2>2, <2>3 DEF Running
<1>12. Destroying'
  BY <1>2, <1>3 DEF Destroying
<1>13. Bound'
  BY <1>2, <1>4, <1>6, <1>8 DEF LInv, Bound
<1> QED BY <1>9, <1>10, <1>11, <1>12, <1>13 DEF TInv, LInv

LEMMA UnregisterKeeps ==
    ASSUME TInv, LInv, IInv', NEW u \in Users, NEW l \in Listeners, Unregister(u, l)
    PROVE  TInv' /\ LInv'
<1>1. /\ user[u].pc = "idle" /\ ~adapter.locked /\ l \in adapter.listeners /\ UNCHANGED <<thread, task, nextThread, log>>
      /\ adapter' = [adapter EXCEPT !.listeners = @ \ {l}, !.locked = (adapter.listeners = {l})]
      /\ adapter.listeners = {l} => Calm
      /\ user' = IF adapter.listeners = {l}
                 THEN [user EXCEPT ![u] = [pc |-> "destroy", listener |-> l]] ELSE user
  BY DEF Unregister
<1>2. \A v \in Users : user[v].pc = "idle"
  BY <1>1 DEF LInv, OneCall
<1>3. /\ adapter' \in AdapterRecord /\ adapter'.thread = adapter.thread
      /\ adapter'.locked <=> adapter.listeners = {l}
      /\ adapter'.listeners = adapter.listeners \ {l}
  <2>1. PICK locked \in BOOLEAN : locked = (adapter.listeners = {l})
    OBVIOUS
  <2>2. adapter' = [adapter EXCEPT !.listeners = @ \ {l}, !.locked = locked]
    BY <1>1, <2>1
  <2>3. adapter' \in AdapterRecord /\ adapter'.thread = adapter.thread /\ adapter'.locked = locked
        /\ adapter'.listeners = adapter.listeners \ {l}
    BY <2>2 DEF TInv, ETypeOK, AdapterRecord
  <2> QED BY <2>1, <2>3
<1>4. adapter.thread # NULL
  BY <1>1 DEF LInv, OneCall
<1>5. /\ user' \in [Users -> UserRecord] /\ \A v \in Users \ {u} : user'[v] = user[v]
      /\ user'[u].pc = IF adapter.listeners = {l} THEN "destroy" ELSE "idle"
  <2>1. [pc |-> "destroy", listener |-> l] \in UserRecord
    BY DEF UserRecord
  <2>2. user \in [Users -> UserRecord]
    BY DEF TInv, ETypeOK
  <2>3. CASE adapter.listeners = {l}
    BY <1>1, <2>1, <2>2, <2>3
  <2>4. CASE adapter.listeners # {l}
    BY <1>1, <2>2, <2>4
  <2> QED BY <2>3, <2>4
<1>6. ETypeOK'
  BY <1>1, <1>3, <1>5 DEF TInv, ETypeOK, IInv
<1>7. OneCall'
  BY <1>1, <1>2, <1>3, <1>4, <1>5 DEF LInv, OneCall
<1>8. Running'
  BY <1>1, <1>2, <1>3 DEF LInv, Running
<1>9. Destroying'
  <2>1. Settled /\ user'[u].pc = "destroy" => thread[adapter.thread].status = "RUNNING"
    BY <1>1, <1>5 DEF Calm
  <2> QED BY <1>1, <1>2, <1>3, <1>5, <2>1 DEF Destroying
<1>10. Bound'
  BY <1>1, <1>3 DEF LInv, Bound
<1> QED BY <1>6, <1>7, <1>8, <1>9, <1>10 DEF TInv, LInv

LEMMA ListenInit == EInit => TInv /\ LInv /\ Frees /\ Dispatches
<1> SUFFICES ASSUME EInit PROVE TInv /\ LInv /\ Frees /\ Dispatches
  OBVIOUS
<1> DEFINE first == [NewThread EXCEPT !.status = "UNINITED"]
           none  == [pc |-> "none", fds |-> FALSE, event |-> 0]
           idle  == [pc |-> "idle", listener |-> NULL]
<1>1. /\ first \in ThreadRecord /\ first.status = "UNINITED" /\ first.freed = 0 /\ ~first.shouldStop
      /\ none \in TaskRecord /\ none.pc = "none" /\ idle \in UserRecord /\ idle.pc = "idle"
  <2>1. first \in ThreadRecord /\ first.status = "UNINITED" /\ first.freed = 0 /\ ~first.shouldStop
    BY DEF NewThread, ThreadRecord
  <2>2. none \in TaskRecord /\ none.pc = "none"
    BY BoundsAssumption DEF TaskRecord
  <2>3. idle \in UserRecord /\ idle.pc = "idle"
    BY DEF UserRecord
  <2> QED BY <2>1, <2>2, <2>3
<1>2. /\ thread = [i \in Threads |-> first] /\ task = [i \in Threads |-> none] /\ user = [u \in Users |-> idle]
      /\ nextThread = 1 /\ log = <<>> /\ DOMAIN log = {}
  BY DEF EInit
<1>3. adapter \in AdapterRecord /\ adapter.thread = NULL /\ adapter.listeners = {}
  BY DEF EInit, AdapterRecord
<1> HIDE DEF first, none, idle
<1>4. TInv
  <2>1. log \in Seq(Events) /\ nextThread \in 1..(MaxThreads + 1)
    BY <1>2
  <2> QED BY <1>1, <1>2, <1>3, <2>1, FileInit DEF TInv, IInv, ETypeOK
<1>5. LInv
  BY <1>1, <1>2, <1>3 DEF LInv, OneCall, Running, Destroying, Bound, Threads, NULL
<1>6. Frees
  BY <1>1, <1>2 DEF Frees, Threads
<1>7. Dispatches
  BY <1>1, <1>2 DEF Dispatches, DispatchedInOrder
<1> QED BY <1>4, <1>5, <1>6, <1>7

LEMMA ListenInductive == TInv /\ LInv /\ [ENext]_<<vars, evars>> => TInv' /\ LInv'
<1> SUFFICES ASSUME TInv, LInv, [ENext]_<<vars, evars>> PROVE TInv' /\ LInv'
  OBVIOUS
<1>1. IInv'
  BY FileInductive DEF TInv
<1>2. ASSUME NEW u \in Users, NEW l \in Listeners, Register(u, l) \/ Unregister(u, l) PROVE TInv' /\ LInv'
  BY <1>1, <1>2, RegisterKeeps, UnregisterKeeps
<1>3. ASSUME NEW u \in Users, UserContinues(u) PROVE TInv' /\ LInv'
  BY <1>1, <1>3, RegisterDoneKeeps, ThreadStartKeeps, DestroySteps, GiveUpKeeps DEF UserContinues
<1>4. ASSUME NEW i \in Threads, TaskStep(i) PROVE TInv' /\ LInv'
  BY <1>1, <1>4, TaskStepKeeps
<1>5. CASE UNCHANGED evars
  <2>1. UNCHANGED <<adapter, thread, task, user, nextThread, log>>
    BY <1>5 DEF evars
  <2>2. ETypeOK'
    BY <1>1, <2>1 DEF TInv, IInv, ETypeOK
  <2>3. LInv'
    BY <2>1 DEF LInv, OneCall, Running, Destroying, Bound
  <2> QED BY <1>1, <2>2, <2>3 DEF TInv
<1> QED BY <1>2, <1>3, <1>4, <1>5 DEF ENext, DriverSends, DriverContinues

(* The type invariant of the application, its threads and the device file.  *)
THEOREM ListenersTypeCorrect == ESpec => []ETypeOK
<1>1. TInv => ETypeOK
  BY DEF TInv
<1> QED BY <1>1, ListenInit, ListenInductive, PTL DEF ESpec

-----------------------------------------------------------------------------
(* The struct of a listener thread.                                         *)

\* A step that neither frees nor stops a thread.
LEMMA FreesKept ==
    ASSUME Frees, UNCHANGED nextThread, adapter'.thread = adapter.thread,
           \A i \in Threads : thread'[i].freed = thread[i].freed /\ thread'[i].shouldStop = thread[i].shouldStop,
           \A i \in Threads \ {adapter.thread} :
               task[i].pc \in {"last", "none"} => task'[i].pc = task[i].pc
    PROVE  Frees'
BY DEF Frees

LEMMA TaskStepFrees == ASSUME FreedKeeps, TInv, Frees, NEW i \in Threads, TaskStep(i) PROVE Frees'
<1>1. /\ thread[i] \in ThreadRecord /\ task[i] \in TaskRecord
      /\ thread \in [Threads -> ThreadRecord] /\ task \in [Threads -> TaskRecord]
  BY DEF TInv, ETypeOK
<1>2. CASE ~TaskLast(i)
  <2>1. /\ UNCHANGED <<adapter, nextThread>> /\ task[i].pc \notin {"last", "none"}
        /\ \A j \in Threads \ {i} : task'[j] = task[j]
    BY <1>1, <1>2 DEF TaskStep, TaskStart, TaskLoop, AssignPfds, TaskPoll, ReadNothing, ReadEvent, ReadFailure,
                      Dispatch, TaskExit, TaskGoto
  <2>2. \A j \in Threads : thread'[j].freed = thread[j].freed /\ thread'[j].shouldStop = thread[j].shouldStop
    <3>1. CASE UNCHANGED thread
      BY <3>1
    <3>2. CASE TaskStart(i) \/ TaskExit(i)
      <4>1. PICK status \in {"RUNNING", "EXITED"} : SetThread(i, [thread[i] EXCEPT !.status = status])
        BY <3>2 DEF TaskStart, TaskExit
      <4> QED BY <1>1, <4>1 DEF SetThread, ThreadRecord
    <3>3. CASE AssignPfds(i)
      BY <1>1, <3>3 DEF AssignPfds, SetThread, ThreadRecord
    <3>4. CASE ReadEvent(i) \/ Dispatch(i)
      <4>1. PICK locked \in BOOLEAN : SetThread(i, [thread[i] EXCEPT !.locked = locked])
        BY <3>4 DEF ReadEvent, Dispatch
      <4> QED BY <1>1, <4>1 DEF SetThread, ThreadRecord
    <3> QED BY <1>2, <3>1, <3>2, <3>3, <3>4 DEF TaskStep, TaskLoop, TaskPoll, ReadNothing, ReadFailure
  <2> QED BY <2>1, <2>2, FreesKept
<1>3. CASE TaskLast(i)
  <2>1. /\ UNCHANGED <<adapter, nextThread>> /\ task[i].pc = "last" /\ TaskGoto(i, "none")
        /\ SetThread(i, IF thread[i].shouldStop THEN [thread[i] EXCEPT !.freed = @ + 1] ELSE thread[i])
    BY <1>3 DEF TaskLast
  <2>2. task'[i].pc = "none" /\ \A j \in Threads \ {i} : task'[j] = task[j]
    BY <2>1, TaskMoves DEF TInv
  <2>3. CASE thread[i].shouldStop
    <3>1. thread[i].freed = 0 /\ i # adapter.thread /\ ~(i >= nextThread)
      <4>1. thread[i].freed \in Nat
        BY <1>1 DEF ThreadRecord
      <4> QED BY <2>1, <2>3, <4>1 DEF Frees
    <3>2. /\ thread'[i].freed = 1 /\ thread'[i].shouldStop
          /\ \A j \in Threads \ {i} : thread'[j] = thread[j]
      BY <1>1, <2>1, <2>3, <3>1 DEF SetThread, ThreadRecord
    <3> QED BY <2>1, <2>2, <3>1, <3>2 DEF Frees
  <2>4. CASE ~thread[i].shouldStop
    <3>1. thread' = thread
      BY <1>1, <2>1, <2>4 DEF SetThread
    <3> QED BY <2>1, <2>2, <2>4, <3>1 DEF Frees
  <2> QED BY <2>3, <2>4
<1> QED BY <1>2, <1>3

LEMMA RegisterFrees ==
    ASSUME TInv, LInv, Frees, NEW u \in Users, NEW l \in Listeners, Register(u, l)
    PROVE  Frees'
<1>1. /\ thread \in [Threads -> ThreadRecord] /\ nextThread \in 1..(MaxThreads + 1)
      /\ adapter.thread \in Threads \cup {NULL} /\ task' = task
  BY DEF TInv, ETypeOK, AdapterRecord, Register
<1>2. CASE adapter.thread = NULL
  <2>1. nextThread \in Threads /\ nextThread' = nextThread + 1 /\ adapter'.thread = nextThread
        /\ SetThread(nextThread, NewThread)
    BY <1>1, <1>2 DEF Register, Threads
  <2>2. thread'[nextThread] = NewThread /\ \A i \in Threads \ {nextThread} : thread'[i] = thread[i]
    BY <1>1, <2>1 DEF SetThread
  <2>3. NewThread.freed = 0 /\ ~NewThread.shouldStop
    BY DEF NewThread
  <2>4. \A i \in Threads : i >= nextThread' => i # nextThread /\ i >= nextThread
    BY <1>1, <2>1 DEF Threads
  <2> QED BY <1>1, <2>1, <2>2, <2>3, <2>4 DEF Frees
<1>3. CASE adapter.thread # NULL
  <2> DEFINE t == adapter.thread
  <2>1. t \in Threads /\ thread[t] \in ThreadRecord
    BY <1>1, <1>3
  <2>2. /\ nextThread' = nextThread /\ adapter'.thread = t
        /\ \/ SetThread(t, [thread[t] EXCEPT !.status = "INITED", !.shouldStop = FALSE, !.bound = TRUE])
           \/ SetThread(t, [thread[t] EXCEPT !.bound = TRUE])
    BY <1>3 DEF Register, TInv, ETypeOK, AdapterRecord
  <2>3. thread[t].freed = 0 /\ thread[t].shouldStop = FALSE
    BY <2>1 DEF Frees, ThreadRecord
  <2>4. \A i \in Threads : thread'[i].freed = thread[i].freed /\ thread'[i].shouldStop = thread[i].shouldStop
    <3>1. CASE SetThread(t, [thread[t] EXCEPT !.status = "INITED", !.shouldStop = FALSE, !.bound = TRUE])
      BY <1>1, <2>1, <2>3, <3>1 DEF SetThread, ThreadRecord
    <3>2. CASE SetThread(t, [thread[t] EXCEPT !.bound = TRUE])
      BY <1>1, <2>1, <3>2 DEF SetThread, ThreadRecord
    <3> QED BY <2>2, <3>1, <3>2
  <2> QED BY <1>1, <2>2, <2>4, FreesKept
<1> QED BY <1>2, <1>3

LEMMA GiveUpFrees == ASSUME TInv, LInv, Frees, NEW u \in Users, FreeThread(u) \/ StopThread(u) PROVE Frees'
<1> DEFINE t == adapter.thread
<1>1. /\ UNCHANGED <<task, nextThread>> /\ adapter'.thread = NULL /\ user[u].pc # "idle"
  BY DEF FreeThread, StopThread, UnregisterDone, TInv, ETypeOK, AdapterRecord
<1>2. /\ t \in Threads /\ thread[t] \in ThreadRecord /\ thread \in [Threads -> ThreadRecord] /\ t < nextThread
  BY <1>1, InUseThread DEF LInv, OneCall
<1>3. thread[t].freed = 0 /\ ~thread[t].shouldStop /\ NULL \notin Threads
  BY <1>2 DEF Frees, NULL, Threads
<1>4. CASE FreeThread(u)
  <2>1. task[t].pc \in {"last", "none"}
    BY <1>2, <1>4 DEF FreeThread, LInv, Destroying, Running
  <2>2. /\ thread'[t].freed = 1 /\ thread'[t].shouldStop = thread[t].shouldStop
        /\ \A j \in Threads \ {t} : thread'[j] = thread[j]
    BY <1>2, <1>3, <1>4 DEF FreeThread, SetThread, ThreadRecord
  <2>3. \A j \in Threads \ {t} : thread'[j] = thread[j] /\ task'[j] = task[j]
    BY <1>1, <2>2
  <2>4. \A i \in Threads : i # adapter'.thread /\ (i >= nextThread' => i >= nextThread /\ i # t)
    <3>1. nextThread \in Nat /\ t \in Nat
      BY <1>2 DEF Threads, TInv, ETypeOK
    <3> QED BY <1>1, <1>2, <1>3, <3>1 DEF Threads
  <2>5. task'[t].pc \in {"last", "none"} /\ ~thread'[t].shouldStop /\ thread'[t].freed = 1 /\ ~(t >= nextThread')
    <3>1. nextThread \in Nat /\ t \in Nat
      BY <1>2 DEF Threads, TInv, ETypeOK
    <3> QED BY <1>1, <1>2, <1>3, <2>1, <2>2, <3>1
  <2> QED BY <2>3, <2>4, <2>5 DEF Frees
<1>5. CASE StopThread(u)
  <2>1. thread'[t].freed = 0 /\ \A j \in Threads \ {t} : thread'[j] = thread[j]
    BY <1>2, <1>3, <1>5 DEF StopThread, SetThread, ThreadRecord
  <2>2. \A j \in Threads \ {t} : thread'[j] = thread[j] /\ task'[j] = task[j]
    BY <1>1, <2>1
  <2>3. \A i \in Threads : i # adapter'.thread /\ (i >= nextThread' => i >= nextThread /\ i # t)
    <3>1. nextThread \in Nat /\ t \in Nat
      BY <1>2 DEF Threads, TInv, ETypeOK
    <3> QED BY <1>1, <1>2, <1>3, <3>1 DEF Threads
  <2>4. thread'[t].freed = 0 /\ ~(t >= nextThread')
    <3>1. nextThread \in Nat /\ t \in Nat
      BY <1>2 DEF Threads, TInv, ETypeOK
    <3> QED BY <1>1, <1>2, <2>1, <3>1
  <2> QED BY <2>2, <2>3, <2>4 DEF Frees
<1> QED BY <1>4, <1>5

LEMMA FreesInductive == ASSUME FreedKeeps PROVE TInv /\ LInv /\ Frees /\ [ENext]_<<vars, evars>> => Frees'
<1> SUFFICES ASSUME TInv, LInv, Frees, [ENext]_<<vars, evars>> PROVE Frees'
  OBVIOUS
<1>1. ASSUME NEW u \in Users, NEW l \in Listeners, Unregister(u, l) PROVE Frees'
  BY <1>1, FreesKept DEF Unregister, TInv, ETypeOK, AdapterRecord
<1>2. ASSUME NEW u \in Users, UserContinues(u) PROVE Frees'
  <2>1. CASE FreeThread(u) \/ StopThread(u)
    BY <2>1, GiveUpFrees
  <2>2. CASE ~(FreeThread(u) \/ StopThread(u))
    <3> DEFINE t == adapter.thread
    <3>1. /\ adapter'.thread = t /\ UNCHANGED nextThread /\ user[u].pc # "idle"
      BY <1>2, <2>2 DEF UserContinues, RegisterDone, ThreadStart, Destroy, ClearPointers, ExitIoctl, WaitOver,
                        CheckExited, TInv, ETypeOK, AdapterRecord
    <3>2. t \in Threads /\ thread[t] \in ThreadRecord /\ thread \in [Threads -> ThreadRecord]
      BY <3>1, InUseThread
    <3>3. \A i \in Threads : thread'[i].freed = thread[i].freed /\ thread'[i].shouldStop = thread[i].shouldStop
      <4>1. CASE UNCHANGED thread
        BY <4>1
      <4>2. CASE ThreadStart(u)
        BY <3>2, <4>2 DEF ThreadStart, SetThread, ThreadRecord
      <4>3. CASE ClearPointers(u)
        BY <3>2, <4>3 DEF ClearPointers, SetThread, ThreadRecord
      <4>4. CASE ExitIoctl(u)
        BY <3>2, <4>4 DEF ExitIoctl, SetThread, ThreadRecord
      <4> QED BY <1>2, <2>2, <4>1, <4>2, <4>3, <4>4 DEF UserContinues, RegisterDone, Destroy, WaitOver, CheckExited
    <3>4. \A i \in Threads \ {t} : task'[i] = task[i]
      BY <1>2, <2>2 DEF UserContinues, RegisterDone, ThreadStart, Destroy, ClearPointers, ExitIoctl, WaitOver,
                        CheckExited, TInv, ETypeOK
    <3> QED BY <3>1, <3>3, <3>4, FreesKept
  <2> QED BY <2>1, <2>2
<1>3. CASE UNCHANGED evars
  BY <1>3, FreesKept DEF evars
<1> QED BY <1>1, <1>2, <1>3, RegisterFrees, TaskStepFrees DEF ENext, DriverSends, DriverContinues

(* The struct of a listener thread is freed at most once, by the call that  *)
(* has seen it exit (HdfDevListenerThreadDestroy) or by the thread itself   *)
(* (HdfDevEventListenTask), as long as freed memory keeps what it held: the *)
(* thread reads shouldStop after it has given the struct up.                *)
THEOREM StructFreedOnce ==
    ASSUME FreedKeeps
    PROVE  ESpec => []FreedOnce
<1>1. Frees => FreedOnce
  BY DEF Frees, FreedOnce
<1> QED BY <1>1, ListenInit, ListenInductive, FreesInductive, PTL DEF ESpec

-----------------------------------------------------------------------------
(* The order in which listeners are called.                                 *)

\* Only the thread in use reads and dispatches.
LEMMA OneDispatches ==
    ASSUME Settled, TInv, LInv, NEW i \in Threads,
           task[i].pc = "dispatch" \/ (task[i].pc = "read" /\ thread[i].bound)
    PROVE  i = adapter.thread
<1>1. thread[i].status = "RUNNING" /\ thread[i].bound
  BY DEF LInv, Running, Bound, TInv, ETypeOK, ThreadRecord, AtOrAfterStarted
<1> QED BY <1>1 DEF LInv, Bound

\* Every other step leaves what was read and dispatched alone.
LEMMA DispatchesKept ==
    ASSUME Dispatches, log' = log, lastRead'[fd] = lastRead[fd],
           \A i \in Threads : task'[i].pc = "dispatch" => task[i].pc = "dispatch" /\ task'[i].event = task[i].event
    PROVE  Dispatches'
BY DEF Dispatches, DispatchedInOrder

LEMMA ReadEventDispatches ==
    ASSUME Settled, TInv, LInv, Dispatches, NEW i \in Threads, ReadEvent(i)
    PROVE  Dispatches'
<1> DEFINE q == client[fd].eventQueue
<1>1. /\ task[i].pc = "read" /\ thread[i].bound /\ log' = log /\ q # <<>> /\ lastRead'[fd] = Head(q)
      /\ task' = [task EXCEPT ![i].pc = "dispatch", ![i].event = Head(q)]
  BY DEF ReadEvent, ReadDevEvent, TInv, ETypeOK, TypeOK
<1>2. task \in [Threads -> TaskRecord] /\ lastRead[fd] \in Nat /\ q \in Seq(Events)
  BY BoundsAssumption DEF TInv, ETypeOK, TypeOK, ClientRecord
<1>3. PICK e \in Events : e = Head(q)
  BY <1>1, <1>2, HeadTailProperties
<1>4. lastRead[fd] < e
  <2>1. Len(q) \in Nat \ {0} /\ DOMAIN q = 1..Len(q) /\ Head(q) = q[1]
    BY <1>1, <1>2, EmptySeq, LenProperties, HeadTailProperties
  <2>2. QueueOK(client[fd], lastRead[fd], Newest(fd))
    BY DEF TInv, IInv, QueuesOK
  <2> QED BY <1>3, <2>1, <2>2 DEF QueueOK
<1>5. /\ task'[i].pc = "dispatch" /\ task'[i].event = e /\ \A j \in Threads \ {i} : task'[j] = task[j]
  <2>1. task' = [task EXCEPT ![i].pc = "dispatch", ![i].event = e]
    BY <1>1, <1>3
  <2> QED BY ONLY <1>2, <2>1 DEF TaskRecord
<1>6. \A j \in Threads \ {i} : task[j].pc # "dispatch"
  BY <1>1, OneDispatches
<1>7. \A k \in DOMAIN log : log[k] \in Int /\ log[k] <= lastRead[fd]
  <2>1. log \in Seq(Events) /\ Events \subseteq Int
    BY BoundsAssumption DEF TInv, ETypeOK, Events
  <2> QED BY <2>1, ElementOfSeq, LenProperties DEF Dispatches
<1>8. \A k \in DOMAIN log : log[k] < e /\ log[k] <= e
  BY <1>2, <1>3, <1>4, <1>7 DEF Events
<1>9. log' = log /\ lastRead'[fd] = e /\ DispatchedInOrder'
  BY <1>1, <1>3 DEF Dispatches, DispatchedInOrder
<1>10. \A j \in Threads : task'[j].pc = "dispatch" => j = i
  BY <1>5, <1>6
<1> QED BY <1>5, <1>8, <1>9, <1>10 DEF Dispatches

LEMMA DispatchDispatches ==
    ASSUME Settled, TInv, LInv, Dispatches, NEW i \in Threads, Dispatch(i)
    PROVE  Dispatches'
<1> DEFINE e == task[i].event
<1>1. task[i].pc = "dispatch" /\ log' = Append(log, e) /\ TaskGoto(i, "loop") /\ lastRead' = lastRead
  BY DEF Dispatch, vars
<1>2. e = lastRead[fd] /\ \A k \in DOMAIN log : log[k] < e
  BY <1>1 DEF Dispatches
<1>3. e \in Events /\ log \in Seq(Events) /\ Events \subseteq Int
  <2>1. e \in 0..MaxEvents /\ e # 0
    BY <1>1 DEF TInv, ETypeOK, TaskRecord, LInv, Bound
  <2> QED BY <2>1, BoundsAssumption DEF Events, TInv, ETypeOK
<1>4. task'[i].pc = "loop" /\ \A j \in Threads \ {i} : task'[j] = task[j]
  BY <1>1, TaskMoves DEF TInv
<1>5. \A j \in Threads \ {i} : task[j].pc # "dispatch"
  BY <1>1, OneDispatches
<1> HIDE DEF e
<1>6. /\ Len(log) \in Nat /\ DOMAIN log = 1..Len(log) /\ DOMAIN log' = 1..(Len(log) + 1)
      /\ log'[Len(log) + 1] = e /\ \A k \in DOMAIN log : log'[k] = log[k]
  BY <1>1, <1>3, AppendProperties, LenProperties
<1>7. DispatchedInOrder'
  <2> SUFFICES ASSUME NEW j \in 1..(Len(log) + 1), NEW k \in 1..(Len(log) + 1), j < k PROVE log'[j] < log'[k]
    BY <1>6 DEF DispatchedInOrder
  <2>1. j \in DOMAIN log /\ log'[j] = log[j]
    BY <1>6
  <2>2. CASE k = Len(log) + 1
    BY <1>2, <1>6, <2>1, <2>2
  <2>3. CASE k # Len(log) + 1
    <3>1. k \in DOMAIN log /\ log'[k] = log[k]
      BY <1>6, <2>3
    <3> QED BY <2>1, <3>1 DEF Dispatches, DispatchedInOrder
  <2> QED BY <2>2, <2>3
<1>8. \A k \in 1..(Len(log) + 1) : log'[k] <= e
  <2> SUFFICES ASSUME NEW k \in 1..(Len(log) + 1) PROVE log'[k] <= e
    OBVIOUS
  <2>1. CASE k = Len(log) + 1
    BY <1>3, <1>6, <2>1
  <2>2. CASE k # Len(log) + 1
    <3>1. k \in DOMAIN log /\ log'[k] = log[k]
      BY <1>6, <2>2
    <3>2. log[k] \in Int
      BY <1>3, <3>1, ElementOfSeq, LenProperties
    <3> QED BY <1>2, <1>3, <3>1, <3>2
  <2> QED BY <2>1, <2>2
<1> QED BY <1>1, <1>2, <1>4, <1>5, <1>6, <1>7, <1>8 DEF Dispatches

LEMMA DispatchesInductive ==
    ASSUME Settled
    PROVE  TInv /\ LInv /\ Dispatches /\ [ENext]_<<vars, evars>> => Dispatches'
<1> SUFFICES ASSUME TInv, LInv, Dispatches, [ENext]_<<vars, evars>> PROVE Dispatches'
  OBVIOUS
<1>1. ASSUME NEW u \in Users, NEW l \in Listeners, Register(u, l) \/ Unregister(u, l) PROVE Dispatches'
  BY <1>1, DispatchesKept DEF Register, Unregister, vars
<1>2. ASSUME NEW u \in Users, UserContinues(u) PROVE Dispatches'
  <2>1. log' = log /\ lastRead' = lastRead
    BY <1>2 DEF UserContinues, RegisterDone, ThreadStart, Destroy, ClearPointers, ExitIoctl, WaitOver, CheckExited,
                FreeThread, StopThread, StartListening, StopListening, vars
  <2>2. CASE ~ThreadStart(u)
    <3>1. task' = task
      BY <1>2, <2>2 DEF UserContinues, RegisterDone, Destroy, ClearPointers, ExitIoctl, WaitOver, CheckExited,
                        FreeThread, StopThread
    <3> QED BY <2>1, <3>1, DispatchesKept
  <2>3. CASE ThreadStart(u)
    <3>1. /\ task' = [task EXCEPT ![adapter.thread] = [pc |-> "start", fds |-> FALSE, event |-> 0]]
          /\ adapter.thread \in Threads
      BY <2>3, InUseThread DEF ThreadStart
    <3>2. task'[adapter.thread].pc = "start" /\ \A j \in Threads \ {adapter.thread} : task'[j] = task[j]
      BY <3>1 DEF TInv, ETypeOK
    <3> QED BY <2>1, <3>2, DispatchesKept
  <2> QED BY <2>2, <2>3
<1>3. ASSUME NEW i \in Threads, TaskStep(i), ~ReadEvent(i), ~Dispatch(i) PROVE Dispatches'
  <2>1. log' = log /\ lastRead' = lastRead
    BY <1>3 DEF TaskStep, TaskStart, TaskLoop, AssignPfds, TaskPoll, ReadNothing, ReadFailure, TaskExit, TaskLast, Poll, vars
  <2>2. task'[i].pc # "dispatch" /\ \A j \in Threads \ {i} : task'[j] = task[j]
    <3>1. CASE AssignPfds(i)
      BY <3>1 DEF AssignPfds, TInv, ETypeOK, TaskRecord
    <3>2. CASE ~AssignPfds(i)
      <4>1. \E label \in {"none", "loop", "assign", "poll", "read", "exit", "last"} : TaskGoto(i, label)
        BY <1>3, <3>2 DEF TaskStep, TaskStart, TaskLoop, TaskPoll, ReadNothing, ReadFailure, TaskExit, TaskLast
      <4> QED BY <4>1, TaskMoves DEF TInv
    <3> QED BY <3>1, <3>2
  <2> QED BY <2>1, <2>2, DispatchesKept
<1>4. CASE DriverSends \/ DriverContinues \/ UNCHANGED <<vars, evars>>
  <2>1. UNCHANGED <<log, task, lastRead>>
    BY <1>4 DEF DriverSends, DriverContinues, Send, SendToClient, evars, vars
  <2> QED BY <2>1, DispatchesKept
<1> QED BY <1>1, <1>2, <1>3, <1>4, ReadEventDispatches, DispatchDispatches DEF ENext

(* Listeners are called in the order in which the driver sent the events,   *)
(* across the end of one listener thread and the start of the next, when    *)
(* the last listener leaves only a thread that is running: then             *)
(* HdfDevListenerThreadDestroy takes the service object from the thread     *)
(* before another one is made.                                              *)
THEOREM ListenersInOrder ==
    ASSUME Settled
    PROVE  ESpec => []DispatchedInOrder
<1>1. Dispatches => DispatchedInOrder
  BY DEF Dispatches
<1> QED BY <1>1, ListenInit, ListenInductive, DispatchesInductive, PTL DEF ESpec

=============================================================================
