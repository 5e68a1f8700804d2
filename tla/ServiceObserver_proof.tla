----------------------- MODULE ServiceObserver_proof -----------------------
(***************************************************************************)
(* Theorems about ServiceObserver, for any subscribers and publishers,     *)
(* whatever their devices.                                                 *)
(***************************************************************************)
EXTENDS ServiceObserver, SequenceTheorems, TLAPS

\* A call that is past its search has a record.
HasRecord ==
    \A c \in Calls :
        pc[c] \in {"check", "join", "set", "notify", "done"} => rec[c] \in 1..Len(records)

\* A subscriber is on the record it found or added, once its call has ended.
OnItsRecord ==
    \A i \in 1..Len(records), s \in Subscribers :
        s \in records[i].subscribers <=> pc[s] = "done" /\ rec[s] = i

\* The publishers that have published, each once.
PublishedOnce ==
    /\ IsInjective(published)
    /\ \A p \in Publishers : p \in Range(published) <=> pc[p] \in {"notify", "done"}

\* A record's publisher has published.
PublisherKnown ==
    \A i \in 1..Len(records) : records[i].publisher # None => records[i].publisher \in Range(published)

\* A publisher that is about to notify has put a service on its record.
NotifiesService ==
    \A p \in Publishers : pc[p] = "notify" => records[rec[p]].publisher # None

\* What a subscriber was given is no newer than the publisher of its record.
NotNewer ==
    \A s \in Subscribers : \A i \in DOMAIN delivered[s] :
        /\ pc[s] \in {"join", "done"}
        /\ records[rec[s]].publisher # None
        /\ delivered[s][i] \in Range(published)
        /\ Position(delivered[s][i]) <= Position(records[rec[s]].publisher)

IInv ==
    /\ TypeOK /\ HasRecord /\ OnItsRecord /\ PublishedOnce /\ PublisherKnown /\ NotifiesService
    /\ NotNewer /\ DeliveredInOrder

-----------------------------------------------------------------------------
(* Positions in the history of publications.                                *)
LEMMA PositionIs ==
    ASSUME published \in Seq(Publishers), IsInjective(published), NEW p \in Range(published)
    PROVE  /\ Position(p) \in 1..Len(published) /\ published[Position(p)] = p
           /\ \A i \in 1..Len(published) : published[i] = p => i = Position(p)
BY DEF Position, Range, IsInjective

LEMMA PublishPosition ==
    ASSUME published \in Seq(Publishers), IsInjective(published), NEW p \in Publishers,
           p \notin Range(published), published' = Append(published, p)
    PROVE  /\ published' \in Seq(Publishers) /\ IsInjective(published')
           /\ Range(published') = Range(published) \cup {p}
           /\ \A q \in Range(published) : Position(q)' = Position(q) /\ Position(q) < Position(p)'
           /\ Position(p)' = Len(published) + 1
<1>1. /\ published' \in Seq(Publishers) /\ Len(published') = Len(published) + 1
      /\ \A i \in 1..Len(published) : published'[i] = published[i]
      /\ published'[Len(published) + 1] = p
  BY AppendProperties
<1>2. Len(published) \in Nat /\ DOMAIN published = 1..Len(published) /\ DOMAIN published' = 1..(Len(published) + 1)
  BY <1>1, LenProperties
<1>3. \A i \in 1..Len(published) : published[i] # p
  BY <1>2 DEF Range
<1>4. IsInjective(published')
  BY <1>1, <1>2, <1>3 DEF IsInjective
<1>5. Range(published') = Range(published) \cup {p}
  BY <1>1, <1>2 DEF Range
<1>6. \A q \in Range(published) : Position(q) \in 1..Len(published) /\ published[Position(q)] = q
  BY PositionIs
<1>7. \A q \in Range(published') : \A i \in DOMAIN published' : published'[i] = q => i = Position(q)'
  <2> TAKE q \in Range(published')
  <2>1. \E i \in DOMAIN published' : published'[i] = q
    BY DEF Range
  <2> QED BY <2>1, <1>4 DEF Position, IsInjective
<1> QED BY <1>1, <1>2, <1>4, <1>5, <1>6, <1>7

-----------------------------------------------------------------------------
(* What the three changes of the list of records leave as it was.           *)
LEMMA RecordAppended ==
    ASSUME records \in Seq(Record), NEW r \in Record, records' = Append(records, r)
    PROVE  /\ records' \in Seq(Record) /\ Len(records') = Len(records) + 1 /\ Len(records) \in Nat
           /\ records'[Len(records) + 1] = r
           /\ \A i \in 1..Len(records) : records'[i] = records[i]
BY AppendProperties, LenProperties

LEMMA RecordReplaced ==
    ASSUME records \in Seq(Record), NEW k \in 1..Len(records), NEW r \in Record,
           NEW new, new = [records EXCEPT ![k] = r]
    PROVE  /\ new \in Seq(Record) /\ Len(new) = Len(records)
           /\ \A i \in 1..Len(records) : new[i] = (IF i = k THEN r ELSE records[i])
BY ExceptSeq

LEMMA RecordJoined ==
    ASSUME records \in Seq(Record), NEW k \in 1..Len(records), NEW s \in Subscribers,
           records' = [records EXCEPT ![k].subscribers = @ \cup {s}]
    PROVE  /\ records' \in Seq(Record) /\ Len(records') = Len(records) /\ Len(records) \in Nat
           /\ \A i \in 1..Len(records) :
                 /\ records'[i].publisher = records[i].publisher
                 /\ records'[i].private = records[i].private
                 /\ records'[i].subscribers =
                       (IF i = k THEN records[i].subscribers \cup {s} ELSE records[i].subscribers)
<1>1. records[k] \in Record /\ Len(records) \in Nat
  BY ElementOfSeq, LenProperties
<1> DEFINE new == [records[k] EXCEPT !.subscribers = @ \cup {s}]
<1>2. /\ new \in Record
      /\ new.publisher = records[k].publisher /\ new.private = records[k].private
      /\ new.subscribers = records[k].subscribers \cup {s}
  BY <1>1 DEF Record
<1>3. records' = [records EXCEPT ![k] = new]
  OBVIOUS
<1> HIDE DEF new
<1>4. /\ records' \in Seq(Record) /\ Len(records') = Len(records)
      /\ \A i \in 1..Len(records) : records'[i] = (IF i = k THEN new ELSE records[i])
  BY ONLY records \in Seq(Record), k \in 1..Len(records), <1>2, <1>3, RecordReplaced
<1> QED BY ONLY k \in 1..Len(records), <1>1, <1>2, <1>4

LEMMA RecordPublished ==
    ASSUME records \in Seq(Record), NEW k \in 1..Len(records), NEW p \in Publishers,
           records' = [records EXCEPT ![k].publisher = p]
    PROVE  /\ records' \in Seq(Record) /\ Len(records') = Len(records) /\ Len(records) \in Nat
           /\ \A i \in 1..Len(records) :
                 /\ records'[i].publisher = (IF i = k THEN p ELSE records[i].publisher)
                 /\ records'[i].private = records[i].private
                 /\ records'[i].subscribers = records[i].subscribers
<1>1. records[k] \in Record /\ Len(records) \in Nat
  BY ElementOfSeq, LenProperties
<1> DEFINE new == [records[k] EXCEPT !.publisher = p]
<1>2. /\ new \in Record
      /\ new.publisher = p /\ new.private = records[k].private
      /\ new.subscribers = records[k].subscribers
  BY <1>1 DEF Record
<1>3. records' = [records EXCEPT ![k] = new]
  OBVIOUS
<1> HIDE DEF new
<1>4. /\ records' \in Seq(Record) /\ Len(records') = Len(records)
      /\ \A i \in 1..Len(records) : records'[i] = (IF i = k THEN new ELSE records[i])
  BY ONLY records \in Seq(Record), k \in 1..Len(records), <1>2, <1>3, RecordReplaced
<1> QED BY ONLY k \in 1..Len(records), <1>1, <1>2, <1>4

\* A step that calls nobody back and publishes nothing.
LEMMA GivenKept ==
    ASSUME NotNewer, DeliveredInOrder, published' = published, delivered' = delivered,
           \A s \in Subscribers : DOMAIN delivered[s] # {} =>
               /\ pc'[s] \in {"join", "done"}
               /\ records'[rec'[s]].publisher = records[rec[s]].publisher
    PROVE  NotNewer' /\ DeliveredInOrder'
<1>1. DeliveredInOrder'
  BY DEF DeliveredInOrder, Position
<1>2. ASSUME NEW s \in Subscribers, DOMAIN delivered[s] # {}
      PROVE  Position(records[rec[s]].publisher)' = Position(records[rec[s]].publisher)
  BY <1>2 DEF Position
<1>3. NotNewer'
  <2> SUFFICES ASSUME NEW s \in Subscribers, NEW i \in DOMAIN delivered[s]
               PROVE  (/\ pc[s] \in {"join", "done"}
                       /\ records[rec[s]].publisher # None
                       /\ delivered[s][i] \in Range(published)
                       /\ Position(delivered[s][i]) <= Position(records[rec[s]].publisher))'
    BY DEF NotNewer
  <2>1. Position(delivered[s][i])' = Position(delivered[s][i])
    BY DEF Position
  <2> QED BY <1>2, <2>1 DEF NotNewer
<1> QED BY <1>1, <1>3

\* A step that publishes and calls nobody back.
LEMMA GivenThenPublished ==
    ASSUME TypeOK, HasRecord, PublishedOnce, PublisherKnown, NotNewer, DeliveredInOrder,
           NEW p \in Publishers, p \notin Range(published), published' = Append(published, p),
           delivered' = delivered,
           \A s \in Subscribers : DOMAIN delivered[s] # {} =>
               /\ pc'[s] = pc[s] /\ rec'[s] = rec[s]
               /\ records'[rec[s]].publisher \in {p, records[rec[s]].publisher}
    PROVE  NotNewer' /\ DeliveredInOrder'
<1>1. /\ Range(published') = Range(published) \cup {p}
      /\ \A q \in Range(published) : Position(q)' = Position(q) /\ Position(q) < Position(p)'
  BY PublishPosition DEF TypeOK, PublishedOnce
<1>2. \A q \in Range(published) : Position(q) \in Nat
  BY PositionIs DEF TypeOK, PublishedOnce
<1>3. Position(p)' \in Nat
  <2>1. /\ Position(p)' = Len(published) + 1
    BY PublishPosition DEF TypeOK, PublishedOnce
  <2> QED BY <2>1, LenProperties DEF TypeOK
<1>4. ASSUME NEW s \in Subscribers, NEW i \in DOMAIN delivered[s]
      PROVE  Position(delivered[s][i])' = Position(delivered[s][i])
  <2> DEFINE q == delivered[s][i]
  <2>1. q \in Range(published) /\ q' = q
    BY DEF NotNewer
  <2>2. Position(q)' = Position(q)
    BY <1>1, <2>1 DEF Position
  <2> QED BY <2>2
<1>5. DeliveredInOrder'
  BY <1>4 DEF DeliveredInOrder
<1>6. NotNewer'
  <2> SUFFICES ASSUME NEW s \in Subscribers, NEW i \in DOMAIN delivered[s]
               PROVE  (/\ pc[s] \in {"join", "done"}
                       /\ records[rec[s]].publisher # None
                       /\ delivered[s][i] \in Range(published)
                       /\ Position(delivered[s][i]) <= Position(records[rec[s]].publisher))'
    BY DEF NotNewer
  <2> DEFINE g == delivered[s][i]
             r == records[rec[s]].publisher
  <2>1. /\ pc[s] \in {"join", "done"} /\ r # None /\ g \in Range(published) /\ Position(g) <= Position(r)
    BY DEF NotNewer
  <2>2. r \in Range(published) /\ r' \in {p, r} /\ pc'[s] = pc[s] /\ g' = g
    BY <2>1 DEF PublisherKnown, HasRecord, Calls
  <2>3. Position(g)' = Position(g)
    BY <1>4
  <2>4. r' # None /\ Position(g)' <= Position(r)'
    <3>1. CASE r' = p
      <4>1. Position(r)' = Position(p)'
        BY <3>1 DEF Position
      <4> QED BY <1>1, <1>2, <1>3, <2>1, <2>3, <3>1, <4>1, NoneAssumption
    <3>2. CASE r' = r
      <4>1. Position(r)' = Position(r)
        BY <1>1, <2>2, <3>2 DEF Position
      <4> QED BY <2>1, <2>3, <3>2, <4>1
    <3> QED BY <2>2, <3>1, <3>2
  <2> QED BY <1>1, <2>1, <2>2, <2>4
<1> QED BY <1>5, <1>6

\* A step that calls subscribers back with the publisher of their record.
LEMMA GivenMore ==
    ASSUME TypeOK, PublishedOnce, PublisherKnown, NotNewer, DeliveredInOrder,
           UNCHANGED <<records, rec, published>>,
           \A s \in Subscribers :
               \/ /\ delivered'[s] = delivered[s]
                  /\ DOMAIN delivered[s] # {} => pc'[s] \in {"join", "done"}
               \/ /\ delivered'[s] = Append(delivered[s], records[rec[s]].publisher)
                  /\ pc'[s] \in {"join", "done"} /\ rec[s] \in 1..Len(records)
                  /\ records[rec[s]].publisher # None
    PROVE  NotNewer' /\ DeliveredInOrder'
<1>1. \A q \in Range(published) : Position(q) \in Nat
  BY PositionIs DEF TypeOK, PublishedOnce
<1>2. ASSUME NEW s \in Subscribers
      PROVE  (/\ \A i \in DOMAIN delivered[s] :
                    /\ pc[s] \in {"join", "done"}
                    /\ records[rec[s]].publisher # None
                    /\ delivered[s][i] \in Range(published)
                    /\ Position(delivered[s][i]) <= Position(records[rec[s]].publisher)
              /\ \A i, j \in DOMAIN delivered[s] :
                    i < j => Position(delivered[s][i]) <= Position(delivered[s][j]))'
  <2> DEFINE r == records[rec[s]].publisher
             d == delivered[s]
             P(x) == Position(x)
  <2>1. /\ \A i \in DOMAIN d : /\ pc[s] \in {"join", "done"} /\ r # None
                               /\ d[i] \in Range(published) /\ P(d[i]) <= P(r)
        /\ \A i, j \in DOMAIN d : i < j => P(d[i]) <= P(d[j])
    BY DEF NotNewer, DeliveredInOrder
  <2>2. r' = r /\ d \in Seq(Publishers) /\ published' = published
    BY DEF TypeOK
  <2>3. \A x : Position(x)' = P(x)
    BY <2>2 DEF Position
  <2>4. \A i \in DOMAIN d' : P(d'[i]) = Position(d[i])'
    BY <2>2 DEF Position
  <2>5. P(r) = Position(r)'
    BY <2>2 DEF Position
  <2>6. CASE d' = d /\ (DOMAIN d # {} => pc'[s] \in {"join", "done"})
    <3>1. \A i \in DOMAIN d' : pc'[s] \in {"join", "done"} /\ r # None /\ d'[i] \in Range(published) /\ P(d'[i]) <= P(r)
      BY <2>1, <2>6
    <3>2. \A i, j \in DOMAIN d' : i < j => P(d'[i]) <= P(d'[j])
      BY <2>1, <2>6
    <3> QED BY <2>2, <2>4, <2>5, <3>1, <3>2
  <2>7. CASE /\ d' = Append(d, r) /\ pc'[s] \in {"join", "done"} /\ rec[s] \in 1..Len(records) /\ r # None
    <3>1. r \in Range(published) /\ P(r) \in Nat
      BY <1>1, <2>7 DEF PublisherKnown
    <3>2. /\ Len(d) \in Nat /\ DOMAIN d = 1..Len(d) /\ DOMAIN d' = 1..(Len(d) + 1)
          /\ d'[Len(d) + 1] = r /\ \A i \in 1..Len(d) : d'[i] = d[i]
      <4>1. r \in Publishers
        BY <2>2, <3>1 DEF TypeOK, Range
      <4>2. d' \in Seq(Publishers) /\ Len(d') = Len(d) + 1 /\ \A i \in 1..Len(d') : d'[i] = IF i = Len(d) + 1 THEN r ELSE d[i]
        BY <2>2, <2>7, <4>1, AppendProperties
      <4> QED BY <2>2, <4>2, LenProperties
    <3>3. \A i \in DOMAIN d' : pc'[s] \in {"join", "done"} /\ r # None /\ d'[i] \in Range(published) /\ P(d'[i]) <= P(r)
      <4> HIDE DEF P, d, r
      <4> QED BY <2>1, <2>7, <3>1, <3>2
    <3>4. \A i, j \in DOMAIN d' : i < j => P(d'[i]) <= P(d'[j])
      <4> HIDE DEF P, d, r
      <4> QED BY <2>1, <3>2, <3>3
    <3> QED BY <2>2, <2>4, <2>5, <3>3, <3>4
  <2> QED BY <2>6, <2>7
<1> QED BY <1>2 DEF NotNewer, DeliveredInOrder

-----------------------------------------------------------------------------
(* Every action keeps the invariant.                                        *)
LEMMA SearchKeeps ==
    ASSUME IInv, NEW c \in Calls, Search(c)
    PROVE  IInv'
<1> USE DEF IInv, Search, Goto
<1>1. Len(records) \in Nat /\ (records # <<>> => Len(records) > 0)
  BY EmptySeq, LenProperties DEF TypeOK
<1>2. TypeOK'
  BY <1>1 DEF TypeOK, Calls
<1>3. pc'[c] \in {"add", "set", "check"} /\ \A d \in Calls \ {c} : pc'[d] = pc[d] /\ rec'[d] = rec[d]
  BY DEF TypeOK
<1>4. HasRecord'
  BY <1>1, <1>3 DEF TypeOK, HasRecord
<1>5. OnItsRecord'
  BY <1>3 DEF OnItsRecord, Calls
<1>6. PublishedOnce' /\ PublisherKnown' /\ NotifiesService'
  BY <1>3 DEF PublishedOnce, PublisherKnown, NotifiesService, HasRecord, Calls
<1>7. NotNewer' /\ DeliveredInOrder'
  <2>1. \A s \in Subscribers : DOMAIN delivered[s] # {} => s # c /\ pc[s] \in {"join", "done"}
    BY DEF NotNewer
  <2> QED BY <1>3, <2>1, GivenKept DEF Calls
<1> QED BY <1>2, <1>4, <1>5, <1>6, <1>7

LEMMA AddEmptyRecordKeeps ==
    ASSUME IInv, NEW s \in Subscribers, AddEmptyRecord(s)
    PROVE  IInv'
<1> USE DEF IInv, AddEmptyRecord, Goto
<1>1. Fresh \in Record /\ Fresh.publisher = None /\ Fresh.subscribers = {}
  BY DEF Fresh, Record
<1>2. /\ records' \in Seq(Record) /\ Len(records') = Len(records) + 1 /\ Len(records) \in Nat
      /\ records'[Len(records) + 1] = Fresh
      /\ \A i \in 1..Len(records) : records'[i] = records[i]
  BY <1>1, RecordAppended DEF TypeOK
<1>3. /\ pc'[s] = "check" /\ rec'[s] = Len(records) + 1 /\ s \in Calls /\ s \notin Publishers
      /\ \A d \in Calls \ {s} : pc'[d] = pc[d] /\ rec'[d] = rec[d]
  BY <1>2, CallsAssumption DEF TypeOK, Calls
<1>4. TypeOK'
  BY <1>2, <1>3 DEF TypeOK, Calls
<1>5. HasRecord'
  BY <1>2, <1>3 DEF HasRecord
<1>6. OnItsRecord'
  <2> SUFFICES ASSUME NEW i \in 1..(Len(records) + 1), NEW t \in Subscribers
               PROVE  t \in records'[i].subscribers <=> pc'[t] = "done" /\ rec'[t] = i
    BY <1>2 DEF OnItsRecord
  <2>1. t \in Calls
    BY DEF Calls
  <2>2. CASE i = Len(records) + 1
    BY <1>1, <1>2, <1>3, <2>1, <2>2 DEF HasRecord
  <2>3. CASE i \in 1..Len(records)
    BY <1>2, <1>3, <2>1, <2>3 DEF OnItsRecord
  <2> QED BY <1>2, <2>2, <2>3
<1>7. PublishedOnce' /\ PublisherKnown' /\ NotifiesService'
  BY <1>1, <1>2, <1>3 DEF PublishedOnce, PublisherKnown, NotifiesService, HasRecord, Calls
<1>8. NotNewer' /\ DeliveredInOrder'
  <2>1. \A t \in Subscribers : DOMAIN delivered[t] # {} =>
            t # s /\ pc[t] \in {"join", "done"} /\ rec[t] \in 1..Len(records)
    BY DEF NotNewer, HasRecord, Calls
  <2> QED BY <1>2, <1>3, <2>1, GivenKept DEF Calls
<1> QED BY <1>4, <1>5, <1>6, <1>7, <1>8

LEMMA AddOwnRecordKeeps ==
    ASSUME IInv, NEW p \in Publishers, AddOwnRecord(p)
    PROVE  IInv'
<1> USE DEF IInv, AddOwnRecord, Goto
<1> DEFINE r == [publisher |-> p, devId |-> DeviceOf[p], private |-> Private, subscribers |-> {}]
<1>1. p \in Calls /\ p \notin Subscribers
  BY CallsAssumption DEF Calls
<1>2. r \in Record /\ r.publisher = p /\ r.subscribers = {}
  BY <1>1, CallsAssumption, PrivateAssumption DEF Record
<1> HIDE DEF r
<1>3. /\ records' \in Seq(Record) /\ Len(records') = Len(records) + 1 /\ Len(records) \in Nat
      /\ records'[Len(records) + 1] = r
      /\ \A i \in 1..Len(records) : records'[i] = records[i]
  <2>1. records' = Append(records, r)
    BY DEF r
  <2> QED BY <1>2, <2>1, RecordAppended DEF TypeOK
<1>4. /\ pc'[p] = "done" /\ rec'[p] = Len(records) + 1
      /\ \A d \in Calls \ {p} : pc'[d] = pc[d] /\ rec'[d] = rec[d]
  BY <1>1, <1>3 DEF TypeOK
<1>5. p \notin Range(published)
  BY DEF PublishedOnce
<1>6. published' \in Seq(Publishers) /\ IsInjective(published') /\ Range(published') = Range(published) \cup {p}
  BY <1>5, PublishPosition DEF TypeOK, PublishedOnce
<1>7. TypeOK'
  BY <1>1, <1>3, <1>4, <1>6 DEF TypeOK
<1>8. HasRecord'
  BY <1>3, <1>4 DEF HasRecord
<1>9. OnItsRecord'
  <2> SUFFICES ASSUME NEW i \in 1..(Len(records) + 1), NEW t \in Subscribers
               PROVE  t \in records'[i].subscribers <=> pc'[t] = "done" /\ rec'[t] = i
    BY <1>3 DEF OnItsRecord
  <2>1. t \in Calls /\ t # p
    BY <1>1 DEF Calls
  <2>2. CASE i = Len(records) + 1
    BY <1>2, <1>3, <1>4, <2>1, <2>2 DEF HasRecord
  <2>3. CASE i \in 1..Len(records)
    BY <1>3, <1>4, <2>1, <2>3 DEF OnItsRecord
  <2> QED BY <1>3, <2>2, <2>3
<1>10. PublishedOnce'
  BY <1>1, <1>4, <1>6 DEF PublishedOnce, Calls
<1>11. PublisherKnown'
  BY <1>2, <1>3, <1>6 DEF PublisherKnown
<1>12. NotifiesService'
  BY <1>3, <1>4 DEF NotifiesService, HasRecord, Calls
<1>13. NotNewer' /\ DeliveredInOrder'
  <2>1. \A t \in Subscribers : DOMAIN delivered[t] # {} => t # p /\ rec[t] \in 1..Len(records)
    BY <1>1 DEF NotNewer, HasRecord, Calls
  <2> QED BY <1>3, <1>4, <1>5, <2>1, GivenThenPublished DEF Calls
<1> QED BY <1>7, <1>8, <1>9, <1>10, <1>11, <1>12, <1>13

LEMMA SetPublisherKeeps ==
    ASSUME IInv, NEW p \in Publishers, SetPublisher(p)
    PROVE  IInv'
<1> USE DEF IInv, SetPublisher, Goto
<1>1. p \in Calls /\ p \notin Subscribers /\ rec[p] \in 1..Len(records)
  BY CallsAssumption DEF Calls, HasRecord
<1>2. /\ records' \in Seq(Record) /\ Len(records') = Len(records) /\ Len(records) \in Nat
      /\ \A i \in 1..Len(records) :
            /\ records'[i].publisher = (IF i = rec[p] THEN p ELSE records[i].publisher)
            /\ records'[i].subscribers = records[i].subscribers
  <2>1. records \in Seq(Record)
    BY DEF TypeOK
  <2>2. records' = [records EXCEPT ![rec[p]].publisher = p]
    OBVIOUS
  <2> QED BY ONLY <1>1, <2>1, <2>2, p \in Publishers, RecordPublished
<1>3. pc'[p] = "notify" /\ \A d \in Calls \ {p} : pc'[d] = pc[d]
  BY <1>1 DEF TypeOK
<1>4. p \notin Range(published)
  BY DEF PublishedOnce
<1>5. published' \in Seq(Publishers) /\ IsInjective(published') /\ Range(published') = Range(published) \cup {p}
  BY <1>4, PublishPosition DEF TypeOK, PublishedOnce
<1>6. TypeOK'
  BY <1>1, <1>2, <1>5 DEF TypeOK
<1>7. HasRecord'
  BY <1>1, <1>2, <1>3 DEF HasRecord
<1>8. OnItsRecord'
  BY <1>1, <1>2, <1>3 DEF OnItsRecord, Calls
<1>9. PublishedOnce'
  BY <1>1, <1>3, <1>5 DEF PublishedOnce, Calls
<1>10. PublisherKnown'
  BY <1>2, <1>5 DEF PublisherKnown
<1>11. NotifiesService'
  BY <1>1, <1>2, <1>3, NoneAssumption DEF NotifiesService, HasRecord, Calls
<1>12. NotNewer' /\ DeliveredInOrder'
  <2>1. \A t \in Subscribers : DOMAIN delivered[t] # {} => t # p /\ rec[t] \in 1..Len(records)
    BY <1>1 DEF NotNewer, HasRecord, Calls
  <2> QED BY <1>2, <1>3, <1>4, <2>1, GivenThenPublished DEF Calls
<1> QED BY <1>6, <1>7, <1>8, <1>9, <1>10, <1>11, <1>12

LEMMA CheckPublisherKeeps ==
    ASSUME IInv, NEW s \in Subscribers, CheckPublisher(s)
    PROVE  IInv'
<1> USE DEF IInv, CheckPublisher, Goto
<1> DEFINE r == records[rec[s]]
<1>1. s \in Calls /\ s \notin Publishers /\ rec[s] \in 1..Len(records)
  BY CallsAssumption DEF Calls, HasRecord
<1>2. r \in Record /\ (r.publisher # None => r.publisher \in Publishers)
  <2>1. r \in Record
    BY <1>1, ElementOfSeq DEF TypeOK
  <2> QED BY <2>1 DEF Record
<1>3. pc'[s] = "join" /\ \A c \in Calls \ {s} : pc'[c] = pc[c]
  BY <1>1 DEF TypeOK
<1>4. \/ delivered' = delivered
      \/ delivered' = [delivered EXCEPT ![s] = Append(@, r.publisher)] /\ r.publisher # None
  BY DEF Called
<1>5. delivered' \in [Subscribers -> Seq(Publishers)]
  <2>1. r.publisher # None => Append(delivered[s], r.publisher) \in Seq(Publishers)
    BY <1>2, AppendProperties DEF TypeOK
  <2> QED BY <1>4, <2>1 DEF TypeOK
<1>6. TypeOK'
  BY <1>5 DEF TypeOK
<1>7. HasRecord' /\ OnItsRecord'
  BY <1>1, <1>3 DEF HasRecord, OnItsRecord, Calls
<1>8. PublishedOnce' /\ PublisherKnown' /\ NotifiesService'
  BY <1>1, <1>3 DEF PublishedOnce, PublisherKnown, NotifiesService, HasRecord, Calls
<1>9. NotNewer' /\ DeliveredInOrder'
  <2>1. \A t \in Subscribers : DOMAIN delivered[t] # {} => pc'[t] \in {"join", "done"}
    BY <1>3 DEF NotNewer, Calls
  <2>2. \A t \in Subscribers :
           \/ delivered'[t] = delivered[t]
           \/ t = s /\ delivered'[t] = Append(delivered[t], r.publisher) /\ r.publisher # None
    BY <1>4 DEF TypeOK
  <2> QED BY <1>1, <1>3, <2>1, <2>2, GivenMore
<1> QED BY <1>6, <1>7, <1>8, <1>9

LEMMA NotifySubscribersKeeps ==
    ASSUME IInv, NEW p \in Publishers, NotifySubscribers(p)
    PROVE  IInv'
<1> USE DEF IInv, NotifySubscribers, Goto
<1> DEFINE r == records[rec[p]]
<1>1. p \in Calls /\ p \notin Subscribers /\ rec[p] \in 1..Len(records)
  BY CallsAssumption DEF Calls, HasRecord
<1>2. r \in Record /\ r.publisher # None /\ r.publisher \in Publishers
  <2>1. r \in Record
    BY <1>1, ElementOfSeq DEF TypeOK
  <2>2. r.publisher # None
    BY DEF NotifiesService
  <2> QED BY <2>1, <2>2 DEF Record
<1>3. pc'[p] = "done" /\ \A c \in Calls \ {p} : pc'[c] = pc[c]
  BY <1>1 DEF TypeOK
<1>4. \A t \in Subscribers :
         \/ delivered'[t] = delivered[t]
         \/ t \in r.subscribers /\ delivered'[t] = Append(delivered[t], r.publisher)
  OBVIOUS
<1>5. delivered' \in [Subscribers -> Seq(Publishers)]
  BY <1>2, AppendProperties DEF TypeOK
<1>6. TypeOK'
  BY <1>5 DEF TypeOK
<1>7. HasRecord' /\ OnItsRecord'
  BY <1>1, <1>3 DEF HasRecord, OnItsRecord, Calls
<1>8. PublishedOnce' /\ PublisherKnown' /\ NotifiesService'
  BY <1>1, <1>3 DEF PublishedOnce, PublisherKnown, NotifiesService, HasRecord, Calls
<1>9. NotNewer' /\ DeliveredInOrder'
  <2>1. \A t \in Subscribers : DOMAIN delivered[t] # {} => pc'[t] \in {"join", "done"}
    BY <1>1, <1>3 DEF NotNewer, Calls
  <2>2. \A t \in Subscribers : t \in r.subscribers => pc'[t] = "done" /\ rec[t] = rec[p]
    BY <1>1, <1>3 DEF OnItsRecord, Calls
  <2> QED BY <1>1, <1>2, <1>4, <2>1, <2>2, GivenMore
<1> QED BY <1>6, <1>7, <1>8, <1>9

LEMMA JoinRecordKeeps ==
    ASSUME IInv, NEW s \in Subscribers, JoinRecord(s)
    PROVE  IInv'
<1> USE DEF IInv, JoinRecord, Goto
<1>1. s \in Calls /\ s \notin Publishers /\ rec[s] \in 1..Len(records)
  BY CallsAssumption DEF Calls, HasRecord
<1>2. /\ records' \in Seq(Record) /\ Len(records') = Len(records) /\ Len(records) \in Nat
      /\ \A i \in 1..Len(records) :
            /\ records'[i].publisher = records[i].publisher
            /\ records'[i].subscribers =
                  (IF i = rec[s] THEN records[i].subscribers \cup {s} ELSE records[i].subscribers)
  <2>1. records \in Seq(Record)
    BY DEF TypeOK
  <2>2. records' = [records EXCEPT ![rec[s]].subscribers = @ \cup {s}]
    OBVIOUS
  <2> QED BY ONLY <1>1, <2>1, <2>2, s \in Subscribers, RecordJoined
<1>3. pc'[s] = "done" /\ \A d \in Calls \ {s} : pc'[d] = pc[d]
  BY <1>1 DEF TypeOK
<1>4. TypeOK'
  BY <1>2 DEF TypeOK
<1>5. HasRecord'
  BY <1>1, <1>2, <1>3 DEF HasRecord
<1>6. OnItsRecord'
  BY <1>1, <1>2, <1>3 DEF OnItsRecord, Calls
<1>7. PublishedOnce' /\ PublisherKnown' /\ NotifiesService'
  BY <1>1, <1>2, <1>3 DEF PublishedOnce, PublisherKnown, NotifiesService, HasRecord, Calls
<1>8. NotNewer' /\ DeliveredInOrder'
  <2>1. \A t \in Subscribers : DOMAIN delivered[t] # {} =>
            pc[t] \in {"join", "done"} /\ rec[t] \in 1..Len(records)
    BY DEF NotNewer, HasRecord, Calls
  <2> QED BY <1>2, <1>3, <2>1, GivenKept DEF Calls
<1> QED BY <1>4, <1>5, <1>6, <1>7, <1>8

LEMMA UnloadKeeps ==
    ASSUME IInv, NEW c \in Calls, Unload(c)
    PROVE  IInv'
<1>1. NotNewer' /\ DeliveredInOrder'
  <2>1. \A s \in Subscribers : DOMAIN delivered[s] # {} => pc[s] \in {"join", "done"}
    BY DEF IInv, NotNewer
  <2> QED BY <2>1, GivenKept DEF IInv, Unload
<1> QED BY <1>1 DEF IInv, Unload, TypeOK, HasRecord, OnItsRecord, PublishedOnce, PublisherKnown, NotifiesService

LEMMA StutterKeeps ==
    ASSUME IInv, UNCHANGED vars
    PROVE  IInv'
<1>1. NotNewer' /\ DeliveredInOrder'
  <2>1. \A s \in Subscribers : DOMAIN delivered[s] # {} => pc[s] \in {"join", "done"}
    BY DEF IInv, NotNewer
  <2> QED BY <2>1, GivenKept DEF IInv, vars
<1> QED BY <1>1 DEF IInv, vars, TypeOK, HasRecord, OnItsRecord, PublishedOnce, PublisherKnown, NotifiesService

-----------------------------------------------------------------------------
LEMMA InitHolds == Init => IInv
<1> SUFFICES ASSUME Init PROVE IInv
  OBVIOUS
<1> USE DEF Init
<1>1. Len(records) = 0 /\ records \in Seq(Record)
  BY EmptySeq
<1>2. published \in Seq(Publishers) /\ DOMAIN published = {} /\ DOMAIN published = 1..0
  BY EmptySeq
<1>3. delivered \in [Subscribers -> Seq(Publishers)] /\ \A s \in Subscribers : DOMAIN delivered[s] = {}
  BY EmptySeq
<1>4. TypeOK
  <2>1. rec \in [Calls -> 0..Len(records)]
    BY <1>1
  <2> QED BY <1>1, <1>2, <1>3, <2>1 DEF TypeOK
<1>5. HasRecord /\ OnItsRecord /\ PublisherKnown /\ NotifiesService
  BY <1>1 DEF HasRecord, OnItsRecord, PublisherKnown, NotifiesService, Calls
<1>6. PublishedOnce
  BY <1>2 DEF PublishedOnce, IsInjective, Range, Calls
<1>7. NotNewer /\ DeliveredInOrder
  BY <1>3 DEF NotNewer, DeliveredInOrder
<1> QED BY <1>4, <1>5, <1>6, <1>7 DEF IInv

LEMMA Inductive == IInv /\ [Next]_vars => IInv'
<1> SUFFICES ASSUME IInv, [Next]_vars PROVE IInv'
  OBVIOUS
<1>1. ASSUME NEW c \in Calls, Search(c) \/ Unload(c) PROVE IInv'
  BY <1>1, SearchKeeps, UnloadKeeps
<1>2. ASSUME NEW s \in Subscribers, AddEmptyRecord(s) \/ CheckPublisher(s) \/ JoinRecord(s) PROVE IInv'
  BY <1>2, AddEmptyRecordKeeps, CheckPublisherKeeps, JoinRecordKeeps
<1>3. ASSUME NEW p \in Publishers, AddOwnRecord(p) \/ SetPublisher(p) \/ NotifySubscribers(p) PROVE IInv'
  BY <1>3, AddOwnRecordKeeps, SetPublisherKeeps, NotifySubscribersKeeps
<1>4. CASE UNCHANGED vars
  BY <1>4, StutterKeeps
<1> QED BY <1>1, <1>2, <1>3, <1>4 DEF Next

(* Whatever calls race, the state of the observer is well formed.           *)
THEOREM TypeCorrect == Spec => []TypeOK
<1>1. IInv => TypeOK
  BY DEF IInv
<1> QED BY <1>1, InitHolds, Inductive, PTL DEF Spec

(* However subscribers and publishers race (hdf_service_observer.c), no     *)
(* subscriber is given an older service after a newer one.                  *)
THEOREM InOrder == Spec => []DeliveredInOrder
<1>1. IInv => DeliveredInOrder
  BY DEF IInv
<1> QED BY <1>1, InitHolds, Inductive, PTL DEF Spec

-----------------------------------------------------------------------------
(* What holds while calls have come one after the other.                    *)
OneCall == \A c, d \in InCall : c = d

\* One record at most: who is about to add one has seen that there is none.
OneRecord ==
    /\ Len(records) <= 1
    /\ \A c \in Calls : pc[c] = "add" => records = <<>>

\* The record's publisher is the one that published last.
PublisherCurrent ==
    Len(records) = 1 => records[1].publisher = IF published = <<>> THEN None ELSE Latest

\* What a publisher is about to notify is news to everybody.
NotifiesNews ==
    \A p \in Publishers : pc[p] = "notify" =>
        records[rec[p]].publisher = p /\ \A s \in Subscribers : p \notin Range(delivered[s])

GivenOnce == \A s \in Subscribers : IsInjective(delivered[s])

\* Unless a publisher is about to notify, everybody was given the latest.
CaughtUp ==
    published # <<>> /\ (\A p \in Publishers : pc[p] # "notify") =>
        \A s \in Subscribers : pc[s] \in {"join", "done"} =>
            delivered[s] # <<>> /\ delivered[s][Len(delivered[s])] = Latest

\* A service that is not private is given to everybody.
ForAll == \A i \in 1..Len(records) : ~records[i].private

Turn == OneCall /\ OneRecord /\ PublisherCurrent /\ NotifiesNews /\ GivenOnce /\ (~Private => ForAll /\ CaughtUp)

InTurn == ~overlapped => Turn

LEMMA NothingPublished ==
    ASSUME IInv, Len(records) = 0
    PROVE  published = <<>>
<1>1. \A p \in Publishers : pc[p] \notin {"notify", "done"}
  BY DEF IInv, HasRecord, Calls
<1>2. \A p \in Publishers : p \notin Range(published)
  BY <1>1 DEF IInv, PublishedOnce
<1>3. published \in Seq(Publishers)
  BY DEF IInv, TypeOK
<1>4. published # <<>> => 1 \in DOMAIN published /\ published[1] \in Publishers
  BY <1>3, LenProperties, EmptySeq, ElementOfSeq
<1> QED BY <1>2, <1>4 DEF Range

LEMMA AppendedOnce ==
    ASSUME NEW d \in Seq(Publishers), NEW p \in Publishers, IsInjective(d), p \notin Range(d)
    PROVE  /\ IsInjective(Append(d, p))
           /\ Append(d, p) # <<>> /\ Append(d, p)[Len(Append(d, p))] = p
<1>1. /\ Append(d, p) \in Seq(Publishers) /\ Len(Append(d, p)) = Len(d) + 1
      /\ \A i \in 1..Len(d) : Append(d, p)[i] = d[i]
      /\ Append(d, p)[Len(d) + 1] = p
  BY AppendProperties
<1>2. /\ Len(d) \in Nat /\ DOMAIN d = 1..Len(d)
      /\ DOMAIN Append(d, p) = 1..(Len(d) + 1)
  BY <1>1, LenProperties
<1>3. \A i \in 1..Len(d) : d[i] # p
  BY <1>2 DEF Range
<1>4. Append(d, p) # <<>>
  BY <1>1, <1>2, EmptySeq
<1>5. IsInjective(Append(d, p))
  BY <1>1, <1>2, <1>3 DEF IsInjective
<1> QED BY <1>1, <1>4, <1>5

LEMMA LatestPublished ==
    ASSUME published \in Seq(Publishers)
    PROVE  published # <<>> => Latest \in Publishers /\ Latest \in Range(published)
BY EmptySeq, LenProperties, ElementOfSeq DEF Latest, Range

LEMMA TheRecord ==
    ASSUME IInv, Turn, NEW c \in Calls, pc[c] \in {"check", "join", "set", "notify", "done"}
    PROVE  rec[c] = 1 /\ Len(records) = 1
<1>1. Len(records) \in Nat /\ Len(records) <= 1
  BY LenProperties DEF IInv, TypeOK, Turn, OneRecord
<1>2. rec[c] \in 1..Len(records)
  BY DEF IInv, HasRecord
<1>3. \A n \in Nat : n <= 1 => \A k \in 1..n : k = 1 /\ n = 1
  OBVIOUS
<1> QED BY ONLY <1>1, <1>2, <1>3

LEMMA SearchInTurn ==
    ASSUME IInv, InTurn, NEW c \in Calls, Search(c), ~overlapped'
    PROVE  Turn'
<1> USE DEF Search, Goto
<1>1. ~overlapped /\ InCall = {} /\ Turn
  BY DEF InTurn, IInv, TypeOK
<1>2. /\ pc'[c] \in {"add", "set", "check"} /\ (pc'[c] = "add" => records = <<>>)
      /\ \A d \in Calls \ {c} : pc'[d] = pc[d] /\ rec'[d] = rec[d] /\ pc[d] \in {"idle", "done"}
  BY <1>1 DEF IInv, TypeOK, InCall
<1>3. OneCall' /\ OneRecord' /\ PublisherCurrent'
  BY <1>1, <1>2 DEF Turn, OneCall, InCall, OneRecord, PublisherCurrent, Latest
<1>4. NotifiesNews' /\ GivenOnce' /\ (~Private => ForAll')
  BY <1>1, <1>2 DEF Turn, NotifiesNews, GivenOnce, ForAll, Calls
<1>5. ~Private => CaughtUp'
  BY <1>1, <1>2 DEF Turn, CaughtUp, Latest, Calls
<1> QED BY <1>3, <1>4, <1>5 DEF Turn

LEMMA AddEmptyRecordInTurn ==
    ASSUME IInv, Turn, NEW s \in Subscribers, AddEmptyRecord(s)
    PROVE  Turn'
<1> USE DEF AddEmptyRecord, Goto
<1>1. s \in Calls /\ s \notin Publishers /\ Len(records) = 0
  BY CallsAssumption, EmptySeq DEF Calls, Turn, OneRecord
<1>2. Fresh \in Record /\ Fresh.publisher = None /\ ~Fresh.private
  BY DEF Fresh, Record
<1>3. Len(records') = 1 /\ records'[1] = Fresh
  BY <1>1, <1>2, RecordAppended DEF IInv, TypeOK
<1>4. pc'[s] = "check" /\ \A d \in Calls \ {s} : pc'[d] = pc[d] /\ pc[d] \in {"idle", "done"}
  BY <1>1 DEF IInv, TypeOK, Turn, OneCall, InCall
<1>5. published = <<>>
  BY <1>1, NothingPublished
<1>6. OneCall' /\ OneRecord' /\ PublisherCurrent'
  BY <1>2, <1>3, <1>4, <1>5 DEF OneCall, InCall, OneRecord, PublisherCurrent
<1>7. NotifiesNews' /\ GivenOnce' /\ ForAll' /\ CaughtUp'
  BY <1>1, <1>2, <1>3, <1>4, <1>5 DEF Turn, NotifiesNews, GivenOnce, ForAll, CaughtUp, Calls
<1> QED BY <1>6, <1>7 DEF Turn

LEMMA JoinRecordInTurn ==
    ASSUME IInv, Turn, NEW s \in Subscribers, JoinRecord(s)
    PROVE  Turn'
<1> USE DEF JoinRecord, Goto
<1>1. s \in Calls /\ s \notin Publishers /\ rec[s] \in 1..Len(records)
  BY CallsAssumption DEF Calls, IInv, HasRecord
<1>2. /\ Len(records') = Len(records) /\ Len(records) \in Nat
      /\ \A i \in 1..Len(records) :
            records'[i].publisher = records[i].publisher /\ records'[i].private = records[i].private
  BY <1>1, RecordJoined DEF IInv, TypeOK
<1>3. pc[s] = "join" /\ pc'[s] = "done" /\ \A d \in Calls \ {s} : pc'[d] = pc[d] /\ pc[d] \in {"idle", "done"}
  BY <1>1 DEF IInv, TypeOK, Turn, OneCall, InCall
<1>4. OneCall' /\ OneRecord' /\ PublisherCurrent'
  BY <1>1, <1>2, <1>3 DEF Turn, OneCall, InCall, OneRecord, PublisherCurrent, Latest
<1>5. NotifiesNews' /\ GivenOnce' /\ (~Private => ForAll')
  BY <1>1, <1>2, <1>3 DEF Turn, NotifiesNews, GivenOnce, ForAll, Calls
<1>6. ~Private => CaughtUp'
  BY <1>1, <1>3 DEF Turn, CaughtUp, Latest, Calls
<1> QED BY <1>4, <1>5, <1>6 DEF Turn

LEMMA UnloadInTurn ==
    ASSUME Turn, NEW c \in Calls, Unload(c)
    PROVE  Turn'
BY DEF Unload, Turn, OneCall, InCall, OneRecord, PublisherCurrent, Latest, NotifiesNews, GivenOnce, ForAll, CaughtUp

LEMMA CheckPublisherInTurn ==
    ASSUME IInv, Turn, NEW s \in Subscribers, CheckPublisher(s)
    PROVE  Turn'
<1> USE DEF CheckPublisher, Goto
<1>1. s \in Calls /\ s \notin Publishers /\ rec[s] = 1 /\ Len(records) = 1
  BY CallsAssumption, TheRecord DEF Calls
<1>2. /\ pc[s] = "check" /\ pc'[s] = "join"
      /\ \A d \in Calls \ {s} : pc'[d] = pc[d] /\ pc[d] \in {"idle", "done"}
  BY <1>1 DEF IInv, TypeOK, Turn, OneCall, InCall
<1> DEFINE q == records[1].publisher
<1>3. /\ q # None => q \in Publishers
      /\ published # <<>> => q = Latest /\ q # None
  <2>1. q # None => q \in Range(published)
    BY <1>1 DEF IInv, PublisherKnown
  <2>2. q \in Range(published) => q \in Publishers
    BY DEF IInv, TypeOK, Range
  <2>3. published # <<>> => q = Latest /\ Latest \in Publishers
    BY <1>1, LatestPublished DEF IInv, TypeOK, Turn, PublisherCurrent
  <2> QED BY <2>1, <2>2, <2>3, NoneAssumption
<1>4. delivered[s] \in Seq(Publishers) /\ IsInjective(delivered[s]) /\ DOMAIN delivered[s] = {}
  BY <1>2 DEF IInv, TypeOK, NotNewer, Turn, GivenOnce
<1>5. q # None => LET d == Append(delivered[s], q) IN IsInjective(d) /\ d # <<>> /\ d[Len(d)] = q
  BY <1>3, <1>4, AppendedOnce DEF Range
<1>6. /\ delivered'[s] = delivered[s] \/ (q # None /\ delivered'[s] = Append(delivered[s], q))
      /\ ~Private /\ published # <<>> => delivered'[s] = Append(delivered[s], q)
      /\ \A t \in Subscribers \ {s} : delivered'[t] = delivered[t]
  <2>1. \/ delivered' = delivered /\ (Private \/ q = None)
        \/ q # None /\ delivered' = [delivered EXCEPT ![s] = Append(@, q)]
    BY <1>1 DEF Called, Turn, ForAll
  <2> HIDE DEF q
  <2>2. CASE delivered' = delivered /\ (Private \/ q = None)
    <3>1. ~(~Private /\ published # <<>>)
      BY <1>3, <2>2, Zenon
    <3> QED BY <2>2, <3>1, Zenon
  <2>3. CASE q # None /\ delivered' = [delivered EXCEPT ![s] = Append(@, q)]
    <3>1. /\ delivered'[s] = Append(delivered[s], q)
          /\ \A t \in Subscribers \ {s} : delivered'[t] = delivered[t]
      BY <2>3 DEF IInv, TypeOK
    <3> QED BY <2>3, <3>1
  <2> QED BY <2>1, <2>2, <2>3
<1>7. OneCall' /\ OneRecord' /\ PublisherCurrent' /\ (~Private => ForAll')
  BY <1>1, <1>2 DEF Turn, OneCall, InCall, OneRecord, PublisherCurrent, Latest, ForAll
<1>8. NotifiesNews'
  BY <1>1, <1>2 DEF NotifiesNews, Calls
<1>9. GivenOnce'
  BY <1>4, <1>5, <1>6 DEF Turn, GivenOnce
<1>10. ~Private => CaughtUp'
  <2> SUFFICES ASSUME ~Private, published # <<>>, NEW t \in Subscribers, pc'[t] \in {"join", "done"}
               PROVE  delivered'[t] # <<>> /\ delivered'[t][Len(delivered'[t])] = Latest
    BY DEF CaughtUp, Latest
  <2>1. CASE t = s
    BY <1>3, <1>5, <1>6, <2>1
  <2>2. CASE t # s
    BY <1>1, <1>2, <1>6, <2>2 DEF Turn, CaughtUp, Calls
  <2> QED BY <2>1, <2>2
<1> QED BY <1>7, <1>8, <1>9, <1>10 DEF Turn

LEMMA AddOwnRecordInTurn ==
    ASSUME IInv, Turn, NEW p \in Publishers, AddOwnRecord(p)
    PROVE  Turn'
<1> USE DEF AddOwnRecord, Goto
<1> DEFINE r == [publisher |-> p, devId |-> DeviceOf[p], private |-> Private, subscribers |-> {}]
<1>1. p \in Calls /\ p \notin Subscribers /\ Len(records) = 0
  BY CallsAssumption, EmptySeq DEF Calls, Turn, OneRecord
<1>2. r \in Record /\ r.publisher = p /\ r.private = Private
  BY <1>1, CallsAssumption, PrivateAssumption DEF Record
<1>3. Len(records') = 1 /\ records'[1].publisher = p /\ records'[1].private = Private
  <2>1. records' = Append(records, r)
    OBVIOUS
  <2> HIDE DEF r
  <2> QED BY <1>1, <1>2, <2>1, RecordAppended DEF IInv, TypeOK
<1>4. pc'[p] = "done" /\ \A d \in Calls \ {p} : pc'[d] = pc[d] /\ pc[d] \in {"idle", "done"}
  BY <1>1 DEF IInv, TypeOK, Turn, OneCall, InCall
<1>5. published' # <<>> /\ published'[Len(published')] = p
  BY AppendProperties, EmptySeq DEF IInv, TypeOK
<1>6. OneCall' /\ OneRecord'
  BY <1>3, <1>4 DEF OneCall, InCall, OneRecord
<1>7. PublisherCurrent'
  BY <1>3, <1>5 DEF PublisherCurrent, Latest
<1>8. NotifiesNews' /\ GivenOnce'
  BY <1>4 DEF Turn, NotifiesNews, GivenOnce, Calls
<1>9. ~Private => ForAll' /\ CaughtUp'
  <2>1. \A s \in Subscribers : s \in Calls /\ s # p /\ pc[s] \notin {"join", "done"}
    BY <1>1 DEF IInv, HasRecord, Calls
  <2> QED BY <1>3, <1>4, <2>1 DEF ForAll, CaughtUp
<1> QED BY <1>6, <1>7, <1>8, <1>9 DEF Turn

LEMMA SetPublisherInTurn ==
    ASSUME IInv, Turn, NEW p \in Publishers, SetPublisher(p)
    PROVE  Turn'
<1> USE DEF SetPublisher, Goto
<1>1. p \in Calls /\ p \notin Subscribers /\ rec[p] = 1 /\ Len(records) = 1
  BY CallsAssumption, TheRecord DEF Calls
<1>2. Len(records') = 1 /\ records'[1].publisher = p
  BY <1>1, RecordPublished DEF IInv, TypeOK
<1>3. pc'[p] = "notify" /\ \A d \in Calls \ {p} : pc'[d] = pc[d] /\ pc[d] \in {"idle", "done"}
  BY <1>1 DEF IInv, TypeOK, Turn, OneCall, InCall
<1>4. published' # <<>> /\ published'[Len(published')] = p
  BY AppendProperties, EmptySeq DEF IInv, TypeOK
<1>5. \A s \in Subscribers : p \notin Range(delivered[s])
  <2>1. p \notin Range(published)
    BY DEF IInv, PublishedOnce
  <2> QED BY <2>1 DEF IInv, NotNewer, Range
<1>6. OneCall' /\ OneRecord'
  BY <1>1, <1>2, <1>3 DEF Turn, OneCall, InCall, OneRecord
<1>7. PublisherCurrent'
  BY <1>2, <1>4 DEF PublisherCurrent, Latest
<1>8. NotifiesNews' /\ GivenOnce'
  BY <1>1, <1>2, <1>3, <1>5 DEF Turn, NotifiesNews, GivenOnce, Calls
<1>9. ~Private => ForAll' /\ CaughtUp'
  <2>1. ~Private => ~records'[1].private
    BY <1>1, RecordPublished DEF IInv, TypeOK, Turn, ForAll
  <2>2. ~Private => ForAll'
    <3>1. \A i \in 1..Len(records') : i = 1
      BY ONLY <1>2
    <3> QED BY <2>1, <3>1, Zenon DEF ForAll
  <2>3. CaughtUp'
    BY <1>3 DEF CaughtUp
  <2> QED BY <2>2, <2>3
<1> QED BY <1>6, <1>7, <1>8, <1>9 DEF Turn

LEMMA NotifySubscribersInTurn ==
    ASSUME IInv, Turn, NEW p \in Publishers, NotifySubscribers(p)
    PROVE  Turn'
<1> USE DEF NotifySubscribers, Goto
<1>1. p \in Calls /\ p \notin Subscribers /\ rec[p] = 1 /\ Len(records) = 1 /\ records[1].publisher = p
  BY CallsAssumption, TheRecord DEF Calls, Turn, NotifiesNews
<1>2. pc'[p] = "done" /\ \A d \in Calls \ {p} : pc'[d] = pc[d] /\ pc[d] \in {"idle", "done"}
  BY <1>1 DEF IInv, TypeOK, Turn, OneCall, InCall
<1>3. published # <<>> => p = Latest
  BY <1>1 DEF Turn, PublisherCurrent
<1>4. \A s \in Subscribers : delivered[s] \in Seq(Publishers) /\ IsInjective(delivered[s]) /\ p \notin Range(delivered[s])
  BY DEF IInv, TypeOK, Turn, NotifiesNews, GivenOnce
<1>5. \A s \in Subscribers : LET d == Append(delivered[s], p) IN IsInjective(d) /\ d # <<>> /\ d[Len(d)] = p
  BY <1>4, AppendedOnce
<1>6. OneCall' /\ OneRecord' /\ PublisherCurrent' /\ (~Private => ForAll')
  BY <1>1, <1>2 DEF Turn, OneCall, InCall, OneRecord, PublisherCurrent, Latest, ForAll
<1>7. NotifiesNews'
  BY <1>1, <1>2 DEF NotifiesNews, Calls
<1>8. GivenOnce'
  BY <1>1, <1>4, <1>5 DEF GivenOnce
<1>9. ~Private => CaughtUp'
  <2> SUFFICES ASSUME ~Private, published # <<>>, NEW s \in Subscribers, pc'[s] \in {"join", "done"}
               PROVE  delivered'[s] # <<>> /\ delivered'[s][Len(delivered'[s])] = Latest
    BY DEF CaughtUp, Latest
  <2>1. pc[s] = "done" /\ rec[s] = 1
    BY <1>1, <1>2 DEF IInv, HasRecord, Calls
  <2>2. s \in records[1].subscribers
    BY <1>1, <2>1 DEF IInv, OnItsRecord
  <2>3. delivered'[s] = Append(delivered[s], p)
    BY <1>1, <2>2
  <2> QED BY <1>3, <1>5, <2>3
<1> QED BY <1>6, <1>7, <1>8, <1>9 DEF Turn

LEMMA InTurnInductive == IInv /\ InTurn /\ [Next]_vars => InTurn'
<1> SUFFICES ASSUME IInv, InTurn, [Next]_vars, ~overlapped' PROVE Turn'
  BY DEF InTurn
<1> HIDE DEF IInv
<1>1. ASSUME NEW c \in Calls, Search(c) PROVE Turn'
  BY <1>1, SearchInTurn
<1>2. CASE ~overlapped
  <2>1. Turn
    BY <1>2 DEF InTurn
  <2>2. ASSUME NEW c \in Calls, Unload(c) PROVE Turn'
    BY <2>1, <2>2, UnloadInTurn
  <2>3. ASSUME NEW s \in Subscribers, AddEmptyRecord(s) \/ CheckPublisher(s) \/ JoinRecord(s) PROVE Turn'
    BY <2>1, <2>3, AddEmptyRecordInTurn, CheckPublisherInTurn, JoinRecordInTurn
  <2>4. ASSUME NEW p \in Publishers, AddOwnRecord(p) \/ SetPublisher(p) \/ NotifySubscribers(p) PROVE Turn'
    BY <2>1, <2>4, AddOwnRecordInTurn, SetPublisherInTurn, NotifySubscribersInTurn
  <2>5. CASE UNCHANGED vars
    BY <2>1, <2>5 DEF vars, Turn, OneCall, InCall, OneRecord, PublisherCurrent, Latest, NotifiesNews,
                      GivenOnce, ForAll, CaughtUp
  <2> QED BY <1>1, <2>2, <2>3, <2>4, <2>5 DEF Next
<1>3. CASE overlapped
  BY <1>1, <1>3 DEF Next, vars, Unload, AddEmptyRecord, CheckPublisher, JoinRecord, AddOwnRecord,
                    SetPublisher, NotifySubscribers
<1> QED BY <1>2, <1>3

LEMMA InitInTurn == Init => InTurn
<1> SUFFICES ASSUME Init PROVE Turn
  BY DEF InTurn
<1>1. Len(records) = 0 /\ \A c \in Calls : pc[c] = "idle"
  BY EmptySeq DEF Init
<1>2. OneCall /\ OneRecord /\ PublisherCurrent /\ NotifiesNews /\ ForAll /\ CaughtUp
  BY <1>1 DEF Init, OneCall, InCall, OneRecord, PublisherCurrent, NotifiesNews, ForAll, CaughtUp, Calls
<1>3. GivenOnce
  BY DEF Init, GivenOnce, IsInjective
<1> QED BY <1>2, <1>3 DEF Turn

(* While calls do not overlap, the call of subscribe and that of publish    *)
(* (HdfServiceObserverSubscribeService and                                  *)
(* HdfServiceObserverRecordNotifySubscribers) never both announce the same  *)
(* publication to a subscriber.                                             *)
THEOREM Once == Spec => []AnnouncedOnce
<1>1. InTurn => AnnouncedOnce
  BY DEF InTurn, Turn, GivenOnce, AnnouncedOnce
<1> QED BY <1>1, InitHolds, Inductive, InitInTurn, InTurnInductive, PTL DEF Spec

(* While calls do not overlap, the service published last has reached every *)
(* subscriber, those who subscribed before and those who do later, unless   *)
(* its policy is private.                                                   *)
THEOREM LatestReaches ==
    ASSUME ~Private
    PROVE  Spec => []LatestReachesAllInTurn
<1>1. InTurn => LatestReachesAllInTurn
  <2> SUFFICES ASSUME Turn, InCall = {}, published # <<>>, NEW s \in Subscribers, pc[s] = "done"
               PROVE  delivered[s] # <<>> /\ delivered[s][Len(delivered[s])] = Latest
    BY DEF InTurn, LatestReachesAllInTurn, LatestReachesAll
  <2>1. \A p \in Publishers : pc[p] # "notify"
    BY DEF InCall, Calls
  <2> QED BY <2>1 DEF Turn, CaughtUp
<1> QED BY <1>1, InitHolds, Inductive, InitInTurn, InTurnInductive, PTL DEF Spec

=============================================================================
