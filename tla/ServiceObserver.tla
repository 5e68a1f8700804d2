-------------------------- MODULE ServiceObserver --------------------------
(***************************************************************************)
(* The service observer of one device host (core/host/src/                 *)
(* hdf_service_observer.c): drivers subscribe to a service by name, and    *)
(* each node publishes its service there when it is launched.              *)
(*                                                                         *)
(* One service name is modelled: records of other names are never touched. *)
(* The list of records is searched without its mutex and a record's fields *)
(* are written without any, so a call is split where another thread can    *)
(* come between.  HdfSListAdd puts a record in front of the others and the *)
(* search stops at the first match, so a search finds the newest record.   *)
(***************************************************************************)
EXTENDS Naturals, Sequences, FiniteSets, Functions

CONSTANTS
    Subscribers,  \* the driver nodes that subscribe, once each
    Publishers,   \* the nodes that publish the service, once each
    DeviceOf,     \* the devid of a node
    Private       \* TRUE: the service policy is SERVICE_POLICY_PRIVATE

Calls == Subscribers \cup Publishers

ASSUME CallsAssumption ==
    /\ IsFiniteSet(Calls) /\ Subscribers \cap Publishers = {}
    /\ DeviceOf \in [Calls -> Nat]
ASSUME PrivateAssumption == Private \in BOOLEAN

None == "none"
ASSUME NoneAssumption == None \notin Publishers

VARIABLES
    records,    \* observer->services, oldest first
    pc,         \* where each call is
    rec,        \* the record each call works on, 0 if it found none
    delivered,  \* history: what each subscriber's callback was given, in order
    published,  \* history: the publishers in the order their service became visible
    loaded,     \* the nodes that exist
    overlapped  \* history: two calls have been in progress at one time

vars == <<records, pc, rec, delivered, published, loaded, overlapped>>

Record == [publisher : Publishers \cup {None}, devId : Nat,
           private : BOOLEAN, subscribers : SUBSET Subscribers]

Goto(c, label) == pc' = [pc EXCEPT ![c] = label]

\* HdfServiceObserverRecordObtain: every field is cleared.
Fresh == [publisher |-> None, devId |-> 0, private |-> FALSE, subscribers |-> {}]

\* OnServiceConnected of a subscriber is called.
Called(s, p) == [delivered EXCEPT ![s] = Append(@, p)]

-----------------------------------------------------------------------------
Init ==
    /\ records = <<>>
    /\ pc = [c \in Calls |-> "idle"]
    /\ rec = [c \in Calls |-> 0]
    /\ delivered = [s \in Subscribers |-> <<>>]
    /\ published = <<>>
    /\ loaded = Calls
    /\ overlapped = FALSE

InCall == {c \in Calls : pc[c] \notin {"idle", "done"}}

(* HdfSListSearch, by a subscriber or a publisher. *)
Search(c) ==
    /\ pc[c] = "idle"
    /\ overlapped' = (overlapped \/ InCall # {})
    /\ rec' = [rec EXCEPT ![c] = Len(records)]
    /\ Goto(c, IF records = <<>> THEN "add" ELSE IF c \in Publishers THEN "set" ELSE "check")
    /\ UNCHANGED <<records, delivered, published, loaded>>

(* A subscriber that found no record adds an empty one. *)
AddEmptyRecord(s) ==
    /\ s \in Subscribers /\ pc[s] = "add"
    /\ records' = Append(records, Fresh)
    /\ rec' = [rec EXCEPT ![s] = Len(records')]
    /\ Goto(s, "check")
    /\ UNCHANGED <<delivered, published, loaded, overlapped>>

\* Mutant of CheckPublisher: only later publications are announced.
CheckPublisherLater(s) ==
    /\ s \in Subscribers /\ pc[s] = "check"
    /\ Goto(s, "join")
    /\ UNCHANGED <<records, rec, delivered, published, loaded, overlapped>>

\* Mutant of CheckPublisher: announces to everyone on the record.
CheckPublisherAll(s) ==
    /\ s \in Subscribers /\ pc[s] = "check"
    /\ LET r == records[rec[s]]
       IN  delivered' = [t \in Subscribers |->
                            IF r.publisher # None /\ t \in r.subscribers \cup {s}
                            THEN Append(delivered[t], r.publisher) ELSE delivered[t]]
    /\ Goto(s, "join")
    /\ UNCHANGED <<records, rec, published, loaded, overlapped>>

(* HdfServiceObserverSubscribeService: with a publisher already known, the  *)
(* subscriber is called back before it joins the record's list.             *)
CheckPublisher(s) ==
    /\ s \in Subscribers /\ pc[s] = "check"
    /\ LET r == records[rec[s]]
       IN  delivered' = IF r.publisher # None /\ (~r.private \/ r.devId = DeviceOf[s])
                        THEN Called(s, r.publisher) ELSE delivered
    /\ Goto(s, "join")
    /\ UNCHANGED <<records, rec, published, loaded, overlapped>>

JoinRecord(s) ==
    /\ s \in Subscribers /\ pc[s] = "join"
    /\ records' = [records EXCEPT ![rec[s]].subscribers = @ \cup {s}]
    /\ Goto(s, "done")
    /\ UNCHANGED <<rec, delivered, published, loaded, overlapped>>

(* HdfServiceObserverPublishService, no record found. *)
AddOwnRecord(p) ==
    /\ p \in Publishers /\ pc[p] = "add"
    /\ records' = Append(records, [publisher |-> p, devId |-> DeviceOf[p],
                                   private |-> Private, subscribers |-> {}])
    /\ rec' = [rec EXCEPT ![p] = Len(records')]
    /\ published' = Append(published, p)
    /\ Goto(p, "done")
    /\ UNCHANGED <<delivered, loaded, overlapped>>

(* HdfServiceObserverPublishService, a record found: only its publisher is  *)
(* overwritten; policy and devid stay what they were.                       *)
SetPublisher(p) ==
    /\ p \in Publishers /\ pc[p] = "set"
    /\ records' = [records EXCEPT ![rec[p]].publisher = p]
    /\ published' = Append(published, p)
    /\ Goto(p, "notify")
    /\ UNCHANGED <<rec, delivered, loaded, overlapped>>

\* Mutant of NotifySubscribers: hands out the caller's service.
NotifyWithOwnService(p) ==
    LET r == records[rec[p]]
    IN  /\ p \in Publishers /\ pc[p] = "notify"
        /\ delivered' = [s \in Subscribers |->
                            IF s \in r.subscribers /\ (~Private \/ DeviceOf[p] = DeviceOf[s])
                            THEN Append(delivered[s], p) ELSE delivered[s]]
        /\ Goto(p, "done")
        /\ UNCHANGED <<records, rec, published, loaded, overlapped>>

(* HdfServiceObserverRecordNotifySubscribers, under the record's mutex: it  *)
(* goes by the new policy and devid and hands out the record's publisher.   *)
NotifySubscribers(p) ==
    LET r == records[rec[p]]
    IN  /\ p \in Publishers /\ pc[p] = "notify"
        /\ delivered' = [s \in Subscribers |->
                            IF s \in r.subscribers /\ (~Private \/ DeviceOf[p] = DeviceOf[s])
                            THEN Append(delivered[s], r.publisher) ELSE delivered[s]]
        /\ Goto(p, "done")
        /\ UNCHANGED <<records, rec, published, loaded, overlapped>>

(* A node is freed: HdfDeviceNodeDestruct tells the device service manager  *)
(* and not the observer, whose HdfServiceObserverRemoveRecord nobody calls. *)
Unload(c) ==
    /\ c \in loaded /\ pc[c] = "done"
    /\ loaded' = loaded \ {c}
    /\ UNCHANGED <<records, pc, rec, delivered, published, overlapped>>

Next ==
    \/ \E c \in Calls : Search(c) \/ Unload(c)
    \/ \E s \in Subscribers : AddEmptyRecord(s) \/ CheckPublisher(s) \/ JoinRecord(s)
    \/ \E p \in Publishers :
          AddOwnRecord(p) \/ SetPublisher(p) \/ NotifySubscribers(p)

Spec == Init /\ [][Next]_vars

-----------------------------------------------------------------------------
TypeOK ==
    /\ records \in Seq(Record)
    /\ pc \in [Calls -> {"idle", "add", "check", "join", "set", "notify", "done"}]
    /\ rec \in [Calls -> 0..Len(records)]
    /\ delivered \in [Subscribers -> Seq(Publishers)]
    /\ published \in Seq(Publishers)
    /\ loaded \subseteq Calls
    /\ overlapped \in BOOLEAN

Position(p) == CHOOSE i \in DOMAIN published : published[i] = p
Latest      == published[Len(published)]

(* However calls race, OnServiceConnected never takes a subscriber back: it *)
(* is not given an older service after a newer one.                         *)
DeliveredInOrder ==
    \A s \in Subscribers : \A i, j \in DOMAIN delivered[s] :
        i < j => Position(delivered[s][i]) <= Position(delivered[s][j])

(* What hdf_device_desc.h says of HdfDeviceSubscribeService, that after the *)
(* service is loaded "the framework proactively releases the service        *)
(* interface to the subscriber": when no call is in progress every          *)
(* subscriber was last given the service published last.                    *)
LatestReachesAll ==
    InCall = {} /\ published # <<>> =>
        \A s \in Subscribers : pc[s] = "done" =>
            delivered[s] # <<>> /\ delivered[s][Len(delivered[s])] = Latest

(* This holds while calls have not overlapped, as on the boot thread: the   *)
(* services of a record reach those who subscribed before and those who     *)
(* subscribe later.                                                         *)
LatestReachesAllInTurn == ~overlapped => LatestReachesAll

(* While calls have not overlapped, no publication is announced to a        *)
(* subscriber twice, by the call of subscribe and again by that of publish. *)
AnnouncedOnce == ~overlapped => \A s \in Subscribers : IsInjective(delivered[s])

(* What hdf_device_desc.h says of SERVICE_POLICY_PRIVATE, that such         *)
(* services "cannot be subscribed to by external users": a private service  *)
(* is only given to nodes with the publisher's devid.                       *)
PrivateStaysInside ==
    Private => \A s \in Subscribers : \A i \in DOMAIN delivered[s] :
                  DeviceOf[delivered[s][i]] = DeviceOf[s]

(* What hdf_device_desc.h says of OnServiceConnected, "Called by the HDF    *)
(* when the subscribed-to driver service is loaded": the service handed     *)
(* over belongs to a node that still exists.                                *)
DeliveredIsLoaded ==
    [][\A s \in Subscribers : delivered'[s] # delivered[s] =>
          delivered'[s][Len(delivered'[s])] \in loaded]_vars
=============================================================================
