-------------------------- MODULE DeviceDirectory --------------------------
(***************************************************************************)
(* The device manager implements the service directory for the services    *)
(* with a device file (policy CAPACITY): the kernel's refusal of a second  *)
(* file of the same name is what makes the promise hold.                   *)
(***************************************************************************)
EXTENDS DeviceManager

FileNames == {s \in Names : PolicyOf(s) = "CAPACITY"}

\* history: the nodes that have provided a service with a device file.
VARIABLE served

FileNodes == {k \in DOMAIN nodes : nodes[k].svc \in FileNames}

DInit == Init /\ served = {}
DNext == Next /\ served' = served \cup {k \in DOMAIN nodes' : nodes'[k].svc \in FileNames}
DSpec == DInit /\ [][DNext]_<<vars, served>>

\* The provider a client that looks up s is led to: the newest record.
Provider(s) ==
    IF RecordsOf(s) = {} THEN 0
    ELSE CHOOSE k \in RecordsOf(s) : \A j \in RecordsOf(s) : j <= k

Directory == INSTANCE ServiceDirectory WITH
    Names <- FileNames,
    Providers <- Keys,
    NoProvider <- 0,
    alive <- FileNodes,
    past <- served,
    offer <- [s \in FileNames |-> Provider(s)]

(* Every behaviour of the device manager is one of the service directory:   *)
(* a client that looks up a service with a device file is never led to a    *)
(* freed node, two nodes never compete for a name, and a load or unload     *)
(* changes what clients see in one piece.                                   *)
ImplementsDirectory == Directory!Spec
=============================================================================
