------------------------- MODULE MCServiceObserver -------------------------
(***************************************************************************)
(* Instances of ServiceObserver for TLC: three subscribers, one of them on *)
(* the device of the publishers, and two nodes that publish the service.   *)
(***************************************************************************)
EXTENDS ServiceObserver

CONSTANTS s1, s2, s3, p1, p2

ThreeSubscribers == {s1, s2, s3}
TwoPublishers    == {p1, p2}
Devices == [c \in Calls |-> IF c \in {s2, s3} THEN 2 ELSE 1]
=============================================================================
