-------------------------- MODULE MCMessageRouter --------------------------
(***************************************************************************)
(* Instances of MessageRouter for TLC.                                     *)
(***************************************************************************)
EXTENDS MessageRouter

CONSTANTS c1, c2, a, b, r1, r2, r3, d1, d2, m1, m2

TwoCallers     == {c1, c2}
TwoServices    == {a, b}
OneAdmin       == {c1}
LowB           == [s \in Services |-> IF s = b THEN 1 ELSE 0]
OneSlot        == {0}
TwoRemotes     == {r1, r2}
OneDispatcher  == {d1}
TwoMessages    == {m1, m2}

\* A request answered, one that is not, and one handled in place.
Requests == {AsyncRequest(a, b, TRUE), AsyncRequest(a, a, FALSE), SyncRequest(b)}
=============================================================================
