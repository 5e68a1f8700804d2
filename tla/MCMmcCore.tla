----------------------------- MODULE MCMmcCore -----------------------------
(***************************************************************************)
(* Instances of MmcCore for TLC.                                           *)
(***************************************************************************)
EXTENDS MmcCore

CONSTANTS u1, u2, c1, c2, c3, m1, m2, m3, m4

TwoUsers     == {u1, u2}
ThreeCards   == {c1, c2, c3}
FourMessages == {m1, m2, m3, m4}
Removable    == {"SDIO", "SD"}
=============================================================================
