-------------------------- MODULE ServiceDirectory --------------------------
(***************************************************************************)
(* What the framework promises the clients of a service: a name leads to a *)
(* living provider or nowhere, a name has one provider at a time, and a    *)
(* provider that is gone never comes back.                                 *)
(***************************************************************************)
CONSTANTS
    Names,       \* the service names
    Providers,   \* everything that may ever provide a service
    NoProvider   \* no provider: what a name leads to when nobody provides it

VARIABLES
    alive,   \* the providers in service
    past,    \* the providers that have ever been in service
    offer    \* the provider each name leads to

Init ==
    /\ alive = {}
    /\ past = {}
    /\ offer = [s \in Names |-> NoProvider]

\* A fresh provider takes a free name.
Appear(p, s) ==
    /\ p \notin past
    /\ offer[s] = NoProvider
    /\ alive' = alive \cup {p}
    /\ past' = past \cup {p}
    /\ offer' = [offer EXCEPT ![s] = p]

\* Some providers go, and their names become free in the same instant.
Vanish(gone) ==
    /\ alive' = alive \ gone
    /\ offer' = [s \in Names |-> IF offer[s] \in gone THEN NoProvider ELSE offer[s]]
    /\ UNCHANGED past

Next ==
    \/ \E p \in Providers, s \in Names : Appear(p, s)
    \/ \E gone \in SUBSET alive : Vanish(gone)

Spec == Init /\ [][Next]_<<alive, past, offer>>
=============================================================================
