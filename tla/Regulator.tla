------------------------------ MODULE Regulator ------------------------------
(***************************************************************************)
(* The tree of voltage regulators (support/platform/src/regulator): drivers *)
(* add regulators under the parents their configuration names, and threads  *)
(* enable, disable and forcibly disable them.  Each regulator has a mutex;  *)
(* enabling and disabling take a regulator's before its parent's and hold   *)
(* both.  The status is read without the mutex before it is taken.          *)
(***************************************************************************)
EXTENDS Integers, Sequences, FiniteSets, SequencesExt

CONSTANTS
    Nodes,      \* regulators
    Threads,    \* threads that call them
    ParentOf,   \* the parent each regulator's configuration names, or None
    AlwaysOn,   \* regulators configured alwaysOn
    ForceAlone, \* TRUE: a forced disabling overlaps no other call
    None

VARIABLES
    listed,     \* the manager's list
    linked,     \* regulators whose entry in the tree has its parent
    children,   \* the entries of the tree, each with its list of children
    on,         \* the status of each regulator
    lock,       \* who holds each regulator's mutex
    call,       \* the call each thread is in
    overlapped  \* whether two calls have ever overlapped

vars == <<listed, linked, children, on, lock, call, overlapped>>
tree == <<listed, linked, children>>

\* path: the mutexes held; next: the regulator to take; todo: those below still
\* to be forced, and whether their own children have been seen to; fault:
\* whether a driver's operation has failed.
Idle == [op |-> "none", phase |-> "idle", path |-> <<>>, next |-> None,
         todo |-> <<>>, fault |-> FALSE]

Init ==
    /\ listed = {} /\ linked = {}
    /\ children = [n \in {} |-> <<>>]
    /\ on = [n \in Nodes |-> FALSE]
    /\ lock = [n \in Nodes |-> None]
    /\ call = [t \in Threads |-> Idle]
    /\ overlapped = FALSE

IsIdle(t)   == call[t].phase = "idle"
AllIdle     == \A t \in Threads : IsIdle(t)
At(t, p)    == call[t].phase = p
HasParent(n) == ParentOf[n] # None
ChildrenOf(n) == IF n \in DOMAIN children THEN children[n] ELSE <<>>

Begin(t, op, n) ==
    /\ call' = [call EXCEPT ![t] = [Idle EXCEPT !.op = op, !.phase = op, !.next = n]]
    /\ overlapped' = (overlapped \/ ~AllIdle)

\* The entries for the named regulator and its parent, with the child added.
Entered(n, p) ==
    [m \in DOMAIN children \cup {n, p} |->
        IF m = p THEN Append(ChildrenOf(m), n) ELSE ChildrenOf(m)]

\* RegulatorNodeAdd: drivers add one regulator after the other.  One whose
\* parent is not there stays in the list all the same, without a parent.
Add(t, n) ==
    /\ AllIdle /\ n \notin listed
    /\ listed' = listed \cup {n}
    /\ IF ParentOf[n] \in listed
       THEN linked' = linked \cup {n} /\ children' = Entered(n, ParentOf[n])
       ELSE UNCHANGED <<linked, children>>
    /\ IF n \in AlwaysOn /\ (HasParent(n) => ParentOf[n] \in listed)
       THEN Begin(t, "enable", n)
       ELSE UNCHANGED <<call, overlapped>>
    /\ UNCHANGED <<on, lock>>

\* RegulatorEnable, RegulatorDisable or RegulatorForceDisable is called.
Ask(t, op, n) ==
    /\ IsIdle(t) /\ n \in listed
    /\ ForceAlone /\ "force" \in {op} \cup {call[u].op : u \in Threads} => AllIdle
    /\ Begin(t, op, n)
    /\ UNCHANGED <<tree, on, lock>>

Becomes(t, new) == call' = [call EXCEPT ![t] = new]
Goto(t, p)      == Becomes(t, [call[t] EXCEPT !.phase = p])
Climb(t, p, n)  == Becomes(t, [call[t] EXCEPT !.phase = p, !.next = n])
TakeLock(t, n)  == lock[n] = None /\ lock' = [lock EXCEPT ![n] = t]
Holding(t)      == Append(call[t].path, call[t].next)
Top(t)          == Last(call[t].path)

-----------------------------------------------------------------------------
\* RegulatorNodeEnable as far as it looks at the status.
LookBeforeEnable(t) ==
    /\ At(t, "enable")
    /\ Goto(t, IF on[call[t].next] THEN "raise" ELSE "lockEnable")
    /\ UNCHANGED <<tree, on, lock, overlapped>>

\* Then it takes the mutex and goes to its parent.
LockToEnable(t) ==
    LET n == call[t].next
    IN  /\ At(t, "lockEnable") /\ TakeLock(t, n)
        /\ Becomes(t, [call[t] EXCEPT
               !.path = Holding(t),
               !.phase = IF ~HasParent(n) THEN "raise"
                         ELSE IF n \in linked THEN "enable" ELSE "leave",
               !.next = IF n \in linked THEN ParentOf[n] ELSE None])
        /\ UNCHANGED <<tree, on, overlapped>>

Pop(t)     == [call[t] EXCEPT !.path = Front(@)]
Unlocks(n) == lock' = [lock EXCEPT ![n] = None]

\* Mutant of Raise: a failure returns without unlocking.
RaiseKeepsLock(t) ==
    /\ At(t, "raise")
    /\ IF call[t].path = <<>>
       THEN Becomes(t, Idle) /\ UNCHANGED <<on, lock>>
       ELSE \/ /\ on' = [on EXCEPT ![Top(t)] = TRUE]
               /\ Unlocks(Top(t)) /\ Becomes(t, Pop(t))
            \/ Becomes(t, Idle) /\ UNCHANGED <<on, lock>>
    /\ UNCHANGED <<tree, overlapped>>

\* On the way back each regulator's driver enables it and it is unlocked,
\* or the driver fails.
Raise(t) ==
    /\ At(t, "raise")
    /\ IF call[t].path = <<>>
       THEN Becomes(t, Idle) /\ UNCHANGED <<on, lock>>
       ELSE \/ /\ on' = [on EXCEPT ![Top(t)] = TRUE]
               /\ Unlocks(Top(t)) /\ Becomes(t, Pop(t))
            \/ /\ Becomes(t, [call[t] EXCEPT !.phase = "leave", !.fault = TRUE])
               /\ UNCHANGED <<on, lock>>
    /\ UNCHANGED <<tree, overlapped>>

\* The mutexes held are given back, the last first, and the call returns.
Leave(t) ==
    /\ At(t, "leave")
    /\ IF call[t].path = <<>>
       THEN Becomes(t, Idle) /\ UNCHANGED lock
       ELSE Unlocks(Top(t)) /\ Becomes(t, Pop(t))
    /\ UNCHANGED <<tree, on, overlapped>>

-----------------------------------------------------------------------------
\* RegulatorNodeDisable as far as it looks at the status.
LookBeforeDisable(t) ==
    LET n == call[t].next
    IN  /\ At(t, "disable")
        /\ Goto(t, IF ~on[n] \/ n \in AlwaysOn THEN "leave" ELSE "lockDisable")
        /\ UNCHANGED <<tree, on, lock, overlapped>>

LockToDisable(t) ==
    /\ At(t, "lockDisable") /\ TakeLock(t, call[t].next)
    /\ Becomes(t, [call[t] EXCEPT !.phase = "lookBelow", !.path = Holding(t)])
    /\ UNCHANGED <<tree, on, overlapped>>

\* Mutant of LookBelow: the children are not asked.
LookNowhere(t) ==
    /\ At(t, "lookBelow") /\ Goto(t, "lower")
    /\ UNCHANGED <<tree, on, lock, overlapped>>

\* RegulatorTreeIsAllChildDisable, which reads without the children's mutexes.
LookBelow(t) ==
    /\ At(t, "lookBelow")
    /\ Goto(t, IF \E c \in ToSet(ChildrenOf(Top(t))) : on[c] THEN "leave" ELSE "lower")
    /\ UNCHANGED <<tree, on, lock, overlapped>>

\* The driver disables it, or fails; then its parent is disabled as well.
Lower(t) ==
    /\ At(t, "lower")
    /\ \/ /\ on' = [on EXCEPT ![Top(t)] = FALSE]
          /\ IF Top(t) \in linked
             THEN Climb(t, "disable", ParentOf[Top(t)])
             ELSE Goto(t, "leave")
       \/ /\ Becomes(t, [call[t] EXCEPT !.phase = "leave", !.fault = TRUE])
          /\ UNCHANGED on
    /\ UNCHANGED <<tree, lock, overlapped>>

-----------------------------------------------------------------------------
\* RegulatorTreeChildForceDisable for n: its children, those below them not
\* yet seen to.
Visits(n) == [i \in DOMAIN ChildrenOf(n) |-> [node |-> ChildrenOf(n)[i], seen |-> FALSE]]

\* RegulatorNodeForceDisable takes the mutex, then looks at the status and
\* finds the entry in the tree; it has none if it is neither parent nor child.
LockToForce(t) ==
    LET n == call[t].next
    IN  /\ At(t, "force") /\ TakeLock(t, n)
        /\ Becomes(t, [call[t] EXCEPT
               !.path = Holding(t),
               !.phase = IF on[n] /\ n \in DOMAIN children THEN "forceBelow" ELSE "leave",
               !.todo = Visits(n)])
        /\ UNCHANGED <<tree, on, overlapped>>

\* The recursion goes down from a child first; then the child is locked,
\* disabled whatever its driver says, and unlocked.
ForceBelow(t) ==
    LET todo == call[t].todo
        c    == Head(todo)
    IN  /\ At(t, "forceBelow")
        /\ \/ todo = <<>> /\ Goto(t, "lower") /\ UNCHANGED on
           \/ /\ todo # <<>> /\ ~c.seen
              /\ Becomes(t, [call[t] EXCEPT
                     !.todo = Visits(c.node) \o <<[c EXCEPT !.seen = TRUE]>> \o Tail(todo)])
              /\ UNCHANGED on
           \/ /\ todo # <<>> /\ c.seen /\ lock[c.node] = None
              /\ on' = [on EXCEPT ![c.node] = FALSE]
              /\ Becomes(t, [call[t] EXCEPT !.todo = Tail(todo)])
        /\ UNCHANGED <<tree, lock, overlapped>>

CallStep(t) ==
    \/ LookBeforeEnable(t) \/ LockToEnable(t) \/ Raise(t) \/ Leave(t)
    \/ LookBeforeDisable(t) \/ LockToDisable(t) \/ LookBelow(t) \/ Lower(t)
    \/ LockToForce(t) \/ ForceBelow(t)

Next == \E t \in Threads :
    \/ CallStep(t)
    \/ \E n \in Nodes : Add(t, n) \/ \E op \in {"enable", "disable", "force"} : Ask(t, op, n)

Spec == Init /\ [][Next]_vars

\* A thread that may go on does, and a mutex is not for ever given to others.
FairSpec == Spec /\ \A t \in Threads : SF_vars(CallStep(t))

-----------------------------------------------------------------------------
TypeOK ==
    /\ listed \subseteq Nodes /\ linked \subseteq listed
    /\ children \in [DOMAIN children -> Seq(Nodes)] /\ DOMAIN children \subseteq listed
    /\ on \in [Nodes -> BOOLEAN]
    /\ lock \in [Nodes -> Threads \cup {None}]
    /\ call \in [Threads ->
           [op : {"none", "enable", "disable", "force"},
            phase : {"idle", "enable", "lockEnable", "raise", "leave", "disable", "lockDisable",
                     "lookBelow", "lower", "force", "forceBelow"},
            path : Seq(Nodes), next : Nodes \cup {None}, todo : Seq([node : Nodes, seen : BOOLEAN]),
            fault : BOOLEAN]]
    /\ overlapped \in BOOLEAN

SuppliesOn == \A n \in linked : on[n] => on[ParentOf[n]]

(* "or there is regulator child  not disable, disabling  fail"              *)
(* (regulator_if.h:71): as long as calls have not overlapped, a regulator   *)
(* that is on has its supply, whichever calls and drivers have failed.      *)
SupplyIsOn == ~overlapped => SuppliesOn

(* As long as no forced disabling overlaps with other calls, every call     *)
(* returns: mutexes are taken upwards only, and each way out gives them back.*)
RegulatorCallsReturn == \A t \in Threads : ~IsIdle(t) ~> IsIdle(t)

(* "No matter whether the status of the regulator is alwayson or the status *)
(* of the child is enable, the regulator is disabled" (regulator_if.h:82)   *)
(* when a call forces it and no driver fails.                               *)
ForcedIsOff ==
    \A t \in Threads :
        At(t, "leave") /\ call[t].op = "force" /\ ~call[t].fault /\ call[t].path # <<>>
            => ~on[Head(call[t].path)]
=============================================================================
