---------------------------- MODULE Parts_proof ----------------------------
(***************************************************************************)
(* Theorems about the parts that share nothing: regulators, the power of an *)
(* audio card, its ring buffers and flow control.  Each is about the        *)
(* specification of the part.                                               *)
(***************************************************************************)
EXTENDS Parts, Sequences, FiniteSetTheorems, TLAPS

-----------------------------------------------------------------------------
(*                              Regulators                                 *)
-----------------------------------------------------------------------------
\* Configurations name parents that are regulators.
Wired == ParentOf \in [Nodes -> Nodes \cup {None}] /\ None \notin Nodes \cup Threads

\* The entry of a regulator's parent has it as a child; what is on is listed.
TreeOK ==
    /\ \A n \in linked : ParentOf[n] \in listed /\ n \in Tree!ToSet(Tree!ChildrenOf(ParentOf[n]))
    /\ \A n \in Nodes : on[n] => n \in listed

\* What a call has in hand at each of its steps.
Hand(t) ==
    /\ \A i \in 1..Len(call[t].path) : call[t].path[i] \in listed
    /\ call[t].phase \in {"enable", "lockEnable", "disable", "lockDisable", "force"} => call[t].next \in listed
    /\ call[t].phase \in {"lookBelow", "lower", "forceBelow"} => call[t].path # <<>>

HandOK == \A t \in Threads : Hand(t)

\* Calls take turns.
InTurn == \A t, u \in Threads : ~Tree!IsIdle(t) /\ ~Tree!IsIdle(u) => t = u

\* An enabling goes from child to parent, and comes back over regulators whose
\* supply is on.
Climbing(t) == call[t].phase \in {"enable", "lockEnable", "raise"} =>
    /\ \A i \in 1..Len(call[t].path) - 1 : ParentOf[call[t].path[i]] = call[t].path[i + 1]
    /\ call[t].path # <<>> =>
           IF Tree!At(t, "raise") THEN Tree!Top(t) \in linked => on[ParentOf[Tree!Top(t)]]
           ELSE call[t].next = ParentOf[Tree!Top(t)]

\* A child of n is off, or among the first k that are to be forced.
Forced(t, n, k) ==
    \A c \in linked : ParentOf[c] = n /\ on[c] => \E i \in 1..k : call[t].todo[i].node = c

\* A regulator is about to be disabled only after those below it.
Lowering(t) ==
    /\ Tree!At(t, "lower") => Forced(t, Tree!Top(t), 0)
    /\ Tree!At(t, "forceBelow") =>
           /\ Forced(t, Tree!Top(t), Len(call[t].todo))
           /\ \A k \in DOMAIN call[t].todo :
                  call[t].todo[k].seen => Forced(t, call[t].todo[k].node, k - 1)

TurnsInv == ~overlapped =>
    /\ InTurn /\ Tree!SuppliesOn
    /\ \A t \in Threads : Climbing(t) /\ Lowering(t)

TreeInv == Tree!TypeOK /\ TreeOK /\ HandOK /\ TurnsInv
-----------------------------------------------------------------------------
Calls ==
    [op : {"none", "enable", "disable", "force"},
     phase : {"idle", "enable", "lockEnable", "raise", "leave", "disable", "lockDisable",
              "lookBelow", "lower", "force", "forceBelow"},
     path : Seq(Nodes), next : Nodes \cup {None}, todo : Seq([node : Nodes, seen : BOOLEAN]), fault : BOOLEAN]

LEMMA CallsTyped == ASSUME Tree!TypeOK PROVE call \in [Threads -> Calls]
BY DEF Tree!TypeOK, Calls

\* The fields of a call set.
LEMMA CallMoved ==
  ASSUME NEW r \in Calls, NEW p \in Seq(Nodes), NEW n \in Nodes \cup {None},
         NEW f \in {"raise", "enable", "leave"}
  PROVE  [r EXCEPT !.path = p, !.phase = f, !.next = n] \in Calls
BY DEF Calls

LEMMA PathSet ==
  ASSUME NEW r \in Calls, NEW p \in Seq(Nodes)
  PROVE  /\ [r EXCEPT !.path = p] \in Calls /\ [r EXCEPT !.path = p].path = p
         /\ [r EXCEPT !.path = p].phase = r.phase
BY DEF Calls

LEMMA TodoSet ==
  ASSUME NEW r \in Calls, NEW xs \in Seq([node : Nodes, seen : BOOLEAN])
  PROVE  /\ [r EXCEPT !.todo = xs] \in Calls /\ [r EXCEPT !.todo = xs].todo = xs
         /\ [r EXCEPT !.todo = xs].path = r.path /\ [r EXCEPT !.todo = xs].phase = r.phase
BY DEF Calls

LEMMA Lengthened ==
  ASSUME NEW S, NEW s \in Seq(S), NEW e \in S
  PROVE  /\ Append(s, e) \in Seq(S) /\ Append(s, e) # <<>> /\ Tree!Last(Append(s, e)) = e
         /\ Len(Append(s, e)) = Len(s) + 1 /\ Append(s, e)[Len(s) + 1] = e
         /\ \A i \in 1..Len(s) : Append(s, e)[i] = s[i]
BY DEF Tree!Last

LEMMA Shortened ==
  ASSUME NEW S, NEW s \in Seq(S), s # <<>>
  PROVE  /\ Tree!Front(s) \in Seq(S) /\ Len(s) \in Nat \ {0} /\ Len(Tree!Front(s)) = Len(s) - 1
         /\ \A i \in 1..Len(s) - 1 : Tree!Front(s)[i] = s[i]
         /\ Tree!Last(s) \in S /\ Tree!Last(s) = s[Len(s)]
         /\ Tree!Front(s) # <<>> => Len(s) > 1 /\ Tree!Last(Tree!Front(s)) = s[Len(s) - 1]
<1>1. Len(s) \in Nat \ {0} /\ \A i \in 1..Len(s) : s[i] \in S
  OBVIOUS
<1>2. Tree!Front(s) = [i \in 1..Len(s) - 1 |-> s[i]]
  BY <1>1, Z3 DEF Tree!Front
<1>3. Tree!Front(s) \in Seq(S) /\ Len(Tree!Front(s)) = Len(s) - 1
  BY <1>1, <1>2
<1> QED
  BY <1>1, <1>2, <1>3 DEF Tree!Last

LEMMA StepKeeps ==
  ASSUME Wired, TreeInv, NEW t \in Threads, NEW c \in Calls, ~Tree!IsIdle(t), Tree!Becomes(t, c),
         UNCHANGED <<Tree!tree, overlapped>>, lock' \in [Nodes -> Threads \cup {None}], on' \in [Nodes -> BOOLEAN],
         \A n \in Nodes : on'[n] => n \in listed,
         Hand(t)', ~overlapped => Tree!SuppliesOn' /\ Climbing(t)' /\ Lowering(t)'
  PROVE  TreeInv'
<1>1. call' \in [Threads -> Calls] /\ call'[t] = c /\ \A u \in Threads \ {t} : call'[u] = call[u]
  BY CallsTyped DEF TreeInv, Tree!Becomes
<1>2. Tree!TypeOK' /\ TreeOK'
  BY <1>1 DEF TreeInv, Tree!TypeOK, TreeOK, Tree!tree, Calls, Tree!ChildrenOf
<1>3. HandOK'
  BY <1>1 DEF TreeInv, HandOK, Hand, Tree!tree
<1>4. ASSUME ~overlapped
      PROVE  InTurn' /\ \A u \in Threads \ {t} : Climbing(u)' /\ Lowering(u)'
  <2>1. \A u \in Threads \ {t} : call[u].phase = "idle"
    BY <1>4 DEF TreeInv, TurnsInv, InTurn, Tree!IsIdle
  <2> QED
    BY <1>1, <2>1 DEF InTurn, Tree!IsIdle, Climbing, Lowering, Tree!At
<1> QED
  BY <1>2, <1>3, <1>4 DEF TreeInv, TurnsInv

LEMMA Regulators ==
  ASSUME TreeInv, NEW t \in Threads
  PROVE  /\ call[t] \in Calls /\ call[t].path \in Seq(Nodes) /\ call[t].next \in Nodes \cup {None}
         /\ call[t].todo \in Seq([node : Nodes, seen : BOOLEAN])
         /\ Len(call[t].path) \in Nat /\ Len(call[t].todo) \in Nat
         /\ lock \in [Nodes -> Threads \cup {None}] /\ on \in [Nodes -> BOOLEAN]
         /\ listed \subseteq Nodes /\ linked \subseteq listed
<1>1. call[t] \in Calls
  BY CallsTyped DEF TreeInv
<1>2. call[t].path \in Seq(Nodes) /\ call[t].next \in Nodes \cup {None} /\ call[t].todo \in Seq([node : Nodes, seen : BOOLEAN])
  BY <1>1 DEF Calls
<1>3. ASSUME NEW S, NEW s \in Seq(S) PROVE Len(s) \in Nat
  OBVIOUS
<1>4. Len(call[t].path) \in Nat /\ Len(call[t].todo) \in Nat
  BY <1>2, <1>3
<1> QED
  BY <1>1, <1>2, <1>4 DEF TreeInv, Tree!TypeOK

(* A call that goes on to give its mutexes back, or that returns.           *)
LEMMA LeavingKeeps ==
  ASSUME Wired, TreeInv, NEW t \in Threads, ~Tree!IsIdle(t), NEW fault \in BOOLEAN, UNCHANGED <<Tree!tree, on, lock, overlapped>>,
         Tree!Becomes(t, [call[t] EXCEPT !.phase = "leave", !.fault = fault])
  PROVE  TreeInv'
<1> DEFINE c == [call[t] EXCEPT !.phase = "leave", !.fault = fault]
<1>1. c \in Calls /\ c.phase = "leave" /\ c.path = call[t].path
  BY Regulators DEF Calls
<1>2. call'[t] = c
  BY Regulators, CallsTyped DEF Tree!Becomes, TreeInv
<1> HIDE DEF c
<1>3. Hand(t)' /\ (~overlapped => Tree!SuppliesOn' /\ Climbing(t)' /\ Lowering(t)')
  BY <1>1, <1>2 DEF Hand, TreeInv, HandOK, TurnsInv, Tree!SuppliesOn, Climbing, Lowering, Tree!At, Tree!tree
<1> QED
  BY <1>1, <1>3, Regulators, StepKeeps DEF TreeInv, TreeOK, c

LEMMA EndKeeps ==
  ASSUME Wired, TreeInv, NEW t \in Threads, ~Tree!IsIdle(t), UNCHANGED <<Tree!tree, on, lock, overlapped>>, Tree!Becomes(t, Tree!Idle)
  PROVE  TreeInv'
<1>1. Tree!Idle \in Calls /\ Tree!Idle.phase = "idle" /\ Tree!Idle.path = <<>>
  BY DEF Calls, Tree!Idle
<1>2. call'[t] = Tree!Idle
  BY Regulators, CallsTyped DEF Tree!Becomes, TreeInv
<1>3. Hand(t)' /\ (~overlapped => Tree!SuppliesOn' /\ Climbing(t)' /\ Lowering(t)')
  BY <1>1, <1>2 DEF Hand, TreeInv, TurnsInv, Tree!SuppliesOn, Climbing, Lowering, Tree!At, Tree!tree
<1> QED
  BY <1>1, <1>3, Regulators, StepKeeps DEF TreeInv, TreeOK

LEMMA LookBeforeEnableKeeps == ASSUME Wired, TreeInv, NEW t \in Threads, Tree!LookBeforeEnable(t) PROVE TreeInv'
<1> DEFINE c == [call[t] EXCEPT !.phase = IF on[call[t].next] THEN "raise" ELSE "lockEnable"]
<1>1. c \in Calls /\ Tree!At(t, "enable") /\ Tree!Becomes(t, c) /\ UNCHANGED <<Tree!tree, on, lock, overlapped>>
  BY Regulators DEF Tree!LookBeforeEnable, Tree!Goto, Calls
<1>2. call'[t] = c /\ c.path = call[t].path /\ c.next = call[t].next
      /\ c.phase = IF on[call[t].next] THEN "raise" ELSE "lockEnable"
  BY <1>1, Regulators, CallsTyped DEF Tree!Becomes, Calls, TreeInv
<1> HIDE DEF c
<1>3. Hand(t)'
  BY <1>1, <1>2 DEF Hand, TreeInv, HandOK, Tree!tree, Tree!At
<1>4. ASSUME ~overlapped
      PROVE  Tree!SuppliesOn' /\ Climbing(t)' /\ Lowering(t)'
  BY <1>1, <1>2, <1>4 DEF TreeInv, TurnsInv, Tree!SuppliesOn, Climbing, Lowering, Tree!tree, Tree!At, Tree!Top
<1> QED
  BY <1>1, <1>3, <1>4, Regulators, StepKeeps DEF TreeInv, TreeOK, Tree!At, Tree!IsIdle

LEMMA LockToEnableKeeps == ASSUME Wired, TreeInv, NEW t \in Threads, Tree!LockToEnable(t) PROVE TreeInv'
<1> DEFINE n == call[t].next
           c == [call[t] EXCEPT
               !.path = Tree!Holding(t),
               !.phase = IF ~Tree!HasParent(n) THEN "raise"
                         ELSE IF n \in linked THEN "enable" ELSE "leave",
               !.next = IF n \in linked THEN ParentOf[n] ELSE None]
<1>1. /\ Tree!At(t, "lockEnable") /\ Tree!Becomes(t, c) /\ UNCHANGED <<Tree!tree, on, overlapped>>
      /\ lock' \in [Nodes -> Threads \cup {None}] /\ n \in listed /\ n \in Nodes
  BY Regulators DEF Tree!LockToEnable, Tree!TakeLock, TreeInv, HandOK, Hand, Tree!At
<1>2. Tree!Holding(t) = Append(call[t].path, n) /\ Tree!Holding(t) \in Seq(Nodes)
  BY <1>1, Regulators DEF Tree!Holding
<1>3. c \in Calls
  <2>1. PICK f \in {"raise", "enable", "leave"} :
           f = IF ~Tree!HasParent(n) THEN "raise" ELSE IF n \in linked THEN "enable" ELSE "leave"
    OBVIOUS
  <2>2. PICK q \in Nodes \cup {None} : q = IF n \in linked THEN ParentOf[n] ELSE None
    BY <1>1 DEF Wired
  <2>3. PICK p \in Seq(Nodes) : p = Tree!Holding(t)
    BY <1>2
  <2>4. call[t] \in Calls
    BY Regulators
  <2>5. [call[t] EXCEPT !.path = p, !.phase = f, !.next = q] \in Calls
    BY ONLY <2>4, CallMoved, p \in Seq(Nodes), q \in Nodes \cup {None}, f \in {"raise", "enable", "leave"}
  <2> QED
    BY <2>1, <2>2, <2>3, <2>5, Zenon
<1>4. call'[t] = c /\ c.path = Append(call[t].path, n)
      /\ c.next = (IF n \in linked THEN ParentOf[n] ELSE None)
      /\ c.phase = IF ~Tree!HasParent(n) THEN "raise" ELSE IF n \in linked THEN "enable" ELSE "leave"
  BY <1>1, <1>2, Regulators, CallsTyped DEF Tree!Becomes, Calls, TreeInv
<1>5. n \in linked => ParentOf[n] \in listed /\ Tree!HasParent(n)
  BY <1>1, Regulators DEF TreeInv, TreeOK, Tree!HasParent, Wired
<1> HIDE DEF c, n
<1>6. Hand(t)'
  BY <1>1, <1>4, <1>5, Lengthened, Regulators DEF Hand, TreeInv, HandOK, Tree!tree, Tree!At
<1>7. ASSUME ~overlapped
      PROVE  Tree!SuppliesOn' /\ Climbing(t)' /\ Lowering(t)'
  <2>1. Tree!SuppliesOn'
    BY <1>1, <1>7 DEF TreeInv, TurnsInv, Tree!SuppliesOn, Tree!tree
  <2>2. Lowering(t)'
    BY <1>4 DEF Lowering, Tree!At
  <2>3. Climbing(t)'
    <3>1. \A i \in 1..Len(call[t].path) : c.path[i] = call[t].path[i]
      BY <1>1, <1>4, Lengthened, Regulators
    <3>2. Len(c.path) = Len(call[t].path) + 1 /\ c.path[Len(call[t].path) + 1] = n /\ Tree!Last(c.path) = n
      BY <1>1, <1>4, Lengthened, Regulators
    <3>3. \A i \in 1..Len(call[t].path) - 1 : ParentOf[call[t].path[i]] = call[t].path[i + 1]
      BY <1>1, <1>7 DEF TreeInv, TurnsInv, Climbing, Tree!At
    <3>4. call[t].path # <<>> => ParentOf[call[t].path[Len(call[t].path)]] = n /\ Len(call[t].path) > 0
      <4>1. Climbing(t) /\ call[t].phase = "lockEnable"
        BY <1>1, <1>7 DEF TreeInv, TurnsInv, Tree!At
      <4>2. call[t].path # <<>> => call[t].next = ParentOf[Tree!Top(t)]
        BY <4>1 DEF Climbing, Tree!At
      <4>3. call[t].path \in Seq(Nodes) /\ Len(call[t].path) \in Nat
        BY Regulators
      <4> QED
        BY <4>2, <4>3 DEF Tree!Top, Tree!Last, n
    <3>5. \A i \in 1..Len(c.path) - 1 : ParentOf[c.path[i]] = c.path[i + 1]
      <4>1. SUFFICES ASSUME NEW i \in 1..Len(call[t].path) PROVE ParentOf[c.path[i]] = c.path[i + 1]
        BY <3>2, Regulators
      <4>2. CASE i = Len(call[t].path)
        BY <3>1, <3>2, <3>4, <4>2, Regulators
      <4>3. CASE i # Len(call[t].path)
        BY <3>1, <3>3, <4>3, Regulators
      <4> QED
        BY <4>2, <4>3
    <3> QED
      BY <1>1, <1>4, <1>5, <3>2, <3>5 DEF Climbing, Tree!At, Tree!Top, Tree!tree
  <2> QED
    BY <2>1, <2>2, <2>3
<1> QED
  BY <1>1, <1>3, <1>6, <1>7, Regulators, StepKeeps DEF TreeInv, TreeOK, Tree!At, Tree!IsIdle

LEMMA RaiseKeeps == ASSUME Wired, TreeInv, NEW t \in Threads, Tree!Raise(t) PROVE TreeInv'
<1>1. Tree!At(t, "raise") /\ UNCHANGED <<Tree!tree, overlapped>>
  BY DEF Tree!Raise
<1>2. CASE Tree!Becomes(t, Tree!Idle) /\ UNCHANGED <<on, lock>>
  BY <1>1, <1>2, EndKeeps DEF Tree!At, Tree!IsIdle
<1>3. CASE Tree!Becomes(t, [call[t] EXCEPT !.phase = "leave", !.fault = TRUE]) /\ UNCHANGED <<on, lock>>
  BY <1>1, <1>3, LeavingKeeps DEF Tree!At, Tree!IsIdle
<1>4. CASE call[t].path # <<>> /\ on' = [on EXCEPT ![Tree!Top(t)] = TRUE] /\ Tree!Unlocks(Tree!Top(t)) /\ Tree!Becomes(t, Tree!Pop(t))
  <2> DEFINE p == call[t].path
             n == Tree!Top(t)
             c == Tree!Pop(t)
  <2>1. /\ Tree!Front(p) \in Seq(Nodes) /\ Len(p) \in Nat \ {0} /\ Len(Tree!Front(p)) = Len(p) - 1
        /\ \A i \in 1..Len(p) - 1 : Tree!Front(p)[i] = p[i]
        /\ n \in Nodes /\ n = p[Len(p)]
        /\ Tree!Front(p) # <<>> => Len(p) > 1 /\ Tree!Last(Tree!Front(p)) = p[Len(p) - 1]
    <3>1. p \in Seq(Nodes) /\ p # <<>>
      BY <1>4, Regulators
    <3>2. n = Tree!Last(p)
      BY DEF Tree!Top
    <3> HIDE DEF p, n
    <3> QED
      BY <3>1, <3>2, Shortened
  <2>2. c \in Calls /\ c.path = Tree!Front(p) /\ c.phase = "raise"
    <3>1. call[t] \in Calls /\ call[t].phase = "raise"
      BY <1>1, Regulators DEF Tree!At
    <3>2. Tree!Front(p) \in Seq(Nodes) /\ c = [call[t] EXCEPT !.path = Tree!Front(p)]
      BY <2>1 DEF Tree!Pop
    <3> HIDE DEF p, c
    <3> QED
      BY <3>1, <3>2, PathSet
  <2>3. call'[t] = c
    BY <1>4, Regulators, CallsTyped DEF Tree!Becomes, TreeInv
  <2>4. lock' \in [Nodes -> Threads \cup {None}] /\ on' \in [Nodes -> BOOLEAN]
        /\ on'[n] = TRUE /\ \A m \in Nodes \ {n} : on'[m] = on[m]
    BY <1>4, <2>1, Regulators DEF Tree!Unlocks
  <2>5. n \in listed
    BY <2>1 DEF TreeInv, HandOK, Hand
  <2>6. \A m \in Nodes : on'[m] => m \in listed
    BY <2>4, <2>5 DEF TreeInv, TreeOK
  <2> HIDE DEF c, n
  <2>7. Hand(t)'
    <3>1. Hand(t) /\ listed' = listed
      BY <1>1 DEF TreeInv, HandOK, Tree!tree
    <3>2. \A i \in 1..Len(p) : p[i] \in listed
      BY <3>1 DEF Hand
    <3>3. \A i \in 1..Len(Tree!Front(p)) : Tree!Front(p)[i] \in listed
      BY <2>1, <3>2
    <3> HIDE DEF p
    <3> QED
      BY <2>2, <2>3, <3>1, <3>3 DEF Hand
  <2>8. ASSUME ~overlapped
        PROVE  Tree!SuppliesOn' /\ Climbing(t)' /\ Lowering(t)'
    <3>1. n \in linked => on[ParentOf[n]]
      BY <1>1, <1>4, <2>8 DEF TreeInv, TurnsInv, Climbing, Tree!At, n
    <3>2. Tree!SuppliesOn'
      BY <1>1, <2>4, <2>8, <3>1, Regulators DEF TreeInv, TurnsInv, Tree!SuppliesOn, TreeOK, Tree!tree
    <3>3. \A i \in 1..Len(p) - 1 : ParentOf[p[i]] = p[i + 1]
      BY <1>1, <2>8 DEF TreeInv, TurnsInv, Climbing, Tree!At
    <3>4. Tree!Front(p) # <<>> => ParentOf[Tree!Last(Tree!Front(p))] = n
      <4> HIDE DEF p
      <4>1. Tree!Front(p) # <<>> => Len(p) - 1 \in 1..Len(p) - 1 /\ p[Len(p) - 1 + 1] = n
        BY ONLY <2>1
      <4>2. Tree!Front(p) # <<>> => ParentOf[p[Len(p) - 1]] = n
        BY ONLY <3>3, <4>1
      <4> QED
        BY <2>1, <4>2
    <3>5. \A i \in 1..Len(Tree!Front(p)) - 1 : ParentOf[Tree!Front(p)[i]] = Tree!Front(p)[i + 1]
      <4> HIDE DEF p
      <4>1. SUFFICES ASSUME NEW i \in 1..Len(p) - 2 PROVE ParentOf[Tree!Front(p)[i]] = Tree!Front(p)[i + 1]
        BY <2>1
      <4>2. i \in 1..Len(p) - 1 /\ i + 1 \in 1..Len(p) - 1
        BY ONLY <2>1
      <4>3. Tree!Front(p)[i] = p[i] /\ Tree!Front(p)[i + 1] = p[i + 1]
        BY <2>1, <4>2
      <4> QED
        BY <3>3, <4>2, <4>3
    <3> QED
      BY <1>1, <2>2, <2>3, <2>4, <3>2, <3>4, <3>5 DEF Climbing, Lowering, Tree!At, Tree!Top, Tree!tree
  <2> QED
    BY <1>1, <1>4, <2>2, <2>4, <2>6, <2>7, <2>8, StepKeeps DEF Tree!At, Tree!IsIdle, c
<1> QED
  BY <1>2, <1>3, <1>4 DEF Tree!Raise

LEMMA LeaveKeeps == ASSUME Wired, TreeInv, NEW t \in Threads, Tree!Leave(t) PROVE TreeInv'
<1>1. Tree!At(t, "leave") /\ UNCHANGED <<Tree!tree, on, overlapped>>
  BY DEF Tree!Leave
<1>2. CASE Tree!Becomes(t, Tree!Idle) /\ UNCHANGED lock
  BY <1>1, <1>2, EndKeeps DEF Tree!At, Tree!IsIdle
<1>3. CASE call[t].path # <<>> /\ Tree!Unlocks(Tree!Top(t)) /\ Tree!Becomes(t, Tree!Pop(t))
  <2> DEFINE p == call[t].path
  <2>1. /\ Tree!Front(p) \in Seq(Nodes) /\ Len(p) \in Nat \ {0} /\ Len(Tree!Front(p)) = Len(p) - 1
        /\ \A i \in 1..Len(p) - 1 : Tree!Front(p)[i] = p[i]
    BY <1>3, Shortened, Regulators
  <2>2. Tree!Pop(t) \in Calls /\ Tree!Pop(t).path = Tree!Front(p) /\ Tree!Pop(t).phase = "leave"
    BY <1>1, <2>1, Regulators DEF Tree!Pop, Calls, Tree!At
  <2>3. call'[t] = Tree!Pop(t) /\ lock' \in [Nodes -> Threads \cup {None}]
    BY <1>3, Regulators, CallsTyped DEF Tree!Becomes, TreeInv, Tree!Unlocks
  <2>4. Hand(t)'
    BY <1>1, <2>1, <2>2, <2>3 DEF Hand, TreeInv, HandOK, Tree!tree
  <2>5. ~overlapped => Tree!SuppliesOn' /\ Climbing(t)' /\ Lowering(t)'
    BY <1>1, <2>2, <2>3 DEF TreeInv, TurnsInv, Tree!SuppliesOn, Climbing, Lowering, Tree!At, Tree!tree
  <2> QED
    BY <1>1, <1>3, <2>2, <2>3, <2>4, <2>5, Regulators, StepKeeps DEF Tree!At, Tree!IsIdle, TreeInv, TreeOK
<1> QED
  BY <1>2, <1>3 DEF Tree!Leave

(* A call that only goes on to another step.                                *)
LEMMA GoesOn ==
  ASSUME Wired, TreeInv, NEW t \in Threads, UNCHANGED <<Tree!tree, on, lock, overlapped>>,
         NEW phase \in {"leave", "lower", "lockDisable"}, Tree!Goto(t, phase), ~Tree!IsIdle(t),
         phase = "lockDisable" => call[t].next \in listed,
         phase = "lower" => call[t].path # <<>> /\ (~overlapped => Forced(t, Tree!Top(t), 0))
  PROVE  TreeInv'
<1> DEFINE c == [call[t] EXCEPT !.phase = phase]
<1>1. c \in Calls /\ c.phase = phase /\ c.path = call[t].path /\ c.next = call[t].next /\ c.todo = call[t].todo
  BY Regulators DEF Calls
<1>2. call'[t] = c /\ Tree!Becomes(t, c)
  BY Regulators, CallsTyped DEF Tree!Becomes, Tree!Goto, TreeInv
<1> HIDE DEF c
<1>3. Hand(t)' /\ (~overlapped => Tree!SuppliesOn' /\ Climbing(t)' /\ Lowering(t)')
  BY <1>1, <1>2 DEF Hand, TreeInv, HandOK, TurnsInv, Tree!SuppliesOn, Climbing, Lowering, Forced, Tree!Top, Tree!At, Tree!tree
<1> QED
  BY <1>1, <1>2, <1>3, Regulators, StepKeeps DEF TreeInv, TreeOK

LEMMA LookBeforeDisableKeeps == ASSUME Wired, TreeInv, NEW t \in Threads, Tree!LookBeforeDisable(t) PROVE TreeInv'
BY GoesOn DEF Tree!LookBeforeDisable, Tree!At, Tree!IsIdle, TreeInv, HandOK, Hand

LEMMA LockToDisableKeeps == ASSUME Wired, TreeInv, NEW t \in Threads, Tree!LockToDisable(t) PROVE TreeInv'
<1> DEFINE n == call[t].next
           c == [call[t] EXCEPT !.phase = "lookBelow", !.path = Tree!Holding(t)]
<1>1. /\ Tree!At(t, "lockDisable") /\ Tree!Becomes(t, c) /\ UNCHANGED <<Tree!tree, on, overlapped>>
      /\ lock' \in [Nodes -> Threads \cup {None}] /\ n \in listed /\ n \in Nodes
  BY Regulators DEF Tree!LockToDisable, Tree!TakeLock, TreeInv, HandOK, Hand, Tree!At
<1>2. Tree!Holding(t) = Append(call[t].path, n) /\ Tree!Holding(t) \in Seq(Nodes)
  BY <1>1, Regulators DEF Tree!Holding
<1>3. c \in Calls /\ c.path = Append(call[t].path, n) /\ c.phase = "lookBelow"
  BY <1>1, <1>2, Regulators DEF Calls
<1>4. call'[t] = c
  BY <1>1, Regulators, CallsTyped DEF Tree!Becomes, TreeInv
<1> HIDE DEF c, n
<1>5. Hand(t)'
  <2>1. \A i \in 1..Len(call[t].path) : call[t].path[i] \in listed
    BY DEF TreeInv, HandOK, Hand
  <2>2. c.path # <<>> /\ \A i \in 1..Len(c.path) : c.path[i] \in listed
    <3>1. PICK p \in Seq(Nodes) : p = call[t].path /\ Len(p) \in Nat
      BY Regulators
    <3>2. /\ Append(p, n) # <<>> /\ Len(Append(p, n)) = Len(p) + 1 /\ Append(p, n)[Len(p) + 1] = n
          /\ \A i \in 1..Len(p) : Append(p, n)[i] = p[i]
      BY <1>1, Lengthened
    <3> QED
      BY <1>1, <1>3, <2>1, <3>1, <3>2
  <2> QED
    BY <1>1, <1>3, <1>4, <2>2 DEF Hand, Tree!tree
<1>6. ~overlapped => Tree!SuppliesOn' /\ Climbing(t)' /\ Lowering(t)'
  BY <1>1, <1>3, <1>4 DEF TreeInv, TurnsInv, Tree!SuppliesOn, Climbing, Lowering, Tree!At, Tree!tree
<1> QED
  BY <1>1, <1>3, <1>5, <1>6, Regulators, StepKeeps DEF Tree!At, Tree!IsIdle, TreeInv, TreeOK

LEMMA LookBelowKeeps == ASSUME Wired, TreeInv, NEW t \in Threads, Tree!LookBelow(t) PROVE TreeInv'
<1>1. Tree!At(t, "lookBelow") /\ call[t].path # <<>> /\ UNCHANGED <<Tree!tree, on, lock, overlapped>>
  BY DEF Tree!LookBelow, Tree!At, TreeInv, HandOK, Hand
<1>2. CASE Tree!Goto(t, "leave")
  BY <1>1, <1>2, GoesOn DEF Tree!At, Tree!IsIdle
<1>3. CASE Tree!Goto(t, "lower") /\ \A c \in Tree!ToSet(Tree!ChildrenOf(Tree!Top(t))) : ~on[c]
  <2>1. \A c \in linked : ParentOf[c] = Tree!Top(t) => ~on[c]
    BY <1>3 DEF TreeInv, TreeOK
  <2> QED
    BY <1>1, <1>3, <2>1, GoesOn DEF Tree!At, Tree!IsIdle, Forced
<1> QED
  BY <1>2, <1>3 DEF Tree!LookBelow

LEMMA LowerKeeps == ASSUME Wired, TreeInv, NEW t \in Threads, Tree!Lower(t) PROVE TreeInv'
<1> DEFINE n == Tree!Top(t)
<1>1. Tree!At(t, "lower") /\ call[t].path # <<>> /\ UNCHANGED <<Tree!tree, lock, overlapped>>
  BY DEF Tree!Lower, Tree!At, TreeInv, HandOK, Hand
<1>2. CASE Tree!Becomes(t, [call[t] EXCEPT !.phase = "leave", !.fault = TRUE]) /\ UNCHANGED on
  BY <1>1, <1>2, LeavingKeeps DEF Tree!At, Tree!IsIdle
<1>3. CASE /\ on' = [on EXCEPT ![n] = FALSE]
           /\ IF n \in linked THEN Tree!Climb(t, "disable", ParentOf[n]) ELSE Tree!Goto(t, "leave")
  <2>1. n \in Nodes /\ on' \in [Nodes -> BOOLEAN] /\ on'[n] = FALSE /\ \A m \in Nodes \ {n} : on'[m] = on[m]
    BY <1>1, <1>3, Shortened, Regulators DEF Tree!Top
  <2>2. PICK c \in Calls : /\ Tree!Becomes(t, c) /\ c.path = call[t].path /\ c.phase \in {"disable", "leave"}
                           /\ c.phase = "disable" => c.next \in listed
    <3>1. CASE n \in linked
      <4> DEFINE c == [call[t] EXCEPT !.phase = "disable", !.next = ParentOf[n]]
      <4>1. ParentOf[n] \in listed /\ ParentOf[n] \in Nodes
        BY <3>1, Regulators DEF TreeInv, TreeOK
      <4>2. c \in Calls /\ c.path = call[t].path /\ c.phase = "disable" /\ c.next = ParentOf[n]
        BY <4>1, Regulators DEF Calls
      <4>3. Tree!Becomes(t, c)
        BY <1>3, <3>1 DEF Tree!Climb
      <4> HIDE DEF c
      <4> QED
        BY <4>1, <4>2, <4>3
    <3>2. CASE n \notin linked
      <4> DEFINE c == [call[t] EXCEPT !.phase = "leave"]
      <4>1. c \in Calls /\ c.path = call[t].path /\ c.phase = "leave"
        BY Regulators DEF Calls
      <4>2. Tree!Becomes(t, c)
        BY <1>3, <3>2 DEF Tree!Goto
      <4> HIDE DEF c
      <4> QED
        BY <4>1, <4>2
    <3> QED
      BY <3>1, <3>2
  <2>3. call'[t] = c
    BY <2>2, Regulators, CallsTyped DEF Tree!Becomes, TreeInv
  <2>4. Hand(t)'
    BY <1>1, <2>2, <2>3 DEF Hand, TreeInv, HandOK, Tree!tree
  <2>5. ASSUME ~overlapped
        PROVE  Tree!SuppliesOn' /\ Climbing(t)' /\ Lowering(t)'
    <3>1. \A m \in linked : ParentOf[m] = n => ~on[m]
      BY <1>1, <2>5 DEF TreeInv, TurnsInv, Lowering, Forced
    <3>2. Tree!SuppliesOn'
      BY <1>1, <2>1, <2>5, <3>1, Regulators DEF TreeInv, TurnsInv, Tree!SuppliesOn, TreeOK, Tree!tree
    <3> QED
      BY <2>2, <2>3, <3>2 DEF Climbing, Lowering, Tree!At
  <2>6. \A m \in Nodes : on'[m] => m \in listed
    BY <2>1 DEF TreeInv, TreeOK
  <2> QED
    BY <1>1, <2>1, <2>2, <2>4, <2>5, <2>6, Regulators, StepKeeps DEF Tree!At, Tree!IsIdle
<1> QED
  BY <1>2, <1>3 DEF Tree!Lower

-----------------------------------------------------------------------------
Entries == [node : Nodes, seen : BOOLEAN]

LEMMA VisitsAre ==
  ASSUME TreeInv, NEW n \in Nodes
  PROVE  /\ Tree!Visits(n) \in Seq(Entries) /\ Len(Tree!Visits(n)) \in Nat
         /\ \A k \in 1..Len(Tree!Visits(n)) : ~Tree!Visits(n)[k].seen
         /\ \A c \in linked : ParentOf[c] = n => \E k \in 1..Len(Tree!Visits(n)) : Tree!Visits(n)[k].node = c
<1>1. PICK s \in Seq(Nodes) : s = Tree!ChildrenOf(n)
  <2>1. <<>> \in Seq(Nodes)
    OBVIOUS
  <2> QED
    BY <2>1 DEF Tree!ChildrenOf, TreeInv, Tree!TypeOK
<1>2. Len(s) \in Nat /\ DOMAIN s = 1..Len(s) /\ \A i \in 1..Len(s) : s[i] \in Nodes
  OBVIOUS
<1>3. Tree!Visits(n) = [i \in 1..Len(s) |-> [node |-> s[i], seen |-> FALSE]]
  BY <1>1, <1>2 DEF Tree!Visits
<1>4. Tree!Visits(n) \in Seq(Entries) /\ Len(Tree!Visits(n)) = Len(s)
  <2>1. Tree!Visits(n) \in [1..Len(s) -> Entries]
    BY <1>2, <1>3 DEF Entries
  <2> QED
    BY <1>2, <2>1
<1>5. \A k \in 1..Len(s) : Tree!Visits(n)[k].node = s[k] /\ Tree!Visits(n)[k].seen = FALSE
  BY <1>3
<1>6. \A c \in linked : ParentOf[c] = n => \E k \in 1..Len(s) : s[k] = c
  BY <1>1, <1>2 DEF TreeInv, TreeOK, Tree!ToSet
<1> QED
  BY <1>2, <1>4, <1>5, <1>6

LEMMA LockToForceKeeps == ASSUME Wired, TreeInv, NEW t \in Threads, Tree!LockToForce(t) PROVE TreeInv'
<1> DEFINE n == call[t].next
           c == [call[t] EXCEPT
               !.path = Tree!Holding(t),
               !.phase = IF on[n] /\ n \in DOMAIN children THEN "forceBelow" ELSE "leave",
               !.todo = Tree!Visits(n)]
<1>1. /\ Tree!At(t, "force") /\ Tree!Becomes(t, c) /\ UNCHANGED <<Tree!tree, on, overlapped>>
      /\ lock' \in [Nodes -> Threads \cup {None}] /\ n \in listed /\ n \in Nodes
  BY Regulators DEF Tree!LockToForce, Tree!TakeLock, TreeInv, HandOK, Hand, Tree!At
<1>2. Tree!Holding(t) = Append(call[t].path, n) /\ Tree!Holding(t) \in Seq(Nodes) /\ Tree!Visits(n) \in Seq([node : Nodes, seen : BOOLEAN])
  <2>1. Tree!Visits(n) \in Seq(Entries)
    BY <1>1, VisitsAre
  <2>2. Tree!Visits(n) \in Seq([node : Nodes, seen : BOOLEAN])
    BY <2>1 DEF Entries
  <2> QED
    BY <1>1, <2>2, Regulators DEF Tree!Holding
<1>3. /\ c \in Calls /\ c.path = Append(call[t].path, n) /\ c.phase \in {"forceBelow", "leave"}
      /\ c.todo = Tree!Visits(n)
  BY <1>1, <1>2, Regulators DEF Calls
<1>4. call'[t] = c
  BY <1>1, Regulators, CallsTyped DEF Tree!Becomes, TreeInv
<1> HIDE DEF c, n
<1>5. Hand(t)'
  <2>1. \A i \in 1..Len(call[t].path) : call[t].path[i] \in listed
    BY DEF TreeInv, HandOK, Hand
  <2>2. c.path # <<>> /\ \A i \in 1..Len(c.path) : c.path[i] \in listed
    <3>1. PICK p \in Seq(Nodes) : p = call[t].path /\ Len(p) \in Nat
      BY Regulators
    <3>2. /\ Append(p, n) # <<>> /\ Len(Append(p, n)) = Len(p) + 1 /\ Append(p, n)[Len(p) + 1] = n
          /\ \A i \in 1..Len(p) : Append(p, n)[i] = p[i]
      BY <1>1, Lengthened
    <3> QED
      BY <1>1, <1>3, <2>1, <3>1, <3>2
  <2> QED
    BY <1>1, <1>3, <1>4, <2>2 DEF Hand, Tree!tree
<1>6. ASSUME ~overlapped
      PROVE  Tree!SuppliesOn' /\ Climbing(t)' /\ Lowering(t)'
  <2>1. call'[t].path = c.path /\ Tree!Last(c.path) = n
    BY <1>1, <1>3, <1>4, Lengthened, Regulators
  <2>2. \A m \in linked : ParentOf[m] = n => \E k \in 1..Len(c.todo) : c.todo[k].node = m
    BY <1>1, <1>3, VisitsAre
  <2>3. \A k \in 1..Len(c.todo) : ~c.todo[k].seen
    BY <1>1, <1>3, VisitsAre
  <2>4. DOMAIN c.todo = 1..Len(c.todo)
    BY <1>3, <1>2
  <2>5. Tree!SuppliesOn' /\ Climbing(t)'
    BY <1>1, <1>3, <1>4, <1>6 DEF TreeInv, TurnsInv, Tree!SuppliesOn, Climbing, Tree!At, Tree!tree
  <2>6. Lowering(t)'
    BY <1>1, <1>3, <1>4, <2>1, <2>2, <2>3, <2>4 DEF Lowering, Forced, Tree!Top, Tree!At, Tree!tree
  <2> QED
    BY <2>5, <2>6
<1> QED
  BY <1>1, <1>3, <1>5, <1>6, Regulators, StepKeeps DEF Tree!At, Tree!IsIdle, TreeInv, TreeOK

\* The recursion goes down from the first entry.
LEMMA Expanded ==
  ASSUME NEW S, NEW v \in Seq(S), NEW e \in S, NEW s \in Seq(S), s # <<>>, NEW T, T = v \o <<e>> \o Tail(s)
  PROVE  /\ T \in Seq(S) /\ Len(v) \in Nat /\ Len(s) \in Nat \ {0} /\ Len(T) = Len(v) + Len(s)
         /\ DOMAIN T = 1..Len(T)
         /\ \A k \in 1..Len(v) : T[k] = v[k]
         /\ T[Len(v) + 1] = e
         /\ \A k \in 2..Len(s) : T[Len(v) + k] = s[k]
<1>1. Len(v) \in Nat /\ Len(s) \in Nat \ {0} /\ Tail(s) \in Seq(S) /\ Len(Tail(s)) = Len(s) - 1
      /\ \A k \in 1..Len(s) - 1 : Tail(s)[k] = s[k + 1]
  OBVIOUS
<1>2. PICK u \in Seq(S) : u = Tail(s)
  BY <1>1
<1>3. PICK w \in Seq(S) : w = v \o <<e>>
  <2>1. <<e>> \in Seq(S)
    OBVIOUS
  <2>2. \A f \in Seq(S) : v \o f \in Seq(S)
    OBVIOUS
  <2> QED
    BY <2>1, <2>2
<1>4. Len(w) = Len(v) + 1 /\ w[Len(v) + 1] = e /\ \A k \in 1..Len(v) : w[k] = v[k]
  BY <1>3
<1>5. /\ w \o u \in Seq(S) /\ Len(w \o u) = Len(w) + Len(u) /\ DOMAIN (w \o u) = 1..Len(w \o u)
      /\ \A k \in 1..Len(w) : (w \o u)[k] = w[k]
      /\ \A k \in 1..Len(u) : (w \o u)[Len(w) + k] = u[k]
  OBVIOUS
<1>6. T = w \o u
  BY <1>2, <1>3
<1>7. ASSUME NEW k \in 2..Len(s) PROVE T[Len(v) + k] = s[k]
  <2>1. k - 1 \in 1..Len(u) /\ Len(w) + (k - 1) = Len(v) + k /\ u[k - 1] = s[k]
    BY <1>1, <1>2, <1>4
  <2> QED
    BY <1>5, <1>6, <2>1
<1>8. Len(w) + Len(u) = Len(v) + Len(s)
  BY <1>1, <1>2, <1>4
<1>9. \A k \in 1..Len(v) + 1 : T[k] = w[k]
  BY <1>4, <1>5, <1>6
<1>10. T[Len(v) + 1] = e /\ \A k \in 1..Len(v) : T[k] = v[k]
  BY <1>1, <1>4, <1>9
<1> QED
  BY <1>1, <1>5, <1>6, <1>7, <1>8, <1>10, Zenon

LEMMA ForceBelowKeeps == ASSUME Wired, TreeInv, NEW t \in Threads, Tree!ForceBelow(t) PROVE TreeInv'
<1>1. PICK s \in Seq(Entries) : s = call[t].todo
  BY Regulators DEF Entries
<1>2. /\ Tree!At(t, "forceBelow") /\ call[t].path # <<>> /\ UNCHANGED <<Tree!tree, lock, overlapped>>
      /\ Len(s) \in Nat /\ DOMAIN s = 1..Len(s)
  <2>1. Tree!At(t, "forceBelow") /\ UNCHANGED <<Tree!tree, lock, overlapped>>
    BY DEF Tree!ForceBelow
  <2>2. call[t].path # <<>>
    BY <2>1 DEF TreeInv, HandOK, Hand, Tree!At
  <2>3. Len(s) \in Nat /\ DOMAIN s = 1..Len(s)
    OBVIOUS
  <2> QED
    BY <2>1, <2>2, <2>3
<1>3. ASSUME ~overlapped
      PROVE  /\ Tree!SuppliesOn /\ Forced(t, Tree!Top(t), Len(s))
             /\ \A k \in 1..Len(s) : s[k].seen => Forced(t, s[k].node, k - 1)
  BY <1>1, <1>2, <1>3 DEF TreeInv, TurnsInv, Lowering
<1>4. CASE s = <<>> /\ Tree!Goto(t, "lower") /\ UNCHANGED on
  <2>1. Len(s) = 0
    BY <1>4
  <2> QED
    BY <1>2, <1>3, <1>4, <2>1, GoesOn DEF Tree!At, Tree!IsIdle
<1>5. CASE /\ s # <<>> /\ ~Head(s).seen /\ UNCHANGED on
           /\ Tree!Becomes(t, [call[t] EXCEPT
                  !.todo = Tree!Visits(Head(s).node) \o <<[Head(s) EXCEPT !.seen = TRUE]>> \o Tail(s)])
  <2>1. PICK n \in Nodes, b \in BOOLEAN : s[1] = [node |-> n, seen |-> b] /\ n = s[1].node /\ s[1] = Head(s)
    <3>1. s[1] \in Entries /\ s[1] = Head(s)
      BY <1>5
    <3> QED
      BY <3>1 DEF Entries
  <2>2. PICK v, e, T : /\ v \in Seq(Entries) /\ e \in Entries
                       /\ v = Tree!Visits(n) /\ e = [node |-> n, seen |-> TRUE] /\ T = v \o <<e>> \o Tail(s)
    <3>1. Tree!Visits(n) \in Seq(Entries)
      BY VisitsAre
    <3>2. [node |-> n, seen |-> TRUE] \in Entries
      BY DEF Entries
    <3> QED
      BY <3>1, <3>2
  <2>3. /\ T \in Seq(Entries) /\ Len(v) \in Nat /\ Len(s) \in Nat \ {0} /\ Len(T) = Len(v) + Len(s)
        /\ DOMAIN T = 1..Len(T)
        /\ \A k \in 1..Len(v) : T[k] = v[k]
        /\ T[Len(v) + 1] = e
        /\ \A k \in 2..Len(s) : T[Len(v) + k] = s[k]
    <3>1. s \in Seq(Entries) /\ s # <<>>
      BY <1>5
    <3> QED
      BY ONLY <2>2, <3>1, Expanded
  <2> DEFINE c == [call[t] EXCEPT !.todo = T]
  <2>4. Tree!Becomes(t, c)
    <3>1. [Head(s) EXCEPT !.seen = TRUE] = e
      <4>1. ASSUME NEW h, NEW x, h = [node |-> n, seen |-> b]
            PROVE  [h EXCEPT !.seen = x] = [node |-> n, seen |-> x]
        BY <4>1
      <4>2. Head(s) = [node |-> n, seen |-> b]
        BY <2>1
      <4>3. \A x : [Head(s) EXCEPT !.seen = x] = [node |-> n, seen |-> x]
        BY ONLY <4>1, <4>2, Zenon
      <4> QED
        BY <2>2, <4>3
    <3> QED
      BY <1>5, <2>1, <2>2, <3>1
  <2>5. c \in Calls /\ c.path = call[t].path /\ c.phase = "forceBelow" /\ c.todo = T
    <3>1. T \in Seq([node : Nodes, seen : BOOLEAN])
      BY <2>3 DEF Entries
    <3> QED
      BY <1>2, <3>1, Regulators DEF Calls, Tree!At
  <2>6. call'[t] = c
    BY <2>4, Regulators, CallsTyped DEF Tree!Becomes, TreeInv
  <2> HIDE DEF c
  <2>7. Hand(t)'
    BY <1>2, <2>5, <2>6 DEF Hand, TreeInv, HandOK, Tree!tree
  <2>8. ASSUME ~overlapped
        PROVE  Tree!SuppliesOn' /\ Climbing(t)' /\ Lowering(t)'
    <3>1. \A k \in 1..Len(s) : T[Len(v) + k].node = s[k].node
      <4>1. T[Len(v) + 1].node = s[1].node
        BY <2>1, <2>2, <2>3
      <4>2. \A k \in 2..Len(s) : T[Len(v) + k].node = s[k].node
        BY <2>3
      <4> QED
        BY <2>3, <4>1, <4>2
    <3>2. ASSUME NEW m, NEW k \in 0..Len(s), Forced(t, m, k) PROVE Forced(t, m, Len(v) + k)'
      <4>1. SUFFICES ASSUME NEW x \in linked, ParentOf[x] = m, on[x]
                     PROVE  \E i \in 1..Len(v) + k : T[i].node = x
        BY <1>2, <1>5, <2>5, <2>6 DEF Forced, Tree!tree
      <4>2. PICK i \in 1..k : s[i].node = x
        BY <1>1, <3>2, <4>1 DEF Forced
      <4>3. Len(v) + i \in 1..Len(v) + k /\ T[Len(v) + i].node = x
        BY <2>3, <3>1, <4>2
      <4> QED
        BY <4>3
    <3>3. Tree!Top(t)' = Tree!Top(t)
      BY <2>5, <2>6 DEF Tree!Top
    <3>4. Forced(t, Tree!Top(t), Len(T))'
      <4>1. Forced(t, Tree!Top(t), Len(v) + Len(s))'
        BY <1>2, <1>3, <2>8, <3>2, <3>3
      <4> QED
        BY <2>3, <3>3, <4>1, <2>5, <2>6 DEF Forced
    <3>5. ASSUME NEW k \in 1..Len(T), T[k].seen PROVE Forced(t, T[k].node, k - 1)'
      <4>1. CASE k \in 1..Len(v)
        BY <2>2, <2>3, <3>5, <4>1, VisitsAre
      <4>2. CASE k = Len(v) + 1
        <5>1. \A x \in linked : ParentOf[x] = n => \E i \in 1..Len(v) : v[i].node = x
          BY <2>2, VisitsAre
        <5>2. \A x \in linked : ParentOf[x] = n => \E i \in 1..Len(v) : T[i].node = x
          BY <2>3, <5>1
        <5>3. k - 1 = Len(v) /\ T[k].node = n
          BY <2>2, <2>3, <4>2
        <5> QED
          BY <1>2, <2>5, <2>6, <5>2, <5>3 DEF Forced, Tree!tree
      <4>3. CASE k \in Len(v) + 2..Len(T)
        <5>1. PICK j \in 2..Len(s) : k = Len(v) + j
          <6>1. k - Len(v) \in 2..Len(s) /\ k = Len(v) + (k - Len(v))
            BY <2>3, <4>3
          <6> QED
            BY <6>1
        <5>2. T[k] = s[j] /\ j - 1 \in 0..Len(s) /\ Len(v) + (j - 1) = k - 1
          BY <2>3, <5>1
        <5>3. Forced(t, s[j].node, j - 1)
          BY <1>3, <2>8, <3>5, <5>1, <5>2
        <5>4. Forced(t, s[j].node, Len(v) + (j - 1))'
          BY <3>2, <5>2, <5>3
        <5> QED
          BY <5>2, <5>4
      <4> QED
        BY <2>3, <4>1, <4>2, <4>3
    <3>6. Tree!SuppliesOn' /\ Climbing(t)'
      BY <1>2, <1>3, <1>5, <2>5, <2>6, <2>8 DEF Tree!SuppliesOn, Climbing, Tree!tree
    <3>7. Lowering(t)'
      BY <2>3, <2>5, <2>6, <3>4, <3>5 DEF Lowering, Tree!At
    <3> QED
      BY <3>6, <3>7
  <2> QED
    BY <1>2, <1>5, <2>4, <2>5, <2>7, <2>8, Regulators, StepKeeps DEF Tree!At, Tree!IsIdle, TreeInv, TreeOK
<1>6. CASE /\ s # <<>> /\ Head(s).seen /\ on' = [on EXCEPT ![Head(s).node] = FALSE]
           /\ Tree!Becomes(t, [call[t] EXCEPT !.todo = Tail(s)])
  <2>1. PICK n \in Nodes, b \in BOOLEAN : s[1] = [node |-> n, seen |-> b] /\ n = s[1].node /\ s[1] = Head(s)
    <3>1. s[1] \in Entries /\ s[1] = Head(s)
      BY <1>6
    <3> QED
      BY <3>1 DEF Entries
  <2> DEFINE c == [call[t] EXCEPT !.todo = Tail(s)]
  <2>2. PICK T : /\ T = Tail(s) /\ T \in Seq(Entries) /\ Len(s) \in Nat \ {0} /\ Len(T) = Len(s) - 1
                 /\ DOMAIN T = 1..Len(T) /\ \A k \in 1..Len(s) - 1 : T[k] = s[k + 1]
    <3>1. Tail(s) \in Seq(Entries) /\ Len(s) \in Nat \ {0} /\ Len(Tail(s)) = Len(s) - 1
          /\ \A k \in 1..Len(s) - 1 : Tail(s)[k] = s[k + 1]
      BY <1>6
    <3>2. DOMAIN Tail(s) = 1..Len(Tail(s))
      BY <3>1
    <3> QED
      BY <3>1, <3>2
  <2>3. Tree!Becomes(t, c)
    BY <1>6
  <2>4. c \in Calls /\ c.path = call[t].path /\ c.phase = "forceBelow" /\ c.todo = T
    BY <1>2, <2>2, Regulators DEF Calls, Entries, Tree!At
  <2>5. call'[t] = c
    BY <2>3, Regulators, CallsTyped DEF Tree!Becomes, TreeInv
  <2> HIDE DEF c
  <2>6. Hand(t)'
    BY <1>2, <2>4, <2>5 DEF Hand, TreeInv, HandOK, Tree!tree
  <2>7. on' \in [Nodes -> BOOLEAN] /\ on'[n] = FALSE /\ \A m \in Nodes \ {n} : on'[m] = on[m]
    BY <1>6, <2>1, Regulators
  <2>8. ASSUME ~overlapped
        PROVE  Tree!SuppliesOn' /\ Climbing(t)' /\ Lowering(t)'
    <3>1. \A m \in linked : ParentOf[m] = n => ~on[m]
      <4>1. Forced(t, n, 0)
        BY <1>3, <1>6, <2>1, <2>2, <2>8
      <4> QED
        BY <4>1 DEF Forced
    <3>2. ASSUME NEW m, NEW k \in 1..Len(s), Forced(t, m, k) PROVE Forced(t, m, k - 1)'
      <4>1. SUFFICES ASSUME NEW x \in linked, ParentOf[x] = m, on'[x]
                     PROVE  \E i \in 1..k - 1 : T[i].node = x
        BY <1>2, <2>4, <2>5 DEF Forced, Tree!tree
      <4>2. x # n /\ x \in Nodes /\ on[x]
        BY <2>7, <4>1, Regulators
      <4>3. PICK i \in 1..k : s[i].node = x
        BY <1>1, <3>2, <4>1, <4>2 DEF Forced
      <4>4. i # 1
        BY <2>1, <4>2, <4>3
      <4>5. i - 1 \in 1..k - 1 /\ T[i - 1] = s[i]
        BY <2>2, <4>3, <4>4
      <4> QED
        BY <4>3, <4>5
    <3>3. Tree!Top(t)' = Tree!Top(t)
      BY <2>4, <2>5 DEF Tree!Top
    <3>4. Forced(t, Tree!Top(t), Len(T))'
      <4>1. Forced(t, Tree!Top(t), Len(s) - 1)'
        BY <1>2, <1>3, <2>2, <2>8, <3>2, <3>3
      <4> QED
        BY <2>2, <4>1
    <3>5. ASSUME NEW k \in 1..Len(T), T[k].seen PROVE Forced(t, T[k].node, k - 1)'
      <4>1. k + 1 \in 1..Len(s) /\ T[k] = s[k + 1] /\ (k + 1) - 1 = k /\ k \in 1..Len(s)
        BY <2>2
      <4>2. Forced(t, s[k + 1].node, k)
        BY <1>3, <2>8, <3>5, <4>1
      <4> QED
        BY <3>2, <4>1, <4>2
    <3>6. Tree!SuppliesOn'
      BY <1>2, <1>3, <2>7, <2>8, <3>1, Regulators DEF Tree!SuppliesOn, TreeInv, TreeOK, Tree!tree
    <3>7. Climbing(t)' /\ Lowering(t)'
      BY <2>2, <2>4, <2>5, <3>4, <3>5 DEF Climbing, Lowering, Tree!At
    <3> QED
      BY <3>6, <3>7
  <2>9. \A m \in Nodes : on'[m] => m \in listed
    BY <2>7 DEF TreeInv, TreeOK
  <2> QED
    BY <1>2, <2>3, <2>4, <2>6, <2>7, <2>8, <2>9, Regulators, StepKeeps DEF Tree!At, Tree!IsIdle
<1> QED
  BY <1>1, <1>4, <1>5, <1>6 DEF Tree!ForceBelow

-----------------------------------------------------------------------------
(* Where a call begins, no other is in progress or the claims end.          *)
LEMMA Begins ==
  ASSUME Wired, TreeInv, TreeOK', NEW t \in Threads, NEW op \in {"enable", "disable", "force"}, NEW n \in listed',
         Tree!Begin(t, op, n), Tree!IsIdle(t), UNCHANGED <<on, lock>>, listed \subseteq listed', listed' \subseteq Nodes,
         UNCHANGED Tree!tree \/ Tree!AllIdle,
         linked' \subseteq listed', children' \in [DOMAIN children' -> Seq(Nodes)], DOMAIN children' \subseteq listed',
         ~overlapped => Tree!SuppliesOn'
  PROVE  TreeInv'
<1> DEFINE c == [Tree!Idle EXCEPT !.op = op, !.phase = op, !.next = n]
<1>1. c \in Calls /\ c.path = <<>> /\ c.phase = op /\ c.next = n
  <2>1. n \in Nodes /\ <<>> \in Seq(Nodes) /\ <<>> \in Seq([node : Nodes, seen : BOOLEAN])
    OBVIOUS
  <2>2. Tree!Idle \in Calls /\ Tree!Idle.path = <<>>
    BY <2>1 DEF Calls, Tree!Idle
  <2> QED
    BY <2>1, <2>2 DEF Calls
<1>2. call' \in [Threads -> Calls] /\ call'[t] = c /\ \A u \in Threads \ {t} : call'[u] = call[u]
  BY <1>1, CallsTyped DEF TreeInv, Tree!Begin
<1> HIDE DEF c
<1>3. overlapped' \in BOOLEAN /\ (~overlapped' => ~overlapped /\ \A u \in Threads : call[u].phase = "idle")
  BY DEF Tree!Begin, Tree!AllIdle, Tree!IsIdle, TreeInv, Tree!TypeOK
<1>4. Tree!TypeOK'
  BY <1>2, <1>3 DEF TreeInv, Tree!TypeOK, Calls
<1>5. HandOK'
  BY <1>1, <1>2 DEF TreeInv, HandOK, Hand
<1>6. ASSUME ~overlapped'
      PROVE  InTurn' /\ Tree!SuppliesOn' /\ \A u \in Threads : Climbing(u)' /\ Lowering(u)'
  BY <1>1, <1>2, <1>3, <1>6 DEF InTurn, Tree!IsIdle, Climbing, Lowering, Tree!At
<1> QED
  BY <1>4, <1>5, <1>6 DEF TreeInv, TurnsInv

LEMMA AskKeeps ==
  ASSUME Wired, TreeInv, NEW t \in Threads, NEW n \in Nodes, NEW op \in {"enable", "disable", "force"}, Tree!Ask(t, op, n)
  PROVE  TreeInv'
<1>1. Tree!IsIdle(t) /\ n \in listed /\ Tree!Begin(t, op, n) /\ UNCHANGED <<Tree!tree, on, lock>>
  BY DEF Tree!Ask
<1>2. TreeOK' /\ (~overlapped => Tree!SuppliesOn')
  BY <1>1 DEF TreeInv, TurnsInv, TreeOK, Tree!SuppliesOn, Tree!ChildrenOf, Tree!tree
<1> QED
  BY <1>1, <1>2, Begins DEF Tree!tree, TreeInv, Tree!TypeOK

LEMMA AddKeeps == ASSUME Wired, TreeInv, NEW t \in Threads, NEW n \in Nodes, Tree!Add(t, n) PROVE TreeInv'
<1>1. Tree!AllIdle /\ n \notin listed /\ listed' = listed \cup {n} /\ UNCHANGED <<on, lock>> /\ on[n] = FALSE
  BY DEF Tree!Add, TreeInv, TreeOK, Tree!TypeOK
<1>2. /\ linked' \subseteq listed' /\ listed' \subseteq Nodes /\ TreeOK' /\ (~overlapped => Tree!SuppliesOn')
      /\ children' \in [DOMAIN children' -> Seq(Nodes)] /\ DOMAIN children' \subseteq listed'
  <2>1. CASE ParentOf[n] \in listed /\ linked' = linked \cup {n} /\ children' = Tree!Entered(n, ParentOf[n])
    <3>1. PICK p \in Nodes : p = ParentOf[n] /\ p \in listed /\ p # n
      BY <1>1, <2>1 DEF TreeInv, Tree!TypeOK
    <3>2. \A m \in Nodes : Tree!ChildrenOf(m) \in Seq(Nodes)
      <4>1. <<>> \in Seq(Nodes)
        OBVIOUS
      <4> QED
        BY <4>1 DEF Tree!ChildrenOf, TreeInv, Tree!TypeOK
    <3>3. /\ DOMAIN children' = DOMAIN children \cup {n, p}
          /\ \A m \in DOMAIN children' : children'[m] = IF m = p THEN Append(Tree!ChildrenOf(p), n) ELSE Tree!ChildrenOf(m)
      BY <2>1, <3>1 DEF Tree!Entered
    <3>4. Append(Tree!ChildrenOf(p), n) \in Seq(Nodes)
      BY <3>1, <3>2, Lengthened
    <3>5. children' \in [DOMAIN children' -> Seq(Nodes)] /\ DOMAIN children' \subseteq listed'
      <4>1. DOMAIN children' \subseteq Nodes /\ DOMAIN children' \subseteq listed'
        BY <1>1, <3>1, <3>3 DEF TreeInv, Tree!TypeOK
      <4>2. children' = [m \in DOMAIN children' |-> children'[m]]
        BY <2>1 DEF Tree!Entered
      <4>3. \A m \in DOMAIN children' : children'[m] \in Seq(Nodes)
        BY <3>2, <3>3, <3>4, <4>1
      <4> QED
        BY <4>1, <4>2, <4>3
    <3>6. Tree!ChildrenOf(p)' = Append(Tree!ChildrenOf(p), n) /\ \A m \in Nodes \ {p} : Tree!ChildrenOf(m)' = Tree!ChildrenOf(m)
      BY <3>1, <3>3 DEF Tree!ChildrenOf
    <3>7. \A s \in Seq(Nodes) : Tree!ToSet(s) \cup {n} \subseteq Tree!ToSet(Append(s, n))
      <4>1. ASSUME NEW s \in Seq(Nodes) PROVE Tree!ToSet(s) \cup {n} \subseteq Tree!ToSet(Append(s, n))
        <5>1. /\ Append(s, n) \in Seq(Nodes) /\ Len(s) \in Nat /\ DOMAIN s = 1..Len(s)
              /\ DOMAIN Append(s, n) = 1..Len(s) + 1
              /\ Append(s, n)[Len(s) + 1] = n /\ \A i \in 1..Len(s) : Append(s, n)[i] = s[i]
          OBVIOUS
        <5> QED
          BY <5>1 DEF Tree!ToSet
      <4> QED
        BY <4>1
    <3>8. TreeOK'
      <4>1. ASSUME NEW m \in linked' PROVE ParentOf[m] \in listed' /\ m \in Tree!ToSet(Tree!ChildrenOf(ParentOf[m]))'
        <5>1. CASE m = n
          BY <1>1, <3>1, <3>2, <3>6, <3>7, <5>1
        <5>2. CASE m \in linked
          <6>1. ParentOf[m] \in listed /\ ParentOf[m] \in Nodes /\ m \in Tree!ToSet(Tree!ChildrenOf(ParentOf[m]))
            BY <5>2 DEF TreeInv, Tree!TypeOK, TreeOK
          <6> QED
            BY <1>1, <3>1, <3>2, <3>6, <3>7, <6>1
        <5> QED
          BY <2>1, <5>1, <5>2
      <4> QED
        BY <1>1, <4>1 DEF TreeOK, TreeInv
    <3>9. ~overlapped => Tree!SuppliesOn'
      BY <1>1, <2>1 DEF TreeInv, TurnsInv, Tree!SuppliesOn
    <3> QED
      BY <1>1, <2>1, <3>5, <3>8, <3>9 DEF TreeInv, Tree!TypeOK
  <2>2. CASE UNCHANGED <<linked, children>>
    BY <1>1, <2>2 DEF TreeInv, Tree!TypeOK, TreeOK, TurnsInv, Tree!SuppliesOn, Tree!ChildrenOf
  <2> QED
    BY <2>1, <2>2 DEF Tree!Add
<1>3. CASE Tree!Begin(t, "enable", n)
  BY <1>1, <1>2, <1>3, Begins DEF Tree!AllIdle
<1>4. CASE UNCHANGED <<call, overlapped>>
  <2>1. \A u \in Threads : call[u].phase = "idle" /\ call'[u] = call[u]
    BY <1>1, <1>4 DEF Tree!AllIdle, Tree!IsIdle
  <2>2. Tree!TypeOK'
    BY <1>1, <1>2, <1>4 DEF TreeInv, Tree!TypeOK
  <2>3. HandOK'
    BY <1>1, <2>1 DEF TreeInv, HandOK, Hand
  <2> QED
    BY <1>2, <1>4, <2>1, <2>2, <2>3 DEF TreeInv, TurnsInv, InTurn, Tree!IsIdle, Climbing, Lowering, Tree!At
<1> QED
  BY <1>3, <1>4 DEF Tree!Add

-----------------------------------------------------------------------------
LEMMA TreeInit == ASSUME Wired, Tree!Init PROVE TreeInv
<1>1. Tree!Idle \in Calls /\ Tree!Idle.phase = "idle" /\ Tree!Idle.path = <<>>
  BY DEF Calls, Tree!Idle
<1>2. call \in [Threads -> Calls] /\ \A t \in Threads : call[t].phase = "idle" /\ call[t].path = <<>>
  BY <1>1 DEF Tree!Init
<1>3. children \in [DOMAIN children -> Seq(Nodes)] /\ DOMAIN children = {}
  BY DEF Tree!Init
<1>4. Tree!TypeOK
  BY <1>2, <1>3 DEF Tree!Init, Tree!TypeOK, Calls
<1> QED
  BY <1>2, <1>4 DEF Tree!Init, TreeInv, TreeOK, HandOK, Hand, TurnsInv, Tree!SuppliesOn, InTurn, Tree!IsIdle, Climbing, Lowering, Tree!At

LEMMA TreeInvariant == ASSUME Wired PROVE Tree!Spec => []TreeInv
<1>1. Tree!Init => TreeInv
  BY TreeInit
<1>2. ASSUME TreeInv, [Tree!Next]_Tree!vars
      PROVE  TreeInv'
  <2>1. CASE UNCHANGED Tree!vars
    <3>1. UNCHANGED <<listed, linked, children, on, lock, call, overlapped>>
      BY <2>1 DEF Tree!vars
    <3>2. Tree!TypeOK' /\ TreeOK'
      BY <1>2, <3>1 DEF TreeInv, Tree!TypeOK, TreeOK, Tree!ChildrenOf
    <3>3. HandOK'
      BY <1>2, <3>1 DEF TreeInv, HandOK, Hand
    <3>4. TurnsInv'
      <4>1. ASSUME NEW t \in Threads, Climbing(t), Lowering(t) PROVE Climbing(t)' /\ Lowering(t)'
        BY <3>1, <4>1 DEF Climbing, Lowering, Forced, Tree!At, Tree!Top
      <4> QED
        BY <1>2, <3>1, <4>1 DEF TreeInv, TurnsInv, InTurn, Tree!IsIdle, Tree!SuppliesOn
    <3> QED
      BY <3>2, <3>3, <3>4 DEF TreeInv
  <2>2. ASSUME NEW t \in Threads, Tree!CallStep(t)
        PROVE  TreeInv'
    BY <1>2, <2>2, LookBeforeEnableKeeps, LockToEnableKeeps, RaiseKeeps, LeaveKeeps, LookBeforeDisableKeeps,
      LockToDisableKeeps, LookBelowKeeps, LowerKeeps, LockToForceKeeps, ForceBelowKeeps DEF Tree!CallStep
  <2>3. ASSUME NEW t \in Threads, NEW n \in Nodes, Tree!Add(t, n)
        PROVE  TreeInv'
    BY <1>2, <2>3, AddKeeps
  <2>4. ASSUME NEW t \in Threads, NEW n \in Nodes, NEW op \in {"enable", "disable", "force"}, Tree!Ask(t, op, n)
        PROVE  TreeInv'
    BY <1>2, <2>4, AskKeeps
  <2> QED
    BY <1>2, <2>1, <2>2, <2>3, <2>4 DEF Tree!Next
<1> QED
  BY <1>1, <1>2, PTL DEF Tree!Spec

(* Every variable of the regulators keeps its type; the lists of children,  *)
(* of mutexes held and of regulators still to be forced hold regulators.    *)
THEOREM TreeTypeCorrect == ASSUME Wired PROVE Tree!Spec => []Tree!TypeOK
<1>1. TreeInv => Tree!TypeOK
  BY DEF TreeInv
<1> QED
  BY <1>1, TreeInvariant, PTL

(* As long as calls have not overlapped, a regulator that is on has its     *)
(* supply, however deep the tree is and wherever a driver fails: "or there  *)
(* is regulator child  not disable, disabling  fail" (regulator_if.h:71).   *)
THEOREM SuppliesStay == ASSUME Wired PROVE Tree!Spec => []SupplyIsOn
<1>1. TreeInv => SupplyIsOn
  BY DEF TreeInv, TurnsInv, SupplyIsOn, Tree!SupplyIsOn
<1> QED
  BY <1>1, TreeInvariant, PTL

-----------------------------------------------------------------------------
(*                              Audio streams                              *)
-----------------------------------------------------------------------------
Cards == [asleep : BOOLEAN, standby : BOOLEAN, monitor : BOOLEAN, mode : {"LATER", "NOW"}]

\* One stream is used at a time, and the card is not monitored while it runs.
StreamsOK ==
    /\ card \in Cards
    /\ stream \in [Streams -> {"stopped", "running", "paused"}]
    /\ \A x, y \in Streams : stream[x] # "stopped" /\ stream[y] # "stopped" => x = y
    /\ \A x \in Streams : stream[x] = "running" => ~card.monitor

\* What the streams do to the card.
LEMMA MonitorSet ==
  ASSUME NEW c \in Cards, NEW monitor \in BOOLEAN, NEW mode \in {"LATER", "NOW"}
  PROVE  /\ Audio!SetMonitor(c, monitor) => card' \in Cards /\ card'.monitor = monitor /\ card'.asleep = FALSE
         /\ Audio!SetMonitor([c EXCEPT !.mode = mode], monitor) =>
                card' \in Cards /\ card'.monitor = monitor /\ card'.asleep = FALSE
<1>1. ASSUME NEW e \in Cards, Audio!SetMonitor(e, monitor)
      PROVE  card' \in Cards /\ card'.monitor = monitor /\ card'.asleep = FALSE
  <2>1. card' = [[e EXCEPT !.asleep = FALSE, !.standby = FALSE] EXCEPT !.monitor = monitor]
    BY <1>1 DEF Audio!SetMonitor, Audio!Refreshed
  <2> QED
    BY <2>1 DEF Cards
<1>2. [c EXCEPT !.mode = mode] \in Cards
  BY DEF Cards
<1> QED
  BY <1>1, <1>2

\* Only Sleep puts the card to sleep.
LEMMA StreamStep ==
  ASSUME Alone, StreamsOK, [Audio!Next]_Audio!vars
  PROVE  StreamsOK' /\ (~card.asleep /\ card'.asleep => \A x \in Streams : stream[x] # "running")
<1>0. card \in Cards
  BY DEF StreamsOK, Cards
<1>1. CASE UNCHANGED <<card, stream>>
  BY <1>1 DEF StreamsOK
<1>2. ASSUME NEW x \in Streams, Audio!Start(x)
      PROVE  StreamsOK' /\ ~card'.asleep
  <2>1. card' \in Cards /\ card'.monitor = FALSE /\ card'.asleep = FALSE
    BY <1>0, <1>2, MonitorSet DEF Audio!Start
  <2>2. stream' = [stream EXCEPT ![x] = "running"] /\ \A y \in Streams \ {x} : stream[y] = "stopped"
    BY <1>2 DEF Audio!Start, Audio!Becomes, Audio!Usable
  <2> QED
    BY <2>1, <2>2 DEF StreamsOK, Cards
<1>3. ASSUME NEW x \in Streams, Audio!Resume(x)
      PROVE  StreamsOK' /\ ~card'.asleep
  <2>1. card' \in Cards /\ card'.monitor = FALSE /\ card'.asleep = FALSE
    BY <1>0, <1>3, MonitorSet DEF Audio!Resume
  <2>2. stream' = [stream EXCEPT ![x] = "running"] /\ stream[x] = "paused"
    BY <1>3 DEF Audio!Resume, Audio!Becomes
  <2> QED
    BY <2>1, <2>2 DEF StreamsOK, Cards
<1>4. ASSUME NEW x \in Streams, NEW mode \in {"LATER", "NOW"}, Audio!Pause(x) \/ Audio!Stop(x, mode)
      PROVE  StreamsOK' /\ ~card'.asleep
  <2>1. card' \in Cards /\ card'.asleep = FALSE
    BY <1>0, <1>4, MonitorSet DEF Audio!Pause, Audio!Stop
  <2>2. PICK what \in {"stopped", "paused"} : stream' = [stream EXCEPT ![x] = what] /\ stream[x] # "stopped"
    BY <1>4 DEF Audio!Pause, Audio!Stop, Audio!Becomes
  <2> QED
    BY <2>1, <2>2 DEF StreamsOK, Cards
<1>5. CASE Audio!StandBy
  BY <1>0, <1>5 DEF Audio!StandBy, Audio!Refreshed, StreamsOK, Cards
<1>6. CASE Audio!Sleep
  BY <1>0, <1>6 DEF Audio!Sleep, StreamsOK, Cards
<1> QED
  BY <1>1, <1>2, <1>3, <1>4, <1>5, <1>6
    DEF Audio!Next, Audio!SapmStep, Audio!vars, Audio!SetSwitch, Audio!TimePasses

(* Render and capture share sapmMonitorState and the timer                  *)
(* (audio_sapm.c:1371): while one stream is used at a time, the card never  *)
(* falls asleep under a running one, whenever the timer looks.              *)
THEOREM AwakeUnderStream == ASSUME Alone PROVE Audio!Spec => NoSleepUnderStream
<1>1. Audio!Init => StreamsOK
  BY DEF Audio!Init, StreamsOK, Cards
<1>2. StreamsOK /\ [Audio!Next]_Audio!vars => StreamsOK'
  BY StreamStep
<1>3. StreamsOK /\ [Audio!Next]_Audio!vars =>
          [~card.asleep /\ card'.asleep => \A x \in Streams : stream[x] # "running"]_Audio!vars
  BY StreamStep
<1> QED
  BY <1>1, <1>2, <1>3, PTL DEF Audio!Spec, NoSleepUnderStream, Audio!NoSleepUnderStream

-----------------------------------------------------------------------------
(*                        Power of the components                          *)
-----------------------------------------------------------------------------
\* A set of numbers with 0 and with the successor of each is all of them.
LEMMA Naturals ==
  ASSUME NEW T \in SUBSET Nat, 0 \in T, \A n \in T : n + 1 \in T
  PROVE  T = Nat
<1>1. SUFFICES ASSUME Nat \ T # {} PROVE FALSE
  OBVIOUS
<1>2. PICK n \in Nat \ T : \A m \in Nat \ T : ~ (<<m, n>> \in OpToRel(<, Nat))
  <2> DEFINE R == OpToRel(<, Nat)
  <2>1. IsWellFoundedOn(R, Nat)
    BY NatLessThanWellFounded
  <2> HIDE DEF R
  <2>2. \E x \in Nat \ T : \A y \in Nat \ T : ~ (<<y, x>> \in R)
    BY <1>1, <2>1, WFMin
  <2> QED
    BY <2>2 DEF R
<1>3. \A m \in Nat \ T : ~ (m < n)
  BY <1>2 DEF OpToRel
<1>4. n # 0 /\ n - 1 \in Nat /\ n - 1 < n
  OBVIOUS
<1>5. n - 1 \in T
  BY <1>3, <1>4
<1> QED
  BY <1>5

\* A function may be defined from its own values at what has a lower rank.
Decreasing(S, V, limit, rank, G) ==
    /\ V # {} /\ limit \in Nat /\ rank \in [S -> 0..limit] /\ G \in [[S -> V] -> [S -> V]]
    /\ \A f, h \in [S -> V] : \A c \in S :
          (\A d \in S : rank[d] < rank[c] => f[d] = h[d]) => G[f][c] = G[h][c]

Definable(S, V, G) == \E f \in [S -> V] : f = G[f]

LEMMA Recursive ==
  ASSUME NEW S, NEW V, NEW limit, NEW rank, NEW G, Decreasing(S, V, limit, rank, G)
  PROVE  Definable(S, V, G)
<1> USE DEF Decreasing
<1> DEFINE T == {n \in Nat : \E f \in [S -> V] : \A c \in S : rank[c] < n => f[c] = G[f][c]}
<1>1. 0 \in T
  <2>1. PICK v : v \in V
    OBVIOUS
  <2>2. [c \in S |-> v] \in [S -> V]
    BY <2>1
  <2>3. \A c \in S : ~ (rank[c] < 0)
    OBVIOUS
  <2> QED
    BY <2>2, <2>3
<1>2. ASSUME NEW n \in T PROVE n + 1 \in T
  <2>1. PICK f \in [S -> V] : \A c \in S : rank[c] < n => f[c] = G[f][c]
    BY <1>2
  <2>2. G[f] \in [S -> V]
    OBVIOUS
  <2>3. ASSUME NEW c \in S, rank[c] < n + 1 PROVE G[f][c] = G[G[f]][c]
    <3>1. \A d \in S : rank[d] < rank[c] => f[d] = G[f][d]
      BY <2>1, <2>3, <1>2
    <3> QED
      BY <2>2, <3>1
  <2> QED
    BY <2>2, <2>3
<1>3. T \in SUBSET Nat
  OBVIOUS
<1>4. T = Nat
  <2> HIDE DEF T
  <2> QED
    BY <1>1, <1>2, <1>3, Naturals
<1>5. PICK f \in [S -> V] : \A c \in S : rank[c] < limit + 1 => f[c] = G[f][c]
  <2>1. limit + 1 \in T
    <3> HIDE DEF T
    <3> QED
      BY <1>4
  <2> QED
    BY <2>1
<1>6. \A c \in S : f[c] = G[f][c]
  BY <1>5
<1> QED
  BY <1>6 DEF Definable

-----------------------------------------------------------------------------
\* MapThenSumSet takes the elements one by one.
Summing(sum, S, g) ==
    sum = [s \in SUBSET S |->
              IF s = {} THEN 0 ELSE g[CHOOSE x \in s : TRUE] + sum[s \ {CHOOSE x \in s : TRUE}]]

LEMMA Fewer ==
  ASSUME NEW S, IsFiniteSet(S), NEW s \in SUBSET S, s # {}
  PROVE  /\ (CHOOSE x \in s : TRUE) \in s
         /\ s \ {CHOOSE x \in s : TRUE} \in SUBSET S
         /\ Cardinality(s) \in 0..Cardinality(S) /\ Cardinality(S) \in Nat
         /\ Cardinality(s \ {CHOOSE x \in s : TRUE}) = Cardinality(s) - 1
         /\ Cardinality(s) > 0
<1> DEFINE e == CHOOSE x \in s : TRUE
<1>1. e \in s
  OBVIOUS
<1>2. IsFiniteSet(s) /\ Cardinality(s) <= Cardinality(S)
  BY FS_Subset
<1>3. Cardinality(s) \in Nat /\ Cardinality(S) \in Nat
  BY <1>2, FS_CardinalityType
<1>4. Cardinality(s \ {e}) = Cardinality(s) - 1
  BY <1>1, <1>2, FS_RemoveElement
<1>5. Cardinality(s) # 0
  BY <1>2, FS_EmptySet
<1> QED
  BY <1>1, <1>2, <1>3, <1>4, <1>5

LEMMA SumExists ==
  ASSUME NEW S, IsFiniteSet(S), NEW g \in [S -> Nat]
  PROVE  \E sum \in [SUBSET S -> Nat] : Summing(sum, S, g)
<1> DEFINE rank == [s \in SUBSET S |-> Cardinality(s)]
           G == [f \in [SUBSET S -> Nat] |->
                    [s \in SUBSET S |-> IF s = {} THEN 0
                     ELSE g[CHOOSE x \in s : TRUE] + f[s \ {CHOOSE x \in s : TRUE}]]]
<1>1. Cardinality(S) \in Nat /\ \A s \in SUBSET S : Cardinality(s) \in 0..Cardinality(S)
  <2>1. Cardinality(S) \in Nat
    BY FS_CardinalityType
  <2>2. ASSUME NEW s \in SUBSET S PROVE Cardinality(s) \in Nat /\ Cardinality(s) <= Cardinality(S)
    BY FS_Subset, FS_CardinalityType
  <2> QED
    BY <2>1, <2>2
<1>2. rank \in [SUBSET S -> 0..Cardinality(S)]
  BY <1>1
<1>3. ASSUME NEW f \in [SUBSET S -> Nat], NEW s \in SUBSET S, s # {}
      PROVE  g[CHOOSE x \in s : TRUE] + f[s \ {CHOOSE x \in s : TRUE}] \in Nat
  <2>1. (CHOOSE x \in s : TRUE) \in S /\ s \ {CHOOSE x \in s : TRUE} \in SUBSET S
    BY <1>3, Fewer
  <2>2. g[CHOOSE x \in s : TRUE] \in Nat /\ f[s \ {CHOOSE x \in s : TRUE}] \in Nat
    BY <2>1
  <2> QED
    BY <2>2
<1>4. ASSUME NEW f \in [SUBSET S -> Nat] PROVE G[f] \in [SUBSET S -> Nat]
  BY <1>3
<1>5. G \in [[SUBSET S -> Nat] -> [SUBSET S -> Nat]]
  BY <1>4
<1>6. ASSUME NEW f \in [SUBSET S -> Nat], NEW h \in [SUBSET S -> Nat], NEW s \in SUBSET S,
             \A d \in SUBSET S : rank[d] < rank[s] => f[d] = h[d]
      PROVE  G[f][s] = G[h][s]
  <2>1. CASE s = {}
    BY <2>1
  <2>2. CASE s # {}
    <3>1. s \ {CHOOSE x \in s : TRUE} \in SUBSET S
      BY <2>2, Fewer
    <3>2. rank[s \ {CHOOSE x \in s : TRUE}] < rank[s]
      BY <2>2, <3>1, Fewer
    <3>3. f[s \ {CHOOSE x \in s : TRUE}] = h[s \ {CHOOSE x \in s : TRUE}]
      BY <1>6, <3>1, <3>2
    <3> QED
      BY <3>3
  <2> QED
    BY <2>1, <2>2
<1>7. PICK sum \in [SUBSET S -> Nat] : sum = G[sum]
  <2> HIDE DEF rank, G
  <2>1. Decreasing(SUBSET S, Nat, Cardinality(S), rank, G)
    BY <1>1, <1>2, <1>5, <1>6 DEF Decreasing
  <2>2. Definable(SUBSET S, Nat, G)
    BY <2>1, Recursive
  <2> QED
    BY <2>2 DEF Definable
<1> QED
  BY <1>7 DEF Summing

\* Whatever the order, the sum of numbers is one, and it is 0 if they all are.
LEMMA SumUnique ==
  ASSUME NEW S, IsFiniteSet(S), NEW g \in [S -> Nat], NEW sum, Summing(sum, S, g)
  PROVE  /\ sum[S] \in Nat /\ (sum[S] = 0 <=> \A x \in S : g[x] = 0)
         /\ \A other : Summing(other, S, g) => other[S] = sum[S]
<1> DEFINE Right(s) ==
      /\ sum[s] \in Nat /\ (sum[s] = 0 <=> \A x \in s : g[x] = 0)
      /\ \A other : Summing(other, S, g) => other[s] = sum[s]
    T == {n \in Nat : \A s \in SUBSET S : Cardinality(s) = n => Right(s)}
<1>1. ASSUME NEW s \in SUBSET S, s = {} PROVE Right(s)
  BY <1>1 DEF Summing
<1>2. \A s \in SUBSET S : Cardinality(s) = 0 => s = {}
  BY FS_Subset, FS_EmptySet
<1>3. 0 \in T
  BY <1>1, <1>2
<1>4. ASSUME NEW n \in T, NEW s \in SUBSET S, Cardinality(s) = n + 1 PROVE Right(s)
  <2>1. s # {}
    BY <1>4, FS_EmptySet
  <2>2. PICK e \in s : e = CHOOSE x \in s : TRUE
    BY <2>1
  <2>3. s \ {e} \in SUBSET S /\ Cardinality(s \ {e}) = n
    BY <1>4, <2>1, <2>2, Fewer
  <2>4. Right(s \ {e})
    BY <1>4, <2>3
  <2>5. sum[s] = g[e] + sum[s \ {e}]
    BY <2>1, <2>2 DEF Summing
  <2>6. g[e] \in Nat
    OBVIOUS
  <2>7. \A other : Summing(other, S, g) => other[s] = g[e] + other[s \ {e}]
    BY <2>1, <2>2 DEF Summing
  <2>8. sum[s] = 0 <=> g[e] = 0 /\ sum[s \ {e}] = 0
    BY <2>4, <2>5, <2>6
  <2>9. \A x \in s : g[x] \in Nat /\ (x = e \/ x \in s \ {e})
    OBVIOUS
  <2>10. sum[s] \in Nat /\ (sum[s] = 0 <=> \A x \in s : g[x] = 0)
    BY <2>4, <2>5, <2>6, <2>8, <2>9
  <2>11. \A other : Summing(other, S, g) => other[s] = sum[s]
    BY <2>4, <2>5, <2>7
  <2> QED
    BY <2>10, <2>11
<1>5. T = Nat
  <2>1. \A n \in T : n + 1 \in T
    BY <1>4
  <2>2. T \in SUBSET Nat
    OBVIOUS
  <2> HIDE DEF T
  <2> QED
    BY <1>3, <2>1, <2>2, Naturals
<1>6. Cardinality(S) \in T
  BY <1>5, FS_CardinalityType
<1> QED
  BY <1>6

Total(g, S) == (CHOOSE sum : Summing(sum, S, g))[S]

LEMMA TotalIs ==
  ASSUME NEW S, IsFiniteSet(S), NEW g \in [S -> Nat]
  PROVE  /\ Total(g, S) \in Nat /\ (Total(g, S) = 0 <=> \A x \in S : g[x] = 0)
         /\ \A sum : Summing(sum, S, g) => sum[S] = Total(g, S)
<1> DEFINE sum == CHOOSE it : Summing(it, S, g)
<1>1. Summing(sum, S, g)
  BY SumExists
<1>2. Total(g, S) = sum[S]
  BY DEF Total
<1> HIDE DEF sum
<1> QED
  BY <1>1, <1>2, SumUnique

\* What AudioSapm adds over the paths into and out of a component.
SourceSum(f, S) == Audio!MapThenSumSet(LAMBDA p : f[p.source], S)
SinkSum(f, S)   == Audio!MapThenSumSet(LAMBDA p : f[p.sink], S)

LEMMA SourceSums ==
  ASSUME NEW S, IsFiniteSet(S), NEW f, \A p \in S : f[p.source] \in Nat
  PROVE  SourceSum(f, S) = Total([p \in S |-> f[p.source]], S)
<1> DEFINE g == [p \in S |-> f[p.source]]
           IsSum(sum) == sum = [s \in SUBSET S |->
                            IF s = {} THEN 0
                            ELSE f[(CHOOSE x \in s : TRUE).source] + sum[s \ {CHOOSE x \in s : TRUE}]]
           sum == CHOOSE it : IsSum(it)
<1>1. \A s \in SUBSET S : s # {} => g[CHOOSE x \in s : TRUE] = f[(CHOOSE x \in s : TRUE).source]
  OBVIOUS
<1>2. \A it : IsSum(it) <=> Summing(it, S, g)
  BY <1>1 DEF Summing
<1>3. g \in [S -> Nat]
  OBVIOUS
<1>4. SourceSum(f, S) = sum[S]
  BY DEF SourceSum, Audio!MapThenSumSet, Audio!MapThenFoldSet
<1> HIDE DEF g, IsSum
<1>5. \E it : Summing(it, S, g)
  BY <1>3, SumExists
<1>6. IsSum(sum)
  BY <1>2, <1>5
<1> HIDE DEF sum
<1>7. sum[S] = Total(g, S)
  BY <1>2, <1>3, <1>6, TotalIs
<1> QED
  BY <1>4, <1>7 DEF g

LEMMA SinkSums ==
  ASSUME NEW S, IsFiniteSet(S), NEW f, \A p \in S : f[p.sink] \in Nat
  PROVE  SinkSum(f, S) = Total([p \in S |-> f[p.sink]], S)
<1> DEFINE g == [p \in S |-> f[p.sink]]
           IsSum(sum) == sum = [s \in SUBSET S |->
                            IF s = {} THEN 0
                            ELSE f[(CHOOSE x \in s : TRUE).sink] + sum[s \ {CHOOSE x \in s : TRUE}]]
           sum == CHOOSE it : IsSum(it)
<1>1. \A s \in SUBSET S : s # {} => g[CHOOSE x \in s : TRUE] = f[(CHOOSE x \in s : TRUE).sink]
  OBVIOUS
<1>2. \A it : IsSum(it) <=> Summing(it, S, g)
  BY <1>1 DEF Summing
<1>3. g \in [S -> Nat]
  OBVIOUS
<1>4. SinkSum(f, S) = sum[S]
  BY DEF SinkSum, Audio!MapThenSumSet, Audio!MapThenFoldSet
<1> HIDE DEF g, IsSum
<1>5. \E it : Summing(it, S, g)
  BY <1>3, SumExists
<1>6. IsSum(sum)
  BY <1>2, <1>5
<1> HIDE DEF sum
<1>7. sum[S] = Total(g, S)
  BY <1>2, <1>3, <1>6, TotalIs
<1> QED
  BY <1>4, <1>7 DEF g

-----------------------------------------------------------------------------
\* Counts that grow along paths: into[c] are the paths that c has its count by,
\* and from[p] is the component at the other end of p.
Layered(limit, rank, into, from) ==
    /\ limit \in Nat /\ rank \in [Components -> 0..limit]
    /\ into \in [Components -> SUBSET Paths] /\ from \in [Paths -> Components]
    /\ \A c \in Components : \A p \in into[c] : rank[from[p]] < rank[c]

CountOf(f, c, ends, into, from) ==
    IF c \in ends THEN 1 ELSE Total([p \in into[c] |-> f[from[p]]], into[c])

LEMMA CountOfIs ==
  ASSUME IsFiniteSet(Paths), NEW limit, NEW rank, NEW into, NEW from, Layered(limit, rank, into, from), NEW ends,
         NEW f, NEW c \in Components, \A p \in into[c] : f[from[p]] \in Nat
  PROVE  /\ CountOf(f, c, ends, into, from) \in Nat
         /\ CountOf(f, c, ends, into, from) # 0 <=> c \in ends \/ \E p \in into[c] : f[from[p]] # 0
<1>1. IsFiniteSet(into[c])
  BY FS_Subset DEF Layered
<1>2. [p \in into[c] |-> f[from[p]]] \in [into[c] -> Nat]
  OBVIOUS
<1>3. /\ Total([p \in into[c] |-> f[from[p]]], into[c]) \in Nat
      /\ Total([p \in into[c] |-> f[from[p]]], into[c]) = 0 <=> \A p \in into[c] : [q \in into[c] |-> f[from[q]]][p] = 0
  BY <1>1, <1>2, TotalIs
<1>4. Total([p \in into[c] |-> f[from[p]]], into[c]) = 0 <=> \A p \in into[c] : f[from[p]] = 0
  BY <1>3
<1> QED
  BY <1>3, <1>4 DEF CountOf

LEMMA CountExists ==
  ASSUME IsFiniteSet(Paths), NEW limit, NEW rank, NEW into, NEW from, Layered(limit, rank, into, from), NEW ends
  PROVE  \E f \in [Components -> Nat] : \A c \in Components : f[c] = CountOf(f, c, ends, into, from)
<1> DEFINE G == [f \in [Components -> Nat] |-> [c \in Components |-> CountOf(f, c, ends, into, from)]]
<1>1. ASSUME NEW f \in [Components -> Nat] PROVE G[f] \in [Components -> Nat]
  <2>1. \A c \in Components : \A p \in into[c] : f[from[p]] \in Nat
    BY DEF Layered
  <2>2. \A c \in Components : CountOf(f, c, ends, into, from) \in Nat
    BY <2>1, CountOfIs
  <2> QED
    BY <2>2
<1>2. G \in [[Components -> Nat] -> [Components -> Nat]]
  BY <1>1
<1>3. ASSUME NEW f \in [Components -> Nat], NEW h \in [Components -> Nat], NEW c \in Components,
             \A d \in Components : rank[d] < rank[c] => f[d] = h[d]
      PROVE  G[f][c] = G[h][c]
  <2>1. \A p \in into[c] : f[from[p]] = h[from[p]]
    BY <1>3 DEF Layered
  <2>2. [p \in into[c] |-> f[from[p]]] = [p \in into[c] |-> h[from[p]]]
    BY <2>1
  <2> QED
    BY <2>2 DEF CountOf
<1>4. Decreasing(Components, Nat, limit, rank, G)
  <2> HIDE DEF G
  <2> QED
    BY <1>2, <1>3 DEF Decreasing, Layered
<1>5. Definable(Components, Nat, G)
  <2> HIDE DEF G
  <2> QED
    BY <1>4, Recursive
<1> QED
  BY <1>5 DEF Definable

Counting(f, ends, into, from) ==
    \A c \in Components : (\A p \in into[c] : f[from[p]] \in Nat) => f[c] = CountOf(f, c, ends, into, from)

LEMMA CountUnfolds ==
  ASSUME IsFiniteSet(Paths), NEW limit, NEW rank, NEW into, NEW from, Layered(limit, rank, into, from), NEW ends,
         NEW f, Counting(f, ends, into, from)
  PROVE  \A c \in Components : f[c] \in Nat /\ (f[c] # 0 <=> c \in ends \/ \E p \in into[c] : f[from[p]] # 0)
<1> USE DEF Counting
<1> DEFINE T == {n \in Nat : \A c \in Components : rank[c] < n => f[c] \in Nat}
<1>1. 0 \in T
  BY DEF Layered
<1>2. ASSUME NEW n \in T PROVE n + 1 \in T
  <2>1. ASSUME NEW c \in Components, rank[c] < n + 1 PROVE f[c] \in Nat
    <3>1. ASSUME NEW p \in into[c] PROVE f[from[p]] \in Nat
      <4>1. from[p] \in Components /\ rank[from[p]] < rank[c] /\ rank[from[p]] \in Nat /\ rank[c] \in Nat /\ n \in Nat
        BY DEF Layered
      <4>2. rank[from[p]] < n
        BY <2>1, <4>1
      <4> QED
        BY <4>1, <4>2
    <3> QED
      BY <3>1, CountOfIs
  <2> QED
    BY <2>1
<1>3. T = Nat
  <2>1. T \in SUBSET Nat
    OBVIOUS
  <2> HIDE DEF T
  <2> QED
    BY <1>1, <1>2, <2>1, Naturals
<1>4. \A c \in Components : f[c] \in Nat
  <2>1. limit + 1 \in T
    <3> HIDE DEF T
    <3> QED
      BY <1>3 DEF Layered
  <2> QED
    BY <2>1 DEF Layered
<1>5. \A c \in Components : \A p \in into[c] : f[from[p]] \in Nat
  BY <1>4 DEF Layered
<1> QED
  BY <1>4, <1>5, CountOfIs

-----------------------------------------------------------------------------
Ranked(limit, rank) ==
    /\ limit \in Nat /\ rank \in [Components -> 0..limit]
    /\ \A p \in Paths : rank[p.source] < rank[p.sink]

\* The paths of a card lead from component to component and never back, and a
\* switch is that of one path.
Routed ==
    /\ IsFiniteSet(Components) /\ IsFiniteSet(Paths)
    /\ \A p \in Paths : p.source \in Components /\ p.sink \in Components
    /\ Registered \subseteq Components
    /\ InputEnds \subseteq Components /\ OutputEnds \subseteq Components
    /\ \A p, q \in Paths : p.switch = q.switch => p = q \/ p.switch = None
    /\ \E limit, rank : Ranked(limit, rank)

\* Components taken one by one, each when no path leads on from it to the rest.
LEMMA RankExists == \E limit, rank : Ranked(limit, rank)
<1> DEFINE Orders(rank, S) == \A p \in Paths : p.source \in S /\ p.sink \in S => rank[p.source] < rank[p.sink]
    T == {n \in Nat : \A S \in SUBSET Components : Cardinality(S) = n => \E rank \in [S -> 0..n] : Orders(rank, S)}
<1>1. 0 \in T
  <2>1. ASSUME NEW S \in SUBSET Components, Cardinality(S) = 0 PROVE \E rank \in [S -> 0..0] : Orders(rank, S)
    <3>1. S = {}
      BY <2>1, RoutesAssumption, FS_Subset, FS_EmptySet
    <3>2. [c \in S |-> 0] \in [S -> 0..0] /\ Orders([c \in S |-> 0], S)
      BY <3>1
    <3> QED
      BY <3>2
  <2> QED
    BY <2>1
<1>2. ASSUME NEW n \in T PROVE n + 1 \in T
  <2>1. ASSUME NEW S \in SUBSET Components, Cardinality(S) = n + 1
        PROVE  \E rank \in [S -> 0..(n + 1)] : Orders(rank, S)
    <3>1. IsFiniteSet(S) /\ n \in Nat
      BY RoutesAssumption, FS_Subset
    <3>2. S # {}
      BY <2>1, <3>1, FS_EmptySet
    <3>3. PICK c \in S : \A p \in Paths : p.source = c => p.sink \notin S
      BY <3>2, RoutesAssumption
    <3>4. Cardinality(S \ {c}) = n /\ S \ {c} \in SUBSET Components
      BY <2>1, <3>1, FS_RemoveElement
    <3>5. PICK below \in [S \ {c} -> 0..n] : Orders(below, S \ {c})
      BY <1>2, <3>4
    <3> DEFINE rank == [d \in S |-> IF d = c THEN n + 1 ELSE below[d]]
    <3>6. \A d \in S \ {c} : rank[d] = below[d] /\ rank[d] \in 0..n
      OBVIOUS
    <3>7. rank \in [S -> 0..(n + 1)] /\ rank[c] = n + 1
      BY <3>1, <3>6
    <3>8. ASSUME NEW p \in Paths, p.source \in S, p.sink \in S PROVE rank[p.source] < rank[p.sink]
      <4>1. p.source # c
        BY <3>3, <3>8
      <4>2. CASE p.sink = c
        <5>1. rank[p.source] \in 0..n /\ rank[p.sink] = n + 1
          BY <3>6, <3>7, <3>8, <4>1, <4>2
        <5> QED
          BY <3>1, <5>1
      <4>3. CASE p.sink # c
        <5>1. below[p.source] < below[p.sink]
          BY <3>5, <3>8, <4>1, <4>3
        <5> QED
          BY <3>6, <3>8, <4>1, <4>3, <5>1
      <4> QED
        BY <4>2, <4>3
    <3>9. Orders(rank, S)
      BY <3>8
    <3> HIDE DEF rank, Orders
    <3> QED
      BY <3>7, <3>9
  <2>2. n + 1 \in Nat
    OBVIOUS
  <2> HIDE DEF Orders
  <2> QED
    BY <2>1, <2>2
<1>3. T = Nat
  <2>1. T \in SUBSET Nat
    OBVIOUS
  <2> HIDE DEF T
  <2> QED
    BY <1>1, <1>2, <2>1, Naturals
<1>4. Cardinality(Components) \in T
  BY <1>3, FS_CardinalityType, RoutesAssumption
<1>5. PICK rank \in [Components -> 0..Cardinality(Components)] : Orders(rank, Components)
  BY <1>4
<1>6. Ranked(Cardinality(Components), rank)
  BY <1>4, <1>5, RoutesAssumption DEF Ranked
<1> QED
  BY <1>6

LEMMA CardRouted == Routed
BY RoutesAssumption, RankExists DEF Routed

Into(o)  == [c \in Components |-> {p \in Paths : p.sink = c /\ Audio!Connected(p, o)}]
OutOf(o) == [c \in Components |-> {p \in Paths : p.source = c /\ Audio!Connected(p, o)}]

\* What has an input, and what has an output, over connected paths.
Fed(o) == {c \in Components : Audio!Inputs(o)[c] # 0}
Led(o) == {c \in Components : Audio!Outputs(o)[c] # 0}

LEMMA FedIs ==
  ASSUME Routed, NEW o, NEW c \in Components
  PROVE  c \in Fed(o) <=> c \in InputEnds \/ \E p \in Paths : p.sink = c /\ Audio!Connected(p, o) /\ p.source \in Fed(o)
<1> DEFINE from == [p \in Paths |-> p.source]
           Counts(f) == f = [d \in Components |-> IF d \in InputEnds THEN 1
                             ELSE SourceSum(f, {p \in Paths : p.sink = d /\ Audio!Connected(p, o)})]
           count == CHOOSE f : Counts(f)
<1>1. PICK limit, rank : Ranked(limit, rank)
  BY DEF Routed
<1>2. Layered(limit, rank, Into(o), from)
  BY <1>1 DEF Ranked, Routed, Layered, Into
<1>3. PICK f \in [Components -> Nat] : \A d \in Components : f[d] = CountOf(f, d, InputEnds, Into(o), from)
  <2> HIDE DEF from
  <2> QED
    BY <1>2, CountExists DEF Routed
<1>4. ASSUME NEW h, NEW d \in Components, \A p \in Into(o)[d] : h[p.source] \in Nat
      PROVE  (IF d \in InputEnds THEN 1 ELSE SourceSum(h, Into(o)[d])) = CountOf(h, d, InputEnds, Into(o), from)
  <2>1. IsFiniteSet(Into(o)[d]) /\ Into(o)[d] \subseteq Paths
    BY FS_Subset DEF Routed, Into
  <2>2. [p \in Into(o)[d] |-> h[from[p]]] = [p \in Into(o)[d] |-> h[p.source]]
    BY <2>1
  <2>3. SourceSum(h, Into(o)[d]) = Total([p \in Into(o)[d] |-> h[p.source]], Into(o)[d])
    BY <1>4, <2>1, SourceSums
  <2> QED
    BY <2>2, <2>3 DEF CountOf
<1>5. \A d \in Components : Into(o)[d] = {p \in Paths : p.sink = d /\ Audio!Connected(p, o)}
  BY DEF Into
<1>6. Counts(f)
  <2>1. \A d \in Components : \A p \in Into(o)[d] : f[p.source] \in Nat
    BY DEF Into, Routed
  <2>2. \A d \in Components : f[d] = IF d \in InputEnds THEN 1 ELSE SourceSum(f, Into(o)[d])
    BY <1>3, <1>4, <2>1
  <2> QED
    BY <1>5, <2>2
<1>7. Audio!Inputs(o) = count
  BY DEF Audio!Inputs, SourceSum
<1>8. Counts(count)
  <2> HIDE DEF Counts
  <2> QED
    BY <1>6
<1>9. \A d \in Components : count[d] = IF d \in InputEnds THEN 1 ELSE SourceSum(count, Into(o)[d])
  <2> HIDE DEF count
  <2> QED
    BY <1>5, <1>8
<1> HIDE DEF count
<1>10. ASSUME NEW d \in Components, \A p \in Into(o)[d] : count[from[p]] \in Nat
       PROVE  count[d] = CountOf(count, d, InputEnds, Into(o), from)
  <2>1. \A p \in Into(o)[d] : count[p.source] \in Nat
    BY <1>10, <1>5
  <2> QED
    BY <1>4, <1>9, <2>1
<1>11. count[c] # 0 <=> c \in InputEnds \/ \E p \in Into(o)[c] : count[from[p]] # 0
  <2> HIDE DEF from
  <2>1. Counting(count, InputEnds, Into(o), from)
    BY <1>10 DEF Counting
  <2> QED
    BY <1>2, <2>1, CountUnfolds DEF Routed
<1>12. \A d \in Components : d \in Fed(o) <=> count[d] # 0
  BY <1>7 DEF Fed
<1>13. \A p \in Paths : p \in Into(o)[c] => from[p] = p.source /\ p.source \in Components
  BY DEF Routed
<1>14. Into(o)[c] \subseteq Paths
  BY DEF Into
<1>15. c \in Fed(o) <=> c \in InputEnds \/ \E p \in Into(o)[c] : p.source \in Fed(o)
  <2> HIDE DEF from
  <2> QED
    BY <1>11, <1>12, <1>13, <1>14
<1> QED
  BY <1>5, <1>15

LEMMA LedIs ==
  ASSUME Routed, NEW o, NEW c \in Components
  PROVE  c \in Led(o) <=> c \in OutputEnds \/ \E p \in Paths : p.source = c /\ Audio!Connected(p, o) /\ p.sink \in Led(o)
<1> DEFINE from == [p \in Paths |-> p.sink]
           Counts(f) == f = [d \in Components |-> IF d \in OutputEnds THEN 1
                             ELSE SinkSum(f, {p \in Paths : p.source = d /\ Audio!Connected(p, o)})]
           count == CHOOSE f : Counts(f)
<1>1. PICK limit, rank : Ranked(limit, rank)
  BY DEF Routed
<1>2. Layered(limit, [d \in Components |-> limit - rank[d]], OutOf(o), from)
  BY <1>1 DEF Ranked, Routed, Layered, OutOf
<1>3. PICK f \in [Components -> Nat] : \A d \in Components : f[d] = CountOf(f, d, OutputEnds, OutOf(o), from)
  <2>1. IsFiniteSet(Paths)
    BY DEF Routed
  <2>2. PICK rest : Layered(limit, rest, OutOf(o), from)
    BY <1>2
  <2> HIDE DEF from
  <2> QED
    BY <2>1, <2>2, CountExists
<1>4. ASSUME NEW h, NEW d \in Components, \A p \in OutOf(o)[d] : h[p.sink] \in Nat
      PROVE  (IF d \in OutputEnds THEN 1 ELSE SinkSum(h, OutOf(o)[d])) = CountOf(h, d, OutputEnds, OutOf(o), from)
  <2>1. IsFiniteSet(OutOf(o)[d]) /\ OutOf(o)[d] \subseteq Paths
    BY FS_Subset DEF Routed, OutOf
  <2>2. [p \in OutOf(o)[d] |-> h[from[p]]] = [p \in OutOf(o)[d] |-> h[p.sink]]
    BY <2>1
  <2>3. SinkSum(h, OutOf(o)[d]) = Total([p \in OutOf(o)[d] |-> h[p.sink]], OutOf(o)[d])
    BY <1>4, <2>1, SinkSums
  <2> QED
    BY <2>2, <2>3 DEF CountOf
<1>5. \A d \in Components : OutOf(o)[d] = {p \in Paths : p.source = d /\ Audio!Connected(p, o)}
  BY DEF OutOf
<1>6. Counts(f)
  <2>1. \A d \in Components : \A p \in OutOf(o)[d] : f[p.sink] \in Nat
    BY DEF OutOf, Routed
  <2>2. \A d \in Components : f[d] = IF d \in OutputEnds THEN 1 ELSE SinkSum(f, OutOf(o)[d])
    BY <1>3, <1>4, <2>1
  <2> QED
    BY <1>5, <2>2
<1>7. Audio!Outputs(o) = count
  BY DEF Audio!Outputs, SinkSum
<1>8. Counts(count)
  <2> HIDE DEF Counts
  <2> QED
    BY <1>6
<1>9. \A d \in Components : count[d] = IF d \in OutputEnds THEN 1 ELSE SinkSum(count, OutOf(o)[d])
  <2> HIDE DEF count
  <2> QED
    BY <1>5, <1>8
<1> HIDE DEF count
<1>10. ASSUME NEW d \in Components, \A p \in OutOf(o)[d] : count[from[p]] \in Nat
       PROVE  count[d] = CountOf(count, d, OutputEnds, OutOf(o), from)
  <2>1. \A p \in OutOf(o)[d] : count[p.sink] \in Nat
    BY <1>10, <1>5
  <2> QED
    BY <1>4, <1>9, <2>1
<1>11. count[c] # 0 <=> c \in OutputEnds \/ \E p \in OutOf(o)[c] : count[from[p]] # 0
  <2> HIDE DEF from
  <2>1. Counting(count, OutputEnds, OutOf(o), from)
    BY <1>10 DEF Counting
  <2> QED
    BY <1>2, <2>1, CountUnfolds DEF Routed
<1>12. \A d \in Components : d \in Led(o) <=> count[d] # 0
  BY <1>7 DEF Led
<1>13. \A p \in Paths : p \in OutOf(o)[c] => from[p] = p.sink /\ p.sink \in Components
  BY DEF Routed
<1>14. OutOf(o)[c] \subseteq Paths
  BY DEF OutOf
<1>15. c \in Led(o) <=> c \in OutputEnds \/ \E p \in OutOf(o)[c] : p.sink \in Led(o)
  <2> HIDE DEF from
  <2> QED
    BY <1>11, <1>12, <1>13, <1>14
<1> QED
  BY <1>5, <1>15

-----------------------------------------------------------------------------
\* A set that grows by the neighbours of its members, as often as there are
\* components: no step but the last may leave it as it is.
More(A, next) == A \cup UNION {next[c] : c \in A}

Grows(f, start, next) ==
    /\ f[0] = start
    /\ \A i \in 1..Cardinality(Components) : f[i - 1] \subseteq Components => f[i] = More(f[i - 1], next)

Closed(A, next) == \A c \in A : next[c] \subseteq A

Growing(f, start, next) ==
    /\ f \in [0..Cardinality(Components) -> SUBSET Components]
    /\ \A i \in 0..Cardinality(Components) : f[i] = IF i = 0 THEN start ELSE More(f[i - 1], next)

LEMMA GrowExists ==
  ASSUME IsFiniteSet(Components), NEW start \in SUBSET Components, NEW next \in [Components -> SUBSET Components]
  PROVE  \E f : Growing(f, start, next)
<1>1. PICK N \in Nat : N = Cardinality(Components)
  BY FS_CardinalityType
<1> DEFINE G == [f \in [0..N -> SUBSET Components] |->
                    [i \in 0..N |-> IF i = 0 THEN start ELSE More(f[i - 1], next)]]
           rank == [i \in 0..N |-> i]
<1>2. ASSUME NEW f \in [0..N -> SUBSET Components] PROVE G[f] \in [0..N -> SUBSET Components]
  <2>1. ASSUME NEW i \in 0..N, i # 0 PROVE More(f[i - 1], next) \in SUBSET Components
    <3>1. i - 1 \in 0..N
      BY <2>1
    <3>2. f[i - 1] \in SUBSET Components
      BY <3>1
    <3> QED
      BY <3>2 DEF More
  <2> QED
    BY <2>1
<1>3. ASSUME NEW f \in [0..N -> SUBSET Components], NEW h \in [0..N -> SUBSET Components], NEW i \in 0..N,
             \A j \in 0..N : rank[j] < rank[i] => f[j] = h[j]
      PROVE  G[f][i] = G[h][i]
  <2>1. i # 0 => i - 1 \in 0..N /\ i - 1 < i
    OBVIOUS
  <2>2. i # 0 => f[i - 1] = h[i - 1]
    BY <1>3, <2>1
  <2> QED
    BY <2>2
<1>4. Decreasing(0..N, SUBSET Components, N, rank, G)
  <2>1. G \in [[0..N -> SUBSET Components] -> [0..N -> SUBSET Components]] /\ rank \in [0..N -> 0..N]
    BY <1>2
  <2> HIDE DEF G, rank
  <2> QED
    BY <1>3, <2>1 DEF Decreasing
<1>5. Definable(0..N, SUBSET Components, G)
  <2> HIDE DEF G, rank
  <2> QED
    BY <1>4, Recursive
<1>6. PICK f \in [0..N -> SUBSET Components] : f = G[f]
  BY <1>5 DEF Definable
<1>7. \A i \in 0..N : f[i] = IF i = 0 THEN start ELSE More(f[i - 1], next)
  BY <1>6
<1>8. Growing(f, start, next)
  BY <1>1, <1>7 DEF Growing
<1> QED
  BY <1>8

LEMMA GrowCloses ==
  ASSUME IsFiniteSet(Components), NEW start \in SUBSET Components, start # {},
         NEW next \in [Components -> SUBSET Components], NEW f, Grows(f, start, next)
  PROVE  /\ start \subseteq f[Cardinality(Components)] /\ f[Cardinality(Components)] \subseteq Components
         /\ Closed(f[Cardinality(Components)], next)
         /\ \A U \in SUBSET Components :
               start \subseteq U /\ Closed(U, next) => f[Cardinality(Components)] \subseteq U
<1>1. PICK N \in Nat : N = Cardinality(Components)
  BY FS_CardinalityType
<1> DEFINE Right(n) ==
      /\ start \subseteq f[n] /\ f[n] \subseteq Components
      /\ Closed(f[n], next) \/ Cardinality(f[n]) >= n + 1
      /\ \A U \in SUBSET Components : start \subseteq U /\ Closed(U, next) => f[n] \subseteq U
    T == {n \in Nat : n <= N => Right(n)}
<1>2. \A A \in SUBSET Components : IsFiniteSet(A) /\ Cardinality(A) \in Nat /\ Cardinality(A) <= N
  BY <1>1, FS_Subset, FS_CardinalityType
<1>3. 0 \in T
  <2>1. Cardinality(start) # 0
    BY <1>2, FS_EmptySet
  <2>2. Cardinality(start) >= 0 + 1
    BY <1>2, <2>1
  <2> QED
    BY <2>2 DEF Grows
<1>4. ASSUME NEW n \in T, n + 1 <= N PROVE Right(n + 1)
  <2>1. n \in Nat /\ Right(n)
    BY <1>4
  <2>2. f[n + 1] = More(f[n], next)
    <3>1. n + 1 \in 1..Cardinality(Components) /\ (n + 1) - 1 = n
      BY <1>1, <1>4, <2>1
    <3> QED
      BY <2>1, <3>1 DEF Grows
  <2>3. f[n] \subseteq f[n + 1] /\ f[n + 1] \subseteq Components
    BY <2>1, <2>2 DEF More
  <2>4. Closed(f[n + 1], next) \/ Cardinality(f[n + 1]) >= (n + 1) + 1
    <3>1. CASE Closed(f[n], next)
      <4>1. f[n + 1] = f[n]
        BY <2>2, <3>1 DEF Closed, More
      <4> QED
        BY <3>1, <4>1
    <3>2. CASE ~Closed(f[n], next)
      <4>1. PICK c \in f[n] : ~(next[c] \subseteq f[n])
        BY <3>2 DEF Closed
      <4>2. f[n + 1] # f[n]
        BY <2>2, <4>1 DEF More
      <4>3. Cardinality(f[n]) >= n + 1
        BY <2>1, <3>2
      <4>4. Cardinality(f[n]) <= Cardinality(f[n + 1]) /\ Cardinality(f[n]) # Cardinality(f[n + 1])
        BY <1>2, <2>3, <4>2, FS_Subset
      <4>5. Cardinality(f[n]) \in Nat /\ Cardinality(f[n + 1]) \in Nat
        BY <1>2, <2>1, <2>3
      <4> QED
        BY <2>1, <4>3, <4>4, <4>5
    <3> QED
      BY <3>1, <3>2
  <2>5. ASSUME NEW U \in SUBSET Components, start \subseteq U, Closed(U, next) PROVE f[n + 1] \subseteq U
    BY <2>1, <2>2, <2>5 DEF More, Closed
  <2>6. start \subseteq f[n + 1]
    BY <2>1, <2>3
  <2> QED
    BY <2>3, <2>4, <2>5, <2>6
<1>5. T = Nat
  <2>1. \A n \in T : n + 1 \in T
    BY <1>4
  <2>2. T \in SUBSET Nat
    OBVIOUS
  <2> HIDE DEF T
  <2> QED
    BY <1>3, <2>1, <2>2, Naturals
<1>6. Right(N)
  <2>1. N \in T
    BY <1>5
  <2> QED
    BY <2>1
<1>7. Closed(f[N], next)
  <2>1. CASE Cardinality(f[N]) >= N + 1
    BY <1>2, <1>6, <2>1
  <2> QED
    BY <1>6, <2>1
<1> QED
  BY <1>1, <1>6, <1>7

\* An instance has its own copy of what the standard modules define.
LEMMA CardinalityIs == ASSUME NEW S PROVE Audio!Cardinality(S) = Cardinality(S)
BY DEF Audio!Cardinality, Cardinality

LEMMA ReachedIs ==
  ASSUME Routed, NEW c \in Components
  PROVE  /\ c \in Audio!Reached(c) /\ Audio!Reached(c) \subseteq Components
         /\ \A d \in Audio!Reached(c) : Audio!Sinks(d, connect) \subseteq Audio!Reached(c)
         /\ \A U \in SUBSET Components :
               c \in U /\ (\A d \in U : Audio!Sinks(d, connect) \subseteq U) => Audio!Reached(c) \subseteq U
<1> DEFINE next == [d \in Components |-> Audio!Sinks(d, connect)]
           IsReach(r) == r = [i \in 0..Audio!Cardinality(Components) |->
                                 IF i = 0 THEN {c} ELSE r[i - 1] \cup UNION {Audio!Sinks(d, connect) : d \in r[i - 1]}]
           reach == CHOOSE r : IsReach(r)
<1>1. next \in [Components -> SUBSET Components]
  BY DEF Audio!Sinks, Routed
<1>2. \A A \in SUBSET Components : More(A, next) = A \cup UNION {Audio!Sinks(d, connect) : d \in A}
  BY DEF More
<1>3. PICK N \in Nat : N = Cardinality(Components)
  BY FS_CardinalityType DEF Routed
<1>4. N = Audio!Cardinality(Components)
  BY <1>3, CardinalityIs
<1>5. \E r : IsReach(r)
  <2>1. {c} \in SUBSET Components /\ IsFiniteSet(Components)
    BY DEF Routed
  <2>2. PICK f : Growing(f, {c}, next)
    <3> HIDE DEF next
    <3> QED
      BY <1>1, <2>1, GrowExists
  <2>3. /\ f \in [0..N -> SUBSET Components]
        /\ \A i \in 0..N : f[i] = IF i = 0 THEN {c} ELSE More(f[i - 1], next)
    <3> HIDE DEF next
    <3> QED
      BY <1>3, <2>2 DEF Growing
  <2>4. \A i \in 0..N : f[i] = IF i = 0 THEN {c} ELSE f[i - 1] \cup UNION {Audio!Sinks(d, connect) : d \in f[i - 1]}
    <3>1. \A i \in 0..N : i # 0 => f[i - 1] \in SUBSET Components
      BY <2>3
    <3> HIDE DEF next
    <3> QED
      BY <1>2, <2>3, <3>1
  <2>5. f = [i \in 0..N |-> IF i = 0 THEN {c} ELSE f[i - 1] \cup UNION {Audio!Sinks(d, connect) : d \in f[i - 1]}]
    BY <2>3, <2>4
  <2> QED
    BY <1>4, <2>5
<1>6. Audio!Reached(c) = reach[Audio!Cardinality(Components)]
  BY DEF Audio!Reached
<1>7. IsReach(reach)
  <2> HIDE DEF IsReach
  <2> QED
    BY <1>5
<1> HIDE DEF reach
<1>8. Grows(reach, {c}, next)
  <2>1. reach[0] = {c}
    BY <1>4, <1>7
  <2>2. ASSUME NEW i \in 1..N, reach[i - 1] \subseteq Components PROVE reach[i] = More(reach[i - 1], next)
    <3>1. i \in 0..N /\ i # 0
      BY <2>2
    <3>2. reach[i] = reach[i - 1] \cup UNION {Audio!Sinks(d, connect) : d \in reach[i - 1]}
      BY <1>4, <1>7, <3>1
    <3> HIDE DEF next, IsReach
    <3> QED
      BY <1>2, <2>2, <3>2
  <2> HIDE DEF next
  <2> QED
    BY <1>3, <2>1, <2>2 DEF Grows
<1>9. /\ {c} \subseteq reach[N] /\ reach[N] \subseteq Components /\ Closed(reach[N], next)
      /\ \A U \in SUBSET Components : {c} \subseteq U /\ Closed(U, next) => reach[N] \subseteq U
  <2>1. {c} \in SUBSET Components /\ {c} # {} /\ IsFiniteSet(Components)
    BY DEF Routed
  <2> HIDE DEF next
  <2> QED
    BY <1>1, <1>3, <1>8, <2>1, GrowCloses
<1>10. \A A \in SUBSET Components : Closed(A, next) <=> \A d \in A : Audio!Sinks(d, connect) \subseteq A
  BY DEF Closed
<1> HIDE DEF next
<1> QED
  BY <1>4, <1>6, <1>9, <1>10

\* What AudioSapmPowerComponents visits: all that a visited component asks for.
Visited(V, dirty, o) ==
    /\ dirty \subseteq V /\ \A c \in V : Audio!Spread(c, o, Audio!CheckPower(o)) \subseteq V
    /\ Audio!PowerComponents(dirty, o) =
          [c \in Components |-> IF c \in V \cap Registered THEN Audio!CheckPower(o)[c] ELSE power[c]]

LEMMA PowerComponentsIs ==
  ASSUME Routed, NEW o, NEW dirty \in SUBSET Components, dirty # {}
  PROVE  \E V \in SUBSET Components : Visited(V, dirty, o)
<1> DEFINE check == Audio!CheckPower(o)
           next == [d \in Components |-> Audio!Spread(d, o, check)]
           IsVisited(r) == r = [i \in 0..Audio!Cardinality(Components) |->
                              IF i = 0 THEN dirty ELSE r[i - 1] \cup UNION {Audio!Spread(d, o, check) : d \in r[i - 1]}]
           visited == CHOOSE r : IsVisited(r)
<1> HIDE DEF check
<1>1. next \in [Components -> SUBSET Components]
  BY DEF Audio!Spread, Audio!Sources, Audio!Sinks, Routed
<1>2. \A A \in SUBSET Components : More(A, next) = A \cup UNION {Audio!Spread(d, o, check) : d \in A}
  BY DEF More
<1>3. PICK N \in Nat : N = Cardinality(Components)
  BY FS_CardinalityType DEF Routed
<1>4. N = Audio!Cardinality(Components)
  BY <1>3, CardinalityIs
<1>5. \E r : IsVisited(r)
  <2>1. IsFiniteSet(Components)
    BY DEF Routed
  <2>2. PICK f : Growing(f, dirty, next)
    <3> HIDE DEF next
    <3> QED
      BY <1>1, <2>1, GrowExists
  <2>3. /\ f \in [0..N -> SUBSET Components]
        /\ \A i \in 0..N : f[i] = IF i = 0 THEN dirty ELSE More(f[i - 1], next)
    <3> HIDE DEF next
    <3> QED
      BY <1>3, <2>2 DEF Growing
  <2>4. \A i \in 0..N : f[i] = IF i = 0 THEN dirty ELSE f[i - 1] \cup UNION {Audio!Spread(d, o, check) : d \in f[i - 1]}
    <3>1. \A i \in 0..N : i # 0 => f[i - 1] \in SUBSET Components
      BY <2>3
    <3> HIDE DEF next
    <3> QED
      BY <1>2, <2>3, <3>1
  <2>5. f = [i \in 0..N |-> IF i = 0 THEN dirty ELSE f[i - 1] \cup UNION {Audio!Spread(d, o, check) : d \in f[i - 1]}]
    BY <2>3, <2>4
  <2> QED
    BY <1>4, <2>5
<1>6. Audio!PowerComponents(dirty, o) =
        [c \in Components |-> IF c \in visited[Audio!Cardinality(Components)] \cap Registered THEN check[c] ELSE power[c]]
  BY DEF Audio!PowerComponents, Audio!RunSequence, check
<1>7. IsVisited(visited)
  <2> HIDE DEF IsVisited
  <2> QED
    BY <1>5
<1> HIDE DEF visited
<1>8. Grows(visited, dirty, next)
  <2>1. visited[0] = dirty
    BY <1>4, <1>7
  <2>2. ASSUME NEW i \in 1..N, visited[i - 1] \subseteq Components PROVE visited[i] = More(visited[i - 1], next)
    <3>1. i \in 0..N /\ i # 0
      BY <2>2
    <3>2. visited[i] = visited[i - 1] \cup UNION {Audio!Spread(d, o, check) : d \in visited[i - 1]}
      BY <1>4, <1>7, <3>1
    <3> HIDE DEF next, IsVisited
    <3> QED
      BY <1>2, <2>2, <3>2
  <2> HIDE DEF next
  <2> QED
    BY <1>3, <2>1, <2>2 DEF Grows
<1>9. dirty \subseteq visited[N] /\ visited[N] \subseteq Components /\ Closed(visited[N], next)
  <2>1. IsFiniteSet(Components)
    BY DEF Routed
  <2> HIDE DEF next
  <2> QED
    BY <1>1, <1>3, <1>8, <2>1, GrowCloses
<1>10. \A A \in SUBSET Components : Closed(A, next) => \A d \in A : Audio!Spread(d, o, check) \subseteq A
  BY DEF Closed
<1> HIDE DEF next
<1> QED
  BY <1>4, <1>6, <1>9, <1>10 DEF check, Visited

-----------------------------------------------------------------------------
\* What lies between an input and an output.
Live(o) == Fed(o) \cap Led(o)

LEMMA CheckPowerIs == ASSUME NEW o PROVE Audio!CheckPower(o) = [c \in Components |-> c \in Live(o)]
BY DEF Audio!CheckPower, Live, Fed, Led

LEMMA OnPathIs ==
  ASSUME Routed, NEW c \in Components
  PROVE  Audio!OnPath(c) <=> c \in Live(connect)
<1>1. PICK limit, rank : Ranked(limit, rank)
  BY DEF Routed
<1>2. \A d, e : e \in Audio!Sinks(d, connect) <=>
          \E p \in Paths : p.source = d /\ Audio!Connected(p, connect) /\ e = p.sink
  BY DEF Audio!Sinks
<1>3. \A d : Audio!Sinks(d, connect) \subseteq Components
  BY <1>2 DEF Routed
<1>4. ASSUME NEW i \in InputEnds, c \in Audio!Reached(i) PROVE c \in Fed(connect)
  <2>1. i \in Components /\ i \in Fed(connect) /\ Fed(connect) \in SUBSET Components
    BY FedIs DEF Routed, Fed
  <2>2. ASSUME NEW d \in Fed(connect), NEW e \in Audio!Sinks(d, connect) PROVE e \in Fed(connect)
    BY <1>2, <1>3, <2>2, FedIs
  <2>3. Audio!Reached(i) \subseteq Fed(connect)
    BY <2>1, <2>2, ReachedIs
  <2> QED
    BY <1>4, <2>3
<1>5. ASSUME c \in Fed(connect) PROVE \E i \in InputEnds : c \in Audio!Reached(i)
  <2> DEFINE T == {n \in Nat : \A d \in Fed(connect) : rank[d] < n => \E i \in InputEnds : d \in Audio!Reached(i)}
  <2>1. \A d \in Components : rank[d] \in 0..limit
    BY <1>1 DEF Ranked
  <2>2. Fed(connect) \subseteq Components /\ limit \in Nat
    BY <1>1 DEF Fed, Ranked
  <2>3. 0 \in T
    BY <2>1, <2>2
  <2>4. ASSUME NEW n \in T PROVE n + 1 \in T
    <3>1. ASSUME NEW d \in Fed(connect), rank[d] < n + 1 PROVE \E i \in InputEnds : d \in Audio!Reached(i)
      <4>1. CASE d \in InputEnds
        BY <2>2, <4>1, ReachedIs
      <4>2. CASE d \notin InputEnds
        <5>1. PICK p \in Paths : p.sink = d /\ Audio!Connected(p, connect) /\ p.source \in Fed(connect)
          BY <2>2, <4>2, FedIs
        <5>2. rank[p.source] < rank[d]
          BY <1>1, <5>1 DEF Ranked
        <5>3. n \in Nat /\ rank[p.source] \in Nat /\ rank[d] \in Nat
          BY <2>1, <2>2, <5>1
        <5>4. rank[p.source] < n
          BY ONLY <3>1, <5>2, <5>3
        <5>5. PICK i \in InputEnds : p.source \in Audio!Reached(i)
          BY <2>4, <5>1, <5>4
        <5>6. i \in Components
          BY DEF Routed
        <5>7. d \in Audio!Sinks(p.source, connect)
          BY <1>2, <5>1
        <5> QED
          BY <5>5, <5>6, <5>7, ReachedIs
      <4> QED
        BY <4>1, <4>2
    <3>2. n + 1 \in Nat
      OBVIOUS
    <3> QED
      BY <3>1, <3>2
  <2>5. T \in SUBSET Nat
    OBVIOUS
  <2>6. limit + 1 \in Nat /\ rank[c] < limit + 1
    BY <2>1, <2>2
  <2>7. limit + 1 \in T
    <3> HIDE DEF T
    <3> QED
      BY <2>3, <2>4, <2>5, <2>6, Naturals
  <2> QED
    BY <1>5, <2>6, <2>7
<1>6. ASSUME c \notin Led(connect) PROVE Audio!Reached(c) \cap OutputEnds = {}
  <2> DEFINE U == Components \ Led(connect)
  <2>1. ASSUME NEW d \in U, NEW e \in Audio!Sinks(d, connect) PROVE e \in U
    BY <1>2, <1>3, <2>1, LedIs
  <2>2. U \in SUBSET Components /\ c \in U
    BY <1>6
  <2>3. \A d \in U : Audio!Sinks(d, connect) \subseteq U
    BY <2>1
  <2>4. Audio!Reached(c) \subseteq U
    <3> HIDE DEF U
    <3> QED
      BY <2>2, <2>3, ReachedIs
  <2>5. U \cap OutputEnds = {}
    BY LedIs
  <2> QED
    BY <2>4, <2>5
<1>7. ASSUME c \in Led(connect) PROVE Audio!Reached(c) \cap OutputEnds # {}
  <2> DEFINE T == {n \in Nat : \A d \in Led(connect) : limit - rank[d] < n => Audio!Reached(d) \cap OutputEnds # {}}
  <2>1. \A d \in Components : rank[d] \in 0..limit
    BY <1>1 DEF Ranked
  <2>2. Led(connect) \subseteq Components /\ limit \in Nat
    BY <1>1 DEF Led, Ranked
  <2>3. 0 \in T
    BY <2>1, <2>2
  <2>4. ASSUME NEW n \in T PROVE n + 1 \in T
    <3>1. ASSUME NEW d \in Led(connect), limit - rank[d] < n + 1 PROVE Audio!Reached(d) \cap OutputEnds # {}
      <4>1. CASE d \in OutputEnds
        BY <2>2, <4>1, ReachedIs
      <4>2. CASE d \notin OutputEnds
        <5>1. PICK p \in Paths : p.source = d /\ Audio!Connected(p, connect) /\ p.sink \in Led(connect)
          BY <2>2, <4>2, LedIs
        <5>2. rank[d] < rank[p.sink]
          BY <1>1, <5>1 DEF Ranked
        <5>3. n \in Nat /\ rank[p.sink] \in Nat /\ rank[d] \in Nat
          BY <2>1, <2>2, <5>1
        <5>4. limit - rank[p.sink] < n
          BY ONLY <2>2, <3>1, <5>2, <5>3
        <5>5. Audio!Reached(p.sink) \cap OutputEnds # {}
          BY <2>4, <5>1, <5>4
        <5>6. d \in Components /\ p.sink \in Components
          BY <2>2, <5>1
        <5>7. p.sink \in Audio!Sinks(d, connect)
          BY <1>2, <5>1
        <5>8. p.sink \in Audio!Reached(d) /\ Audio!Reached(d) \in SUBSET Components
              /\ \A e \in Audio!Reached(d) : Audio!Sinks(e, connect) \subseteq Audio!Reached(d)
          BY <5>6, <5>7, ReachedIs
        <5>9. Audio!Reached(p.sink) \subseteq Audio!Reached(d)
          BY <5>6, <5>8, ReachedIs
        <5> QED
          BY <5>5, <5>9
      <4> QED
        BY <4>1, <4>2
    <3>2. n + 1 \in Nat
      OBVIOUS
    <3> QED
      BY <3>1, <3>2
  <2>5. T \in SUBSET Nat
    OBVIOUS
  <2>6. limit + 1 \in Nat /\ limit - rank[c] < limit + 1
    BY <2>1, <2>2
  <2>7. limit + 1 \in T
    <3> HIDE DEF T
    <3> QED
      BY <2>3, <2>4, <2>5, <2>6, Naturals
  <2> QED
    BY <1>7, <2>6, <2>7
<1> QED
  BY <1>4, <1>5, <1>6, <1>7 DEF Audio!OnPath, Live

-----------------------------------------------------------------------------
\* A component whose power is not as o asks.
Differs(c, o) == power[c] # (c \in Live(o))

\* Only what was forced up has power in vain, and only what was forced down
\* lacks it.
AsForced ==
    \A c \in Registered : Differs(c, connect) => forced = IF power[c] THEN "up" ELSE "down"

\* Such components have the power of those they are connected to, so that no
\* visit stops short at one of them.
NoBorder ==
    \A p \in Paths : {p.source, p.sink} \subseteq Registered =>
        (Audio!Connected(p, connect) /\ (Differs(p.source, connect) \/ Differs(p.sink, connect))
            => power[p.source] = power[p.sink])

SapmInv ==
    /\ connect \in [Audio!Switches -> BOOLEAN] /\ power \in [Components -> BOOLEAN]
    /\ AsForced /\ NoBorder

\* V holds the ends of what changes from connect to o, and all that is asked of it.
Visits(V, o) ==
    /\ V \subseteq Components
    /\ \A p \in Paths : ~(Audio!Connected(p, connect) <=> Audio!Connected(p, o)) => p.source \in V /\ p.sink \in V
    /\ \A p \in Paths : Audio!Connected(p, o) =>
          /\ p.source \in V /\ Differs(p.source, o) /\ power[p.sink] # (p.source \in Live(o)) => p.sink \in V
          /\ p.sink \in V /\ Differs(p.sink, o) /\ power[p.source] # (p.sink \in Live(o)) => p.source \in V

\* What two ends of a path that is connected before and after share.
LEMMA NextVisited ==
  ASSUME Routed, SapmInv, NEW o, NEW V, Visits(V, o), NEW x, NEW y, {x, y} = {connect, o},
         NEW d \in Registered, NEW e \in Registered, d \in Live(x), e \in Live(x), d \notin Live(y), e \notin Live(y),
         NEW p \in Paths, {p.source, p.sink} = {d, e}, Audio!Connected(p, x), Audio!Connected(p, y),
         ~Differs(d, connect), ~Differs(e, connect) => e \in V
  PROVE  d \in V
<1>1. (d \in Live(connect) <=> e \in Live(connect)) /\ (d \in Live(o) <=> e \in Live(o))
      /\ (d \in Live(connect) <=> d \notin Live(o))
  <2>1. (x = connect /\ y = o) \/ (x = o /\ y = connect)
    OBVIOUS
  <2> QED
    BY <2>1
<1>2. Audio!Connected(p, connect) /\ Audio!Connected(p, o)
  <2>1. (x = connect /\ y = o) \/ (x = o /\ y = connect)
    OBVIOUS
  <2> QED
    BY <2>1
<1>3. power[d] \in BOOLEAN /\ power[e] \in BOOLEAN
  BY DEF SapmInv, Routed
<1>4. power[d] = (d \in Live(connect))
  BY DEF Differs
<1>5. Differs(e, connect) => power[d] = power[e]
  BY <1>2 DEF SapmInv, NoBorder
<1>6. power[e] = (e \in Live(connect))
  BY <1>1, <1>3, <1>4, <1>5 DEF Differs
<1>7. e \in V
  BY <1>6 DEF Differs
<1>8. Differs(e, o) /\ power[d] # (e \in Live(o))
  BY <1>1, <1>4, <1>6 DEF Differs
<1>9. (p.source = e /\ p.sink = d) \/ (p.source = d /\ p.sink = e)
  OBVIOUS
<1> QED
  BY <1>2, <1>7, <1>8, <1>9 DEF Visits

\* A component that an input no longer reaches, or only now, is visited.
LEMMA InputChangeVisited ==
  ASSUME Routed, Audio!RegisterlessAtEnds, SapmInv, NEW o, NEW V, Visits(V, o), NEW x, NEW y, {x, y} = {connect, o},
         NEW c \in Live(x) \cap Registered, c \notin Fed(y), ~Differs(c, connect)
  PROVE  c \in V
<1>1. PICK limit, rank : Ranked(limit, rank)
  BY DEF Routed
<1> DEFINE T == {n \in Nat : \A d \in Live(x) \cap Registered : rank[d] < n /\ d \notin Fed(y) /\ ~Differs(d, connect) => d \in V}
<1>2. Live(x) \subseteq Components /\ limit \in Nat /\ \A d \in Components : rank[d] \in 0..limit
  BY <1>1 DEF Ranked, Live, Fed
<1>3. 0 \in T
  BY <1>2
<1>4. ASSUME NEW n \in T PROVE n + 1 \in T
  <2>1. ASSUME NEW d \in Live(x) \cap Registered, rank[d] < n + 1, d \notin Fed(y), ~Differs(d, connect) PROVE d \in V
    <3>1. d \in Components /\ d \in Fed(x) /\ d \in Led(x) /\ d \notin InputEnds
      BY <1>2, <2>1, FedIs DEF Live
    <3>2. PICK p \in Paths : p.sink = d /\ Audio!Connected(p, x) /\ p.source \in Fed(x)
      BY <3>1, FedIs
    <3>3. CASE ~Audio!Connected(p, y)
      <4>1. ~(Audio!Connected(p, connect) <=> Audio!Connected(p, o))
        <5>1. (x = connect /\ y = o) \/ (x = o /\ y = connect)
          OBVIOUS
        <5> QED
          BY <3>2, <3>3, <5>1
      <4> QED
        BY <3>2, <4>1 DEF Visits
    <3>4. CASE Audio!Connected(p, y)
      <4>1. PICK e : e = p.source
        OBVIOUS
      <4>2. e \in Components /\ e \in Led(x) /\ e \in Live(x)
        BY <3>1, <3>2, <4>1, LedIs DEF Routed, Live
      <4>3. e \notin Fed(y)
        BY <2>1, <3>1, <3>2, <3>4, <4>1, FedIs
      <4>4. d \notin Live(y) /\ e \notin Live(y)
        BY <2>1, <4>3 DEF Live
      <4>5. rank[e] < n
        <5>1. rank[e] < rank[d]
          BY <1>1, <3>2, <4>1 DEF Ranked
        <5>2. n \in Nat /\ rank[e] \in Nat /\ rank[d] \in Nat
          BY <1>2, <3>1, <4>2
        <5> QED
          BY ONLY <2>1, <5>1, <5>2
      <4>6. e \in Registered
        <5>1. e \notin InputEnds /\ e \in Fed(x)
          BY <3>2, <4>1, <4>2, <4>3, FedIs
        <5>2. \E q \in Paths : q.sink = e
          BY <4>2, <5>1, FedIs
        <5> QED
          BY <4>1, <4>2, <5>2 DEF Audio!RegisterlessAtEnds
      <4>7. ~Differs(e, connect) => e \in V
        BY <1>4, <4>2, <4>3, <4>5, <4>6
      <4>8. {p.source, p.sink} = {d, e}
        BY <3>2, <4>1
      <4> HIDE DEF T
      <4> QED
        BY <2>1, <3>1, <3>2, <3>4, <4>2, <4>4, <4>7, <4>8, <4>6, NextVisited
    <3> QED
      BY <3>3, <3>4
  <2>2. n + 1 \in Nat
    OBVIOUS
  <2> QED
    BY <2>1, <2>2
<1>5. T \in SUBSET Nat
  OBVIOUS
<1>6. limit + 1 \in Nat /\ rank[c] < limit + 1
  BY <1>2
<1>7. limit + 1 \in T
  <2> HIDE DEF T
  <2> QED
    BY <1>3, <1>4, <1>5, <1>6, Naturals
<1> QED
  BY <1>6, <1>7

\* And one that no longer reaches an output, or only now.
LEMMA OutputChangeVisited ==
  ASSUME Routed, Audio!RegisterlessAtEnds, SapmInv, NEW o, NEW V, Visits(V, o), NEW x, NEW y, {x, y} = {connect, o},
         NEW c \in Live(x) \cap Registered, c \notin Led(y), ~Differs(c, connect)
  PROVE  c \in V
<1>1. PICK limit, rank : Ranked(limit, rank)
  BY DEF Routed
<1> DEFINE T == {n \in Nat : \A d \in Live(x) \cap Registered :
                    limit - rank[d] < n /\ d \notin Led(y) /\ ~Differs(d, connect) => d \in V}
<1>2. Live(x) \subseteq Components /\ limit \in Nat /\ \A d \in Components : rank[d] \in 0..limit
  BY <1>1 DEF Ranked, Live, Fed
<1>3. 0 \in T
  BY <1>2
<1>4. ASSUME NEW n \in T PROVE n + 1 \in T
  <2>1. ASSUME NEW d \in Live(x) \cap Registered, limit - rank[d] < n + 1, d \notin Led(y), ~Differs(d, connect) PROVE d \in V
    <3>1. d \in Components /\ d \in Fed(x) /\ d \in Led(x) /\ d \notin OutputEnds
      BY <1>2, <2>1, LedIs DEF Live
    <3>2. PICK p \in Paths : p.source = d /\ Audio!Connected(p, x) /\ p.sink \in Led(x)
      BY <3>1, LedIs
    <3>3. CASE ~Audio!Connected(p, y)
      <4>1. ~(Audio!Connected(p, connect) <=> Audio!Connected(p, o))
        <5>1. (x = connect /\ y = o) \/ (x = o /\ y = connect)
          OBVIOUS
        <5> QED
          BY <3>2, <3>3, <5>1
      <4> QED
        BY <3>2, <4>1 DEF Visits
    <3>4. CASE Audio!Connected(p, y)
      <4>1. PICK e : e = p.sink
        OBVIOUS
      <4>2. e \in Components /\ e \in Fed(x) /\ e \in Live(x)
        BY <3>1, <3>2, <4>1, FedIs DEF Routed, Live
      <4>3. e \notin Led(y)
        BY <2>1, <3>1, <3>2, <3>4, <4>1, LedIs
      <4>4. d \notin Live(y) /\ e \notin Live(y)
        BY <2>1, <4>3 DEF Live
      <4>5. limit - rank[e] < n
        <5>1. rank[d] < rank[e]
          BY <1>1, <3>2, <4>1 DEF Ranked
        <5>2. n \in Nat /\ rank[e] \in Nat /\ rank[d] \in Nat /\ limit \in Nat
          BY <1>2, <3>1, <4>2
        <5> QED
          BY ONLY <2>1, <5>1, <5>2
      <4>6. e \in Registered
        <5>1. e \notin OutputEnds /\ e \in Led(x)
          BY <3>2, <4>1, <4>2, <4>3, LedIs
        <5>2. \E q \in Paths : q.source = e
          BY <4>2, <5>1, LedIs
        <5> QED
          BY <4>1, <4>2, <5>2 DEF Audio!RegisterlessAtEnds
      <4>7. ~Differs(e, connect) => e \in V
        BY <1>4, <4>2, <4>3, <4>5, <4>6
      <4>8. {p.source, p.sink} = {d, e}
        BY <3>2, <4>1
      <4> HIDE DEF T
      <4> QED
        BY <2>1, <3>1, <3>2, <3>4, <4>2, <4>4, <4>7, <4>8, <4>6, NextVisited
    <3> QED
      BY <3>3, <3>4
  <2>2. n + 1 \in Nat
    OBVIOUS
  <2> QED
    BY <2>1, <2>2
<1>5. T \in SUBSET Nat
  OBVIOUS
<1>6. limit + 1 \in Nat /\ limit - rank[c] < limit + 1
  BY <1>2
<1>7. limit + 1 \in T
  <2> HIDE DEF T
  <2> QED
    BY <1>3, <1>4, <1>5, <1>6, Naturals
<1> QED
  BY <1>6, <1>7

\* So every component with a register whose power was as it should be and is
\* not now.
LEMMA ChangeVisited ==
  ASSUME Routed, Audio!RegisterlessAtEnds, SapmInv, NEW o, NEW V, Visits(V, o),
         NEW c \in Registered, Differs(c, o), ~Differs(c, connect)
  PROVE  c \in V
<1>1. ~(c \in Live(connect) <=> c \in Live(o))
  <2>1. power[c] = (c \in Live(connect)) /\ power[c] # (c \in Live(o))
    BY DEF Differs
  <2> QED
    BY ONLY <2>1
<1>2. (c \in Live(connect) /\ (c \notin Fed(o) \/ c \notin Led(o)))
      \/ (c \in Live(o) /\ (c \notin Fed(connect) \/ c \notin Led(connect)))
  BY <1>1 DEF Live, Fed, Led, Routed
<1>3. {o, connect} = {connect, o}
  OBVIOUS
<1>4. CASE c \in Live(connect) /\ c \notin Fed(o)
  BY <1>4, InputChangeVisited
<1>5. CASE c \in Live(connect) /\ c \notin Led(o)
  BY <1>5, OutputChangeVisited
<1>6. CASE c \in Live(o) /\ c \notin Fed(connect)
  BY <1>3, <1>6, InputChangeVisited
<1>7. CASE c \in Live(o) /\ c \notin Led(connect)
  BY <1>3, <1>7, OutputChangeVisited
<1> QED
  BY <1>2, <1>4, <1>5, <1>6, <1>7

-----------------------------------------------------------------------------
LEMMA SwitchFollows ==
  ASSUME Routed, Audio!RegisterlessAtEnds, SapmInv, NEW s \in Audio!Switches, NEW v \in {0, 1}, Audio!SetSwitch(s, v)
  PROVE  SapmInv'
<1>1. PICK o, path : /\ o = [connect EXCEPT ![s] = Audio!Asked(s, v) = 1]
                     /\ path \in Paths /\ path.switch = s
                     /\ connect' = o /\ forced' = forced
                     /\ power' = Audio!PowerComponents({path.source, path.sink}, o)
  <2>1. \E p \in Paths : p.switch = s
    BY DEF Audio!Switches
  <2> QED
    BY <2>1 DEF Audio!SetSwitch
<1>2. o \in [Audio!Switches -> BOOLEAN] /\ \A r \in Audio!Switches \ {s} : o[r] = connect[r]
  <2>1. (Audio!Asked(s, v) = 1) \in BOOLEAN
    OBVIOUS
  <2> QED
    BY <1>1, <2>1 DEF SapmInv
<1>3. PICK V \in SUBSET Components :
          /\ {path.source, path.sink} \subseteq V
          /\ \A c \in V : Audio!Spread(c, o, Audio!CheckPower(o)) \subseteq V
          /\ power' = [c \in Components |-> IF c \in V \cap Registered THEN Audio!CheckPower(o)[c] ELSE power[c]]
  <2>1. {path.source, path.sink} \in SUBSET Components /\ {path.source, path.sink} # {}
    BY <1>1 DEF Routed
  <2>2. PICK dirty \in SUBSET Components : dirty = {path.source, path.sink} /\ dirty # {}
    BY <2>1
  <2>3. PICK V \in SUBSET Components : Visited(V, dirty, o)
    BY <2>2, PowerComponentsIs
  <2> QED
    BY <1>1, <2>2, <2>3 DEF Visited
<1>4. \A c \in Components : Audio!CheckPower(o)[c] = (c \in Live(o))
  BY CheckPowerIs
<1>5. \A c \in Components : power'[c] = IF c \in V \cap Registered THEN c \in Live(o) ELSE power[c]
  BY <1>3, <1>4
<1>6. \A p \in Paths : ~(Audio!Connected(p, connect) <=> Audio!Connected(p, o)) => p = path
  <2>1. ASSUME NEW p \in Paths, ~(Audio!Connected(p, connect) <=> Audio!Connected(p, o)) PROVE p = path
    <3>1. p.switch # None /\ p.switch \in Audio!Switches /\ ~(connect[p.switch] <=> o[p.switch])
      BY <2>1 DEF Audio!Connected, Audio!Switches
    <3>2. p.switch = path.switch
      BY <1>1, <1>2, <3>1
    <3> QED
      BY <1>1, <3>1, <3>2 DEF Routed
  <2> QED
    BY <2>1
<1>7. Visits(V, o)
  <2>1. ASSUME NEW p \in Paths, Audio!Connected(p, o), p.source \in V, Differs(p.source, o),
               power[p.sink] # (p.source \in Live(o))
        PROVE  p.sink \in V
    <3>1. p.source \in Components /\ p.sink \in Components /\ p.sink \in Audio!Sinks(p.source, o)
      BY <2>1 DEF Audio!Sinks, Routed
    <3>2. Audio!CheckPower(o)[p.source] = (p.source \in Live(o))
      BY <1>4, <3>1
    <3>3. Audio!CheckPower(o)[p.source] # power[p.source] /\ power[p.sink] # Audio!CheckPower(o)[p.source]
      BY <2>1, <3>2 DEF Differs
    <3>4. p.sink \in Audio!Spread(p.source, o, Audio!CheckPower(o))
      BY <3>1, <3>3 DEF Audio!Spread
    <3> QED
      BY <1>3, <2>1, <3>4
  <2>2. ASSUME NEW p \in Paths, Audio!Connected(p, o), p.sink \in V, Differs(p.sink, o),
               power[p.source] # (p.sink \in Live(o))
        PROVE  p.source \in V
    <3>1. p.source \in Components /\ p.sink \in Components /\ p.source \in Audio!Sources(p.sink, o)
      BY <2>2 DEF Audio!Sources, Routed
    <3>2. Audio!CheckPower(o)[p.sink] = (p.sink \in Live(o))
      BY <1>4, <3>1
    <3>3. Audio!CheckPower(o)[p.sink] # power[p.sink] /\ power[p.source] # Audio!CheckPower(o)[p.sink]
      BY <2>2, <3>2 DEF Differs
    <3>4. p.source \in Audio!Spread(p.sink, o, Audio!CheckPower(o))
      BY <3>1, <3>3 DEF Audio!Spread
    <3> QED
      BY <1>3, <2>2, <3>4
  <2> QED
    BY <1>3, <1>6, <2>1, <2>2 DEF Visits
<1>8. ASSUME NEW c \in Registered, power'[c] # (c \in Live(o))
      PROVE  c \notin V /\ power'[c] = power[c] /\ Differs(c, o) /\ Differs(c, connect)
  <2>1. c \notin V /\ power'[c] = power[c]
    BY <1>5, <1>8 DEF Routed
  <2>2. Differs(c, o)
    BY <1>8, <2>1 DEF Differs
  <2> QED
    BY <1>7, <2>1, <2>2, ChangeVisited
<1>9. Live(connect)' = Live(o)
  BY <1>1 DEF Live, Fed, Led
<1>10. AsForced'
  <2>1. ASSUME NEW c \in Registered, power'[c] # (c \in Live(o))
        PROVE  forced' = IF power'[c] THEN "up" ELSE "down"
    BY <1>1, <1>8, <2>1 DEF SapmInv, AsForced
  <2> QED
    BY <1>9, <2>1 DEF AsForced, Differs
<1>11. ASSUME NEW p \in Paths, Audio!Connected(p, o), NEW c \in Registered, NEW d \in Registered,
              {p.source, p.sink} = {c, d}, power'[c] # (c \in Live(o))
       PROVE  power'[c] = power'[d]
  <2>1. c \notin V /\ power'[c] = power[c] /\ Differs(c, o) /\ Differs(c, connect)
    BY <1>8, <1>11
  <2>2. (p.source = c /\ p.sink = d) \/ (p.source = d /\ p.sink = c)
    BY <1>11
  <2>3. Audio!Connected(p, connect)
    BY <1>7, <1>11, <2>1, <2>2 DEF Visits
  <2>4. power[c] = power[d]
    BY <1>11, <2>1, <2>2, <2>3 DEF SapmInv, NoBorder
  <2>5. CASE d \notin V
    BY <1>5, <2>1, <2>4, <2>5 DEF Routed
  <2>6. CASE d \in V
    <3>1. power'[d] = (d \in Live(o))
      BY <1>5, <2>6 DEF Routed
    <3>2. power[d] = (d \in Live(o))
      <4>1. power[d] # (d \in Live(o)) => Differs(d, o) /\ power[c] # (d \in Live(o))
        BY <2>4 DEF Differs
      <4> QED
        BY <1>7, <1>11, <2>1, <2>2, <2>6, <4>1 DEF Visits
    <3> QED
      BY <2>1, <2>4, <3>1, <3>2
  <2> QED
    BY <2>5, <2>6
<1>12. NoBorder'
  <2>1. ASSUME NEW p \in Paths, {p.source, p.sink} \subseteq Registered, Audio!Connected(p, o),
               NEW c \in {p.source, p.sink}, power'[c] # (c \in Live(o))
        PROVE  power'[p.source] = power'[p.sink]
    <3>1. p.source \in Registered /\ p.sink \in Registered /\ {p.source, p.sink} = {p.sink, p.source}
      BY <2>1
    <3>2. CASE c = p.source
      BY <1>11, <2>1, <3>1, <3>2
    <3>3. CASE c = p.sink
      BY <1>11, <2>1, <3>1, <3>3
    <3> QED
      BY <2>1, <3>2, <3>3
  <2>2. \A p : Audio!Connected(p, connect)' <=> Audio!Connected(p, o)
    BY <1>1 DEF Audio!Connected
  <2>3. \A c : Differs(c, connect)' <=> power'[c] # (c \in Live(o))
    BY <1>9 DEF Differs
  <2> QED
    BY <2>1, <2>2, <2>3 DEF NoBorder
<1>13. power' \in [Components -> BOOLEAN]
  <2>1. ASSUME NEW c \in Components
        PROVE  (IF c \in V \cap Registered THEN Audio!CheckPower(o)[c] ELSE power[c]) \in BOOLEAN
    <3>1. Audio!CheckPower(o)[c] = (c \in Live(o))
      BY <1>4
    <3>2. (c \in Live(o)) \in BOOLEAN
      OBVIOUS
    <3>3. power[c] \in BOOLEAN
      BY DEF SapmInv
    <3> QED
      BY ONLY <3>1, <3>2, <3>3
  <2> QED
    BY <1>3, <2>1
<1> QED
  BY <1>1, <1>2, <1>10, <1>12, <1>13 DEF SapmInv, Audio!Switches

\* What a sequence leaves.
LEMMA RunSequenceTyped ==
  ASSUME power \in [Components -> BOOLEAN], NEW to, \A c \in Components : to[c] \in BOOLEAN
  PROVE  Audio!RunSequence(to) \in [Components -> BOOLEAN]
BY DEF Audio!RunSequence

LEMMA SapmTypedInitially ==
  ASSUME Audio!Init
  PROVE  connect \in [Audio!Switches -> BOOLEAN] /\ power \in [Components -> BOOLEAN]
<1>1. connect \in [Audio!Switches -> BOOLEAN]
  <2>1. \A s \in Audio!Switches : Audio!PathStatus(s, bit[s]) \in BOOLEAN
    BY DEF Audio!PathStatus
  <2> QED
    BY <2>1 DEF Audio!Init
<1>2. power \in [Components -> BOOLEAN]
  <2>1. \A c \in Components : (c \in Registered /\ Audio!CheckPower(connect)[c]) \in BOOLEAN
    OBVIOUS
  <2> QED
    BY <2>1 DEF Audio!Init
<1> QED
  BY <1>1, <1>2

LEMMA SapmInitially == ASSUME Routed, Audio!Init PROVE SapmInv
<1>1. ASSUME NEW c \in Registered PROVE ~Differs(c, connect)
  <2>1. c \in Components
    BY DEF Routed
  <2>2. power[c] = Audio!CheckPower(connect)[c]
    <3>1. power[c] = (c \in Registered /\ Audio!CheckPower(connect)[c])
      BY <2>1 DEF Audio!Init
    <3>2. Audio!CheckPower(connect)[c] \in BOOLEAN
      BY <2>1 DEF Audio!CheckPower
    <3> QED
      BY <3>1, <3>2
  <2>3. Audio!CheckPower(connect)[c] = (c \in Live(connect))
    BY <2>1, CheckPowerIs
  <2> QED
    BY <2>2, <2>3 DEF Differs
<1> QED
  BY <1>1, SapmTypedInitially DEF SapmInv, AsForced, NoBorder

LEMMA SapmSteps ==
  ASSUME Routed, Audio!RegisterlessAtEnds, SapmInv, [Audio!Next]_Audio!vars
  PROVE  SapmInv'
<1>1. ASSUME NEW b \in BOOLEAN, power' = Audio!RunSequence([c \in Components |-> b]),
             forced' = IF b THEN "up" ELSE "down", connect' = connect
      PROVE  SapmInv'
  <2>1. \A c \in Registered : power'[c] = b
    BY <1>1 DEF Audio!RunSequence, Routed
  <2>2. AsForced'
    BY <1>1, <2>1 DEF AsForced
  <2>3. NoBorder'
    BY <2>1 DEF NoBorder
  <2>4. power' \in [Components -> BOOLEAN] /\ connect' \in [Audio!Switches -> BOOLEAN]
    BY <1>1, RunSequenceTyped DEF SapmInv
  <2> QED
    BY <2>2, <2>3, <2>4 DEF SapmInv, Audio!Switches
<1>2. ASSUME UNCHANGED <<power, connect, forced>> PROVE SapmInv'
  <2>1. Live(connect)' = Live(connect)
    BY <1>2 DEF Live, Fed, Led
  <2>2. \A c : Differs(c, connect)' <=> Differs(c, connect)
    BY <1>2, <2>1 DEF Differs
  <2>3. \A p : Audio!Connected(p, connect)' <=> Audio!Connected(p, connect)
    BY <1>2 DEF Audio!Connected
  <2>4. AsForced'
    BY <1>2, <2>2 DEF SapmInv, AsForced
  <2>5. NoBorder'
    BY <1>2, <2>2, <2>3 DEF SapmInv, NoBorder
  <2>6. power' \in [Components -> BOOLEAN] /\ connect' \in [Audio!Switches -> BOOLEAN]
    BY <1>2 DEF SapmInv
  <2> QED
    BY <2>4, <2>5, <2>6 DEF SapmInv, Audio!Switches
<1>3. ASSUME NEW s \in Audio!Switches, NEW v \in {0, 1}, Audio!SetSwitch(s, v) PROVE SapmInv'
  BY <1>3, SwitchFollows
<1>4. ASSUME NEW x \in Streams, Audio!Resume(x) PROVE SapmInv'
  <2>1. power' = Audio!RunSequence([c \in Components |-> TRUE]) /\ forced' = "up" /\ connect' = connect
    BY <1>4 DEF Audio!Resume
  <2> QED
    BY <1>1, <2>1
<1>5. CASE Audio!Sleep
  <2>1. power' = Audio!RunSequence([c \in Components |-> FALSE]) /\ forced' = "down" /\ connect' = connect
    BY <1>5 DEF Audio!Sleep
  <2> QED
    BY <1>1, <2>1
<1>6. ASSUME NEW x \in Streams, NEW mode \in {"LATER", "NOW"},
             Audio!Start(x) \/ Audio!Pause(x) \/ Audio!Stop(x, mode)
      PROVE  SapmInv'
  BY <1>2, <1>6 DEF Audio!Start, Audio!Pause, Audio!Stop
<1>7. CASE Audio!StandBy \/ Audio!TimePasses \/ UNCHANGED Audio!vars
  BY <1>2, <1>7 DEF Audio!StandBy, Audio!TimePasses, Audio!vars
<1> QED
  BY <1>3, <1>4, <1>5, <1>6, <1>7 DEF Audio!Next, Audio!SapmStep

(* AudioSapmPowerComponents (audio_sapm.c:957) visits only neighbours whose *)
(* power is not that of the component before: whatever the card's paths     *)
(* and however often switches are set, a component with a register has      *)
(* power exactly if it lies on a connected path from an input to an output, *)
(* but for what a resumed stream or a sleeping card forced.  Components     *)
(* without a register (audio_sapm.h:119) are at the ends of the paths: at   *)
(* one in the middle the visits would stop.                                 *)
THEOREM PowerIsFollowed == ASSUME Audio!RegisterlessAtEnds PROVE Audio!Spec => []PowerFollowsPaths
<1>1. Audio!Init => SapmInv
  BY CardRouted, SapmInitially
<1>2. SapmInv /\ [Audio!Next]_Audio!vars => SapmInv'
  BY CardRouted, SapmSteps
<1>3. SapmInv => PowerFollowsPaths
  <2>1. SUFFICES ASSUME SapmInv, NEW c \in Registered
                 PROVE  /\ power[c] /\ forced # "up" => Audio!OnPath(c)
                        /\ Audio!OnPath(c) /\ forced # "down" => power[c]
    BY DEF PowerFollowsPaths, Audio!PowerFollowsPaths
  <2>2. c \in Components
    BY CardRouted DEF Routed
  <2>3. Audio!OnPath(c) <=> c \in Live(connect)
    BY <2>2, CardRouted, OnPathIs
  <2>4. Differs(c, connect) => forced = IF power[c] THEN "up" ELSE "down"
    BY <2>1 DEF SapmInv, AsForced
  <2>5. power[c] \in BOOLEAN
    BY <2>1, <2>2 DEF SapmInv
  <2> QED
    BY <2>3, <2>4, <2>5 DEF Differs
<1> QED
  BY <1>1, <1>2, <1>3, PTL DEF Audio!Spec

LEMMA SapmTypesKept ==
  ASSUME Audio!TypeOK, [Audio!Next]_Audio!vars
  PROVE  Audio!TypeOK'
<1>1. /\ card \in Cards /\ bit \in [Audio!Switches -> {0, 1}] /\ overdue \in BOOLEAN
      /\ connect \in [Audio!Switches -> BOOLEAN] /\ power \in [Components -> BOOLEAN]
  BY DEF Audio!TypeOK, Cards
<1>2. connect' \in [Audio!Switches -> BOOLEAN] /\ power' \in [Components -> BOOLEAN]
  <2>1. CASE UNCHANGED <<connect, power>>
    BY <1>1, <2>1
  <2>2. ASSUME NEW b \in BOOLEAN, power' = Audio!RunSequence([c \in Components |-> b]), connect' = connect
        PROVE  connect' \in [Audio!Switches -> BOOLEAN] /\ power' \in [Components -> BOOLEAN]
    BY <1>1, <2>2, RunSequenceTyped
  <2>3. CASE Audio!Sleep \/ \E x \in Streams : Audio!Resume(x)
    BY <2>2, <2>3 DEF Audio!Sleep, Audio!Resume
  <2>4. ASSUME NEW s \in Audio!Switches, NEW v \in {0, 1}, Audio!SetSwitch(s, v)
        PROVE  connect' \in [Audio!Switches -> BOOLEAN] /\ power' \in [Components -> BOOLEAN]
    <3>1. PICK o, dirty : o = [connect EXCEPT ![s] = Audio!Asked(s, v) = 1] /\ connect' = o
                          /\ power' = Audio!PowerComponents(dirty, o)
      BY <2>4 DEF Audio!SetSwitch
    <3>2. o \in [Audio!Switches -> BOOLEAN]
      BY <1>1, <3>1
    <3>3. \E to : power' = Audio!RunSequence(to) /\ \A c \in Components : to[c] \in BOOLEAN
      <4>1. \A c \in Components : Audio!CheckPower(o)[c] \in BOOLEAN
        BY DEF Audio!CheckPower
      <4>2. PICK V, to : /\ to = [c \in Components |-> IF c \in V THEN Audio!CheckPower(o)[c] ELSE power[c]]
                         /\ Audio!PowerComponents(dirty, o) = Audio!RunSequence(to)
        BY DEF Audio!PowerComponents
      <4>3. ASSUME NEW c \in Components PROVE to[c] \in BOOLEAN
        <5>1. power[c] \in BOOLEAN
          BY <1>1
        <5> QED
          BY <4>1, <4>2, <5>1
      <4> QED
        BY <3>1, <4>2, <4>3
    <3>4. power' \in [Components -> BOOLEAN]
      BY <1>1, <3>3, RunSequenceTyped
    <3> QED
      BY <3>1, <3>2, <3>4
  <2> QED
    BY <2>1, <2>3, <2>4
    DEF Audio!Next, Audio!SapmStep, Audio!vars, Audio!Start, Audio!Pause, Audio!Stop, Audio!StandBy, Audio!TimePasses
<1>3. ASSUME card' \in Cards, overdue' \in BOOLEAN, bit' \in [Audio!Switches -> {0, 1}],
             stream' \in [Streams -> {"stopped", "running", "paused"}], forced' \in {"none", "up", "down"}
      PROVE  Audio!TypeOK'
  BY <1>2, <1>3 DEF Audio!TypeOK, Cards, Audio!Switches
<1>4. ASSUME NEW x \in Streams, Audio!Start(x) \/ Audio!Resume(x) PROVE Audio!TypeOK'
  <2>1. card' \in Cards /\ overdue' \in BOOLEAN
    BY <1>1, <1>4, MonitorSet DEF Audio!Start, Audio!Resume, Audio!SetMonitor
  <2>2. stream' = [stream EXCEPT ![x] = "running"] /\ bit' = bit /\ forced' \in {"none", "up", "down"}
    BY <1>4 DEF Audio!Start, Audio!Resume, Audio!Becomes, Audio!TypeOK
  <2> QED
    BY <1>3, <2>1, <2>2 DEF Audio!TypeOK
<1>5. ASSUME NEW x \in Streams, NEW mode \in {"LATER", "NOW"}, Audio!Pause(x) \/ Audio!Stop(x, mode)
      PROVE  Audio!TypeOK'
  <2>1. card' \in Cards /\ overdue' \in BOOLEAN
    BY <1>1, <1>5, MonitorSet DEF Audio!Pause, Audio!Stop, Audio!SetMonitor
  <2>2. PICK what \in {"stopped", "paused"} : stream' = [stream EXCEPT ![x] = what] /\ bit' = bit /\ forced' = forced
    BY <1>5 DEF Audio!Pause, Audio!Stop, Audio!Becomes
  <2> QED
    BY <1>3, <2>1, <2>2 DEF Audio!TypeOK
<1>6. ASSUME NEW s \in Audio!Switches, NEW v \in {0, 1}, Audio!SetSwitch(s, v) PROVE Audio!TypeOK'
  BY <1>1, <1>3, <1>6 DEF Audio!SetSwitch, Audio!TypeOK
<1>7. CASE Audio!StandBy \/ Audio!Sleep \/ Audio!TimePasses \/ UNCHANGED Audio!vars
  <2>1. card' \in Cards
    BY <1>1, <1>7 DEF Audio!StandBy, Audio!Sleep, Audio!TimePasses, Audio!vars, Audio!Refreshed, Cards
  <2> QED
    BY <1>3, <1>7, <2>1 DEF Audio!StandBy, Audio!Sleep, Audio!TimePasses, Audio!vars, Audio!TypeOK
<1> QED
  BY <1>4, <1>5, <1>6, <1>7 DEF Audio!Next, Audio!SapmStep

(* The power of the components and all else of a card keep their types.     *)
THEOREM SapmTypeCorrect == Audio!Spec => []Audio!TypeOK
<1>1. ASSUME Audio!Init PROVE Audio!TypeOK
  <2>1. connect \in [Audio!Switches -> BOOLEAN] /\ power \in [Components -> BOOLEAN]
    BY <1>1, SapmTypedInitially
  <2>2. card \in Cards /\ overdue \in BOOLEAN /\ forced \in {"none", "up", "down"}
        /\ bit \in [Audio!Switches -> {0, 1}] /\ stream \in [Streams -> {"stopped", "running", "paused"}]
    BY <1>1 DEF Audio!Init, Cards
  <2> QED
    BY ONLY <2>1, <2>2 DEF Audio!TypeOK, Cards
<1>2. Audio!TypeOK /\ [Audio!Next]_Audio!vars => Audio!TypeOK'
  BY SapmTypesKept
<1> QED
  BY <1>1, <1>2, PTL DEF Audio!Spec

-----------------------------------------------------------------------------
(*                              Ring buffers                               *)
-----------------------------------------------------------------------------
\* Writes transfer whole periods, of which a ring has a whole number, and the
\* offset starts again at a whole number of rings.
Periodic(period) ==
    /\ Transfers = {period} /\ period \in 1..Size /\ Size \in Nat \ {0} /\ Size % period = 0
    /\ Modulus \in Nat \ {0} /\ Modulus % Size = 0
    /\ Read \in 1..Size /\ MaxData \in Nat

\* Opaque to the provers but where a lemma opens it.
Mod(a, b) == a % b

\* Render is at most a ring ahead of the DMA controller, at a whole period.
RenderOK(period) ==
    /\ render.offset = Mod(render.written, Modulus) /\ Mod(render.written, period) = 0
    /\ render.played <= render.written /\ render.written - render.played <= Size
    /\ render.written - render.played = Size => period = Size
    /\ render.traf = period \/ render.written = 0
    /\ \A k \in render.played..render.written - 1 : ring[Mod(k, Size)] = k

\* Capture is less than a ring behind it.
CaptureOK ==
    /\ capture.reader = Mod(capture.taken, Size)
    /\ capture.taken <= capture.recorded /\ capture.recorded - capture.taken < Size
    /\ \A k \in capture.taken..capture.recorded - 1 : tape[Mod(k, Size)] = k
    /\ inOrder

RingInv(period) == Rings!TypeOK /\ RenderOK(period) /\ CaptureOK

-----------------------------------------------------------------------------
LEMMA Divided ==
  ASSUME NEW a \in Int, NEW S \in Nat \ {0}
  PROVE  \E q \in Int, r \in 0..S - 1 : a = S * q + r /\ Mod(a, S) = r
<1>1. (a % S) \in 0..S - 1 /\ (a \div S) \in Int /\ a = S * (a \div S) + (a % S)
  OBVIOUS
<1> QED
  BY <1>1 DEF Mod

LEMMA Quotient ==
  ASSUME NEW S \in Nat \ {0}, NEW p \in Int, NEW q \in Int, NEW r \in 0..S - 1, NEW s \in 0..S - 1,
         S * p + r = S * q + s
  PROVE  r = s
<1>1. ASSUME NEW x \in Int, NEW y \in Int, NEW u \in 0..S - 1, NEW w \in 0..S - 1,
             S * x + u = S * y + w, x < y
      PROVE  FALSE
  <2>1. PICK d \in Nat : y = x + 1 + d
    <3>1. y - x - 1 \in Nat /\ y = x + 1 + (y - x - 1)
      BY <1>1
    <3> QED
      BY <3>1
  <2>2. S * y = S * x + S + S * d /\ S * d >= 0
    BY <2>1
  <2> QED
    BY <1>1, <2>2
<1>2. p = q
  BY <1>1
<1> QED
  BY <1>2

LEMMA Remainder ==
  ASSUME NEW S \in Nat \ {0}, NEW a \in Int, NEW q \in Int, NEW r \in 0..S - 1, a = S * q + r
  PROVE  Mod(a, S) = r
<1>1. PICK p \in Int, t \in 0..S - 1 : a = S * p + t /\ Mod(a, S) = t
  BY Divided
<1>2. S * q + r = S * p + t
  BY <1>1
<1>3. r = t
  BY <1>2, Quotient
<1> QED
  BY <1>1, <1>3

LEMMA Within ==
  ASSUME NEW S \in Nat \ {0}
  PROVE  /\ \A a \in Int : Mod(a, S) \in 0..S - 1
         /\ \A r \in 0..S - 1 : Mod(r, S) = r
         /\ Mod(S, S) = 0
<1>1. ASSUME NEW r \in 0..S - 1 PROVE Mod(r, S) = r
  <2>1. PICK q \in Int, a \in Int : q = 0 /\ a = r
    OBVIOUS
  <2>2. a = S * q + r
    BY <2>1
  <2>3. Mod(a, S) = r
    BY <2>2, Remainder
  <2> QED
    BY <2>1, <2>3
<1>2. Mod(S, S) = 0
  <2>1. S = S * 1 + 0 /\ 0 \in 0..S - 1
    OBVIOUS
  <2> QED
    BY <2>1, Remainder
<1> QED
  BY <1>1, <1>2, Divided

\* Places near each other in a stream are as near in the ring.
LEMMA Onward ==
  ASSUME NEW S \in Nat \ {0}, NEW a \in Int, NEW n \in Int, Mod(a, S) + n \in 0..S - 1
  PROVE  Mod(a + n, S) = Mod(a, S) + n
<1>1. PICK q \in Int, r \in 0..S - 1 : a = S * q + r /\ Mod(a, S) = r
  BY Divided
<1>2. a + n = S * q + (r + n) /\ r + n \in 0..S - 1 /\ a + n \in Int
  BY <1>1
<1> QED
  BY <1>1, <1>2, Remainder

LEMMA Apart ==
  ASSUME NEW S \in Nat \ {0}, NEW a \in Int, NEW b \in Int, a < b, b - a < S
  PROVE  Mod(a, S) # Mod(b, S)
<1>1. SUFFICES ASSUME Mod(a, S) = Mod(b, S) PROVE FALSE
  OBVIOUS
<1>2. PICK q \in Int, r \in 0..S - 1 : a = S * q + r /\ Mod(a, S) = r
  BY Divided
<1>3. PICK p \in Int, t \in 0..S - 1 : b = S * p + t /\ Mod(b, S) = t
  BY Divided
<1>4. PICK n \in Int : n = b - a /\ b = a + n /\ n > 0 /\ n < S
  OBVIOUS
<1>5. r + n \notin 0..S - 1
  <2>1. ASSUME Mod(a, S) + n \in 0..S - 1 PROVE Mod(a + n, S) = Mod(a, S) + n
    BY <2>1, Onward
  <2> QED
    BY <1>1, <1>2, <1>4, <2>1
<1>6. S * p + r = S * q + (r + n) /\ r = t
  BY <1>1, <1>2, <1>3, <1>4
<1>7. r + n - S \in 0..S - 1
  BY <1>4, <1>5
<1>8. S * p + r = S * (q + 1) + (r + n - S) /\ q + 1 \in Int
  BY <1>6
<1>9. r = r + n - S
  BY <1>7, <1>8, Quotient
<1> QED
  BY <1>4, <1>9

\* A remainder by a multiple of S keeps the remainder by S.
LEMMA Nested ==
  ASSUME NEW S \in Nat \ {0}, NEW M \in Nat \ {0}, Mod(M, S) = 0, NEW a \in Int
  PROVE  Mod(Mod(a, M), S) = Mod(a, S)
<1>1. PICK m \in Int : M = S * m
  <2>1. M \in Int
    OBVIOUS
  <2>2. PICK q \in Int, r \in 0..S - 1 : M = S * q + r /\ Mod(M, S) = r
    BY <2>1, Divided
  <2> QED
    BY <2>2
<1>2. PICK b \in Int, c \in 0..M - 1 : a = M * b + c /\ Mod(a, M) = c
  BY Divided
<1>3. PICK p \in Int, r \in 0..S - 1 : c = S * p + r /\ Mod(c, S) = r
  <2>1. c \in Int
    OBVIOUS
  <2> QED
    BY <2>1, Divided
<1>4. PICK q \in Int : q = m * b
  OBVIOUS
<1>5. M * b = S * q
  BY <1>1, <1>4
<1>6. PICK w \in Int : w = q + p
  OBVIOUS
<1>7. S * w = S * q + S * p
  BY <1>6
<1>8. a = S * w + r
  BY <1>2, <1>3, <1>5, <1>7
<1>9. Mod(a, S) = r
  BY <1>8, Remainder
<1> QED
  BY <1>2, <1>3, <1>9

LEMMA Congruent ==
  ASSUME NEW S \in Nat \ {0}, NEW a \in Int, NEW n \in Int
  PROVE  Mod(Mod(a, S) + n, S) = Mod(a + n, S)
<1>1. PICK q \in Int, r \in 0..S - 1 : a = S * q + r /\ Mod(a, S) = r
  BY Divided
<1>2. PICK d \in Int : d = r + n
  OBVIOUS
<1>3. PICK p \in Int, t \in 0..S - 1 : d = S * p + t /\ Mod(d, S) = t
  BY Divided
<1>4. a + n = S * (q + p) + t /\ q + p \in Int /\ a + n \in Int
  BY <1>1, <1>2, <1>3
<1>5. Mod(a + n, S) = t
  BY <1>4, Remainder
<1> QED
  BY <1>1, <1>2, <1>3, <1>5

LEMMA Multiples ==
  ASSUME NEW n \in Nat \ {0}, NEW a \in Int, Mod(a, n) = 0
  PROVE  /\ Mod(a + n, n) = 0
         /\ \A b \in Int : Mod(b, n) = 0 /\ a < b => a + n <= b
<1>1. Mod(a + n, n) = 0
  <2>1. PICK q \in Int, r \in 0..n - 1 : a = n * q + r /\ Mod(a, n) = r
    BY Divided
  <2>2. PICK b \in Int, p \in Int : b = a + n /\ p = q + 1
    OBVIOUS
  <2>3. b = n * p + r
    BY <2>1, <2>2
  <2>4. Mod(b, n) = r
    BY <2>3, Remainder
  <2> QED
    BY <2>1, <2>2, <2>4
<1>2. ASSUME NEW b \in Int, Mod(b, n) = 0, a < b PROVE a + n <= b
  <2>1. CASE b - a < n
    BY <1>2, <2>1, Apart
  <2> QED
    BY <2>1
<1> QED
  BY <1>1, <1>2

\* The difference of an offset that starts again and a spot of the ring.
LEMMA Behind ==
  ASSUME NEW S \in Nat \ {0}, NEW M \in Nat \ {0}, Mod(M, S) = 0, NEW w \in Int, NEW p \in Int
  PROVE  Mod(Mod(Mod(w, M) - Mod(p, S), M), S) = Mod(w - p, S)
<1>1. PICK c \in Int, r \in Int, q \in Int : c = Mod(w, M) /\ r = Mod(p, S) /\ p = S * q + r
  <2>1. Mod(w, M) \in Int
    BY Within
  <2>2. PICK q \in Int, r \in 0..S - 1 : p = S * q + r /\ Mod(p, S) = r
    BY Divided
  <2> QED
    BY <2>1, <2>2
<1>2. PICK n \in Int : n = -r
  OBVIOUS
<1>3. Mod(Mod(c + n, M), S) = Mod(c + n, S)
  BY Nested
<1>4. Mod(c + n, S) = Mod(w + n, S)
  <2>1. Mod(Mod(c, S) + n, S) = Mod(c + n, S) /\ Mod(Mod(w, S) + n, S) = Mod(w + n, S)
    BY Congruent
  <2>2. Mod(c, S) = Mod(w, S)
    BY <1>1, Nested
  <2> QED
    BY <2>1, <2>2
<1>5. Mod(w + n, S) = Mod(w - p, S)
  <2>1. PICK d \in Int, e \in Int : d = w - p /\ e = w + n
    OBVIOUS
  <2>2. PICK u \in Int, v \in 0..S - 1 : d = S * u + v /\ Mod(d, S) = v
    BY Divided
  <2>3. PICK y \in Int : y = u + q
    OBVIOUS
  <2>4. S * y = S * u + S * q
    BY <2>3
  <2>5. e = S * y + v
    <3>1. PICK z \in Int : z = S * q
      OBVIOUS
    <3>2. p = z + r
      BY <1>1, <3>1
    <3>3. e = d + z
      BY <1>2, <2>1, <3>2
    <3> QED
      BY <2>2, <2>4, <3>1, <3>3
  <2>6. Mod(e, S) = v
    BY <2>5, Remainder
  <2> QED
    BY <2>1, <2>2, <2>6
<1>6. c + n = Mod(w, M) - Mod(p, S)
  BY <1>1, <1>2
<1> QED
  BY <1>3, <1>4, <1>5, <1>6

\* What a ring has of the room that Residual counts.
LEMMA Rest ==
  ASSUME NEW S \in Nat \ {0}, NEW M \in Nat \ {0}, Mod(M, S) = 0, NEW w \in Nat, NEW p \in Nat,
         p <= w, w - p <= S
  PROVE  S - Mod(Mod(Mod(w, M) - Mod(p, S), M), S) = IF w - p = S THEN S ELSE S - (w - p)
<1>1. PICK d \in 0..S : d = w - p
  OBVIOUS
<1>2. Mod(Mod(Mod(w, M) - Mod(p, S), M), S) = Mod(d, S)
  <2>1. w \in Int /\ p \in Int
    OBVIOUS
  <2>2. Mod(Mod(Mod(w, M) - Mod(p, S), M), S) = Mod(w - p, S)
    BY <2>1, Behind
  <2> QED
    BY <1>1, <2>2
<1>3. Mod(d, S) = IF d = S THEN 0 ELSE d
  BY Within
<1> QED
  BY <1>1, <1>2, <1>3

\* Where a transfer of a whole period puts what it transfers.
LEMMA Places ==
  ASSUME NEW S \in Nat \ {0}, NEW n \in Nat \ {0}, n <= S, Mod(S, n) = 0, NEW w \in Nat, Mod(w, n) = 0
  PROVE  /\ Mod(w, S) \in 0..S - 1 /\ Mod(w, S) + n <= S /\ Mod(w + n, n) = 0
         /\ \A j \in 0..n - 1 : Mod(w + j, S) = Mod(w, S) + j
         /\ \A k \in Nat : k < w /\ w + n - k <= S => Mod(k, S) \notin Mod(w, S)..Mod(w, S) + n - 1
<1>1. PICK spot \in 0..S - 1 : spot = Mod(w, S)
  BY Within
<1>2. spot + n <= S
  <2>1. Mod(spot, n) = 0
    BY <1>1, Nested
  <2> QED
    BY <1>1, <2>1, Multiples
<1>3. ASSUME NEW j \in 0..n - 1 PROVE Mod(w + j, S) = spot + j
  <2>1. Mod(w, S) + j \in 0..S - 1 /\ w \in Int /\ j \in Int
    BY <1>1, <1>2
  <2>2. Mod(w + j, S) = Mod(w, S) + j
    BY <2>1, Onward
  <2> QED
    BY <1>1, <2>2
<1>4. ASSUME NEW k \in Nat, k < w, w + n - k <= S, Mod(k, S) \in spot..spot + n - 1 PROVE FALSE
  <2>1. PICK j \in 0..n - 1 : Mod(k, S) = spot + j
    <3>1. PICK i \in spot..spot + n - 1 : i = Mod(k, S)
      BY <1>4
    <3>2. i - spot \in 0..n - 1 /\ i = spot + (i - spot)
      OBVIOUS
    <3> QED
      BY <3>1, <3>2
  <2>2. PICK b \in Int : b = w + j
    OBVIOUS
  <2>3. k < b /\ b - k < S /\ Mod(b, S) = Mod(k, S)
    BY <1>3, <1>4, <2>1, <2>2
  <2> QED
    BY <2>3, Apart
<1> QED
  BY <1>1, <1>2, <1>3, <1>4, Multiples
-----------------------------------------------------------------------------
LEMMA Sizes ==
  ASSUME NEW period, Periodic(period)
  PROVE  /\ period \in Nat \ {0} /\ period <= Size /\ Size \in Nat \ {0} /\ Modulus \in Nat \ {0}
         /\ Mod(Size, period) = 0 /\ Mod(Modulus, Size) = 0
         /\ Read \in Nat \ {0} /\ Read <= Size /\ MaxData \in Nat /\ Transfers = {period}
         /\ 1..Read \subseteq 1..Size
BY DEF Periodic, Mod

Renders == [offset : 0..Modulus - 1, traf : Transfers \cup {1}, written : 0..MaxData, played : 0..MaxData]
Captures == [reader : 0..Size - 1, cur : 1..Read, recorded : 0..MaxData, taken : 0..MaxData]
Tapes == [0..2 * Size - 1 -> -1..MaxData]

LEMMA Typed ==
  ASSUME Rings!TypeOK
  PROVE  /\ render \in Renders /\ capture \in Captures /\ ring \in Tapes /\ tape \in Tapes /\ inOrder \in BOOLEAN
         /\ render.written \in 0..MaxData /\ render.played \in 0..MaxData /\ render.traf \in Transfers \cup {1}
         /\ render.offset \in 0..Modulus - 1
         /\ capture.reader \in 0..Size - 1 /\ capture.cur \in 1..Read
         /\ capture.recorded \in 0..MaxData /\ capture.taken \in 0..MaxData
BY DEF Rings!TypeOK, Rings!Places, Renders, Captures, Tapes

LEMMA Retyped ==
  ASSUME render' \in Renders, capture' \in Captures, ring' \in Tapes, tape' \in Tapes, inOrder' \in BOOLEAN
  PROVE  Rings!TypeOK'
BY DEF Rings!TypeOK, Rings!Places, Renders, Captures, Tapes

\* There is room for a transfer only if it does not come round to what is
\* still to be played.
LEMMA RoomIs ==
  ASSUME NEW period, Periodic(period), RingInv(period),
         Rings!HasRoom(period) \/ Rings!HasRoom(render.traf)
  PROVE  /\ render.written - render.played + period <= Size
         /\ render.written - render.played + period = Size => period = Size
<1>1. PICK w \in Nat, p \in Nat, S \in Nat \ {0}, M \in Nat \ {0}, n \in Nat \ {0} :
          w = render.written /\ p = render.played /\ S = Size /\ M = Modulus /\ n = period
  <2>1. Size \in Nat \ {0} /\ Modulus \in Nat \ {0} /\ period \in Nat \ {0} /\ MaxData \in Nat
    BY Sizes
  <2>2. render.written \in 0..MaxData /\ render.played \in 0..MaxData
    BY Typed DEF RingInv
  <2> QED
    BY ONLY <2>1, <2>2
<1>2. /\ p <= w /\ w - p <= S /\ (w - p = S => n = S) /\ n <= S /\ Mod(M, S) = 0
      /\ render.offset = Mod(w, M) /\ (render.traf = n \/ w = 0)
  <2>1. n <= S /\ Mod(M, S) = 0
    BY <1>1, Sizes
  <2> QED
    BY <1>1, <2>1 DEF RingInv, RenderOK
<1>3. Rings!Residual = S - Mod(Mod(Mod(w, M) - Mod(p, S), M), S)
  BY <1>1, <1>2 DEF Rings!Residual, Rings!Pointer, Mod
<1>4. Rings!Residual = IF w - p = S THEN S ELSE S - (w - p)
  BY <1>2, <1>3, Rest
<1>5. CASE w = 0
  BY <1>1, <1>2, <1>5
<1>6. CASE w # 0
  <2>1. Rings!Residual > n
    BY <1>1, <1>2, <1>6 DEF Rings!HasRoom
  <2> QED
    BY <1>1, <1>2, <1>4, <2>1
<1> QED
  BY <1>5, <1>6

LEMMA TransferKeeps ==
  ASSUME NEW period, Periodic(period), RingInv(period), Rings!HasRoom(period) \/ Rings!HasRoom(render.traf),
         Rings!Transfer(period)
  PROVE  RingInv(period)'
<1>1. PICK w \in Nat, p \in Nat, S \in Nat \ {0}, M \in Nat \ {0}, n \in Nat \ {0} :
          w = render.written /\ p = render.played /\ S = Size /\ M = Modulus /\ n = period
  <2>1. Size \in Nat \ {0} /\ Modulus \in Nat \ {0} /\ period \in Nat \ {0} /\ MaxData \in Nat
    BY Sizes
  <2>2. render.written \in 0..MaxData /\ render.played \in 0..MaxData
    BY Typed DEF RingInv
  <2> QED
    BY ONLY <2>1, <2>2
<1>2. /\ p <= w /\ n <= S /\ Mod(M, S) = 0 /\ Mod(S, n) = 0
      /\ render.offset = Mod(w, M) /\ Mod(w, n) = 0 /\ w - p + n <= S /\ (w - p + n = S => n = S)
      /\ \A k \in p..w - 1 : ring[Mod(k, S)] = k
  <2>1. n = period /\ n <= S /\ Mod(M, S) = 0 /\ Mod(S, n) = 0
    BY <1>1, Sizes
  <2>2. w - p + n <= S /\ (w - p + n = S => n = S)
    BY <1>1, RoomIs
  <2> QED
    BY <1>1, <2>1, <2>2 DEF RingInv, RenderOK
<1>3. PICK spot \in 0..S - 1 :
          /\ spot = Mod(w, S) /\ spot + n <= S /\ Mod(w + n, n) = 0
          /\ \A j \in 0..n - 1 : Mod(w + j, S) = spot + j
          /\ \A k \in Nat : k < w /\ w + n - k <= S => Mod(k, S) \notin spot..spot + n - 1
  BY <1>2, Places
<1>4. spot = render.offset % Size
  <2>1. w \in Int
    OBVIOUS
  <2>2. Mod(Mod(w, M), S) = Mod(w, S)
    BY <1>2, <2>1, Nested
  <2>3. render.offset % Size = Mod(render.offset, Size)
    BY DEF Mod
  <2> QED
    BY <1>1, <1>2, <1>3, <2>2, <2>3
<1>5. /\ w + n <= MaxData /\ UNCHANGED <<capture, tape, inOrder>>
      /\ ring' = [i \in 0..2 * S - 1 |-> IF i \in spot..spot + n - 1 THEN w + i - spot ELSE ring[i]]
  BY <1>1, <1>4 DEF Rings!Transfer, Rings!Places
<1>6. PICK offset \in 0..Modulus - 1 : offset = Mod(w + n, M)
  BY <1>1, Within
<1>7. (render.offset + n) % Modulus = offset
  <2>1. Mod(Mod(w, M) + n, M) = Mod(w + n, M)
    <3>1. w \in Int /\ n \in Int
      OBVIOUS
    <3> QED
      BY <3>1, Congruent
  <2> QED
    BY <1>1, <1>2, <1>6, <2>1 DEF Mod
<1>8. render' = [render EXCEPT !.offset = offset, !.written = w + n, !.traf = n]
  BY <1>1, <1>7 DEF Rings!Transfer
<1>9. /\ render'.offset = offset /\ render'.written = w + n /\ render'.traf = n /\ render'.played = p
      /\ render' \in Renders
  <2>1. render \in Renders
    BY Typed DEF RingInv
  <2>2. n \in Transfers
    BY <1>1, Sizes
  <2>3. w + n \in 0..MaxData
    BY <1>5, Sizes
  <2> QED
    BY <1>1, <1>8, <2>1, <2>2, <2>3 DEF Renders
<1>10. ring' \in Tapes
  <2>1. \A i \in spot..spot + n - 1 : w + i - spot \in -1..MaxData
    BY <1>5, Sizes
  <2>2. \A i \in 0..2 * S - 1 : ring[i] \in -1..MaxData
    BY <1>1, Typed DEF RingInv, Tapes
  <2> QED
    BY <1>1, <1>5, <2>1, <2>2 DEF Tapes
<1>11. Rings!TypeOK'
  BY <1>5, <1>9, <1>10, Typed, Retyped DEF RingInv
<1>12. ASSUME NEW k \in p..w + n - 1 PROVE ring'[Mod(k, S)] = k
  <2>1. PICK i \in 0..2 * S - 1 : i = Mod(k, S)
    BY Within
  <2>2. CASE k >= w
    <3>1. PICK j \in 0..n - 1 : k = w + j
      <4>1. k - w \in 0..n - 1 /\ k = w + (k - w)
        BY <2>2
      <4> QED
        BY <4>1
    <3>2. i = spot + j
      BY <1>3, <2>1, <3>1
    <3> QED
      BY <1>5, <2>1, <3>1, <3>2
  <2>3. CASE k < w
    <3>1. i \notin spot..spot + n - 1
      BY <1>2, <1>3, <2>1, <2>3
    <3>2. ring[i] = k
      BY <1>2, <2>1, <2>3
    <3> QED
      BY <1>5, <2>1, <3>1, <3>2
  <2> QED
    BY <2>2, <2>3
<1>13. RenderOK(period)'
  BY <1>1, <1>2, <1>3, <1>6, <1>9, <1>12 DEF RenderOK
<1>14. CaptureOK'
  BY <1>5 DEF RingInv, CaptureOK
<1> QED
  BY <1>11, <1>13, <1>14 DEF RingInv

LEMMA PcmWriteKeeps ==
  ASSUME NEW period, Periodic(period), RingInv(period), Rings!PcmWrite(period)
  PROVE  RingInv(period)'
<1>1. CASE Rings!HasRoom(period)
  BY <1>1, TransferKeeps DEF Rings!PcmWrite
<1>2. CASE ~Rings!HasRoom(period)
  <2>1. render' = [render EXCEPT !.traf = period] /\ UNCHANGED <<ring, capture, tape, inOrder>>
    BY <1>2 DEF Rings!PcmWrite
  <2>2. render \in Renders /\ period \in Transfers
    BY Typed, Sizes DEF RingInv
  <2>3. /\ render' \in Renders /\ render'.traf = period /\ render'.offset = render.offset
        /\ render'.written = render.written /\ render'.played = render.played
    BY <2>1, <2>2 DEF Renders
  <2>4. Rings!TypeOK'
    BY <2>1, <2>3, Typed, Retyped DEF RingInv
  <2> QED
    BY <2>1, <2>3, <2>4 DEF RingInv, RenderOK, CaptureOK
<1> QED
  BY <1>1, <1>2

LEMMA PlayKeeps ==
  ASSUME NEW period, Periodic(period), RingInv(period), Rings!Play
  PROVE  RingInv(period)'
<1>1. /\ render.played < render.written /\ render' = [render EXCEPT !.played = render.played + 1]
      /\ UNCHANGED <<ring, capture, tape, inOrder>>
  BY DEF Rings!Play
<1>2. /\ render \in Renders /\ render.written \in Nat /\ render.played \in Nat /\ render.played + 1 \in 0..MaxData
      /\ Size \in Nat \ {0}
  BY <1>1, Typed, Sizes DEF RingInv
<1>3. /\ render' \in Renders /\ render'.traf = render.traf /\ render'.offset = render.offset
      /\ render'.written = render.written /\ render'.played = render.played + 1
  BY <1>1, <1>2 DEF Renders
<1>4. Rings!TypeOK'
  BY <1>1, <1>3, Typed, Retyped DEF RingInv
<1>5. RenderOK(period)'
  BY <1>1, <1>2, <1>3 DEF RingInv, RenderOK
<1> QED
  BY <1>1, <1>4, <1>5 DEF RingInv, CaptureOK

LEMMA RecordKeeps ==
  ASSUME NEW period, Periodic(period), RingInv(period), Rings!Record
  PROVE  RingInv(period)'
<1>1. PICK t \in Nat, e \in Nat, S \in Nat \ {0} : t = capture.taken /\ e = capture.recorded /\ S = Size
  BY Sizes, Typed DEF RingInv
<1>2. PICK i \in 0..S - 1 : i = Mod(e, S) /\ i \in 0..2 * S - 1
  <2>1. Mod(e, S) \in 0..S - 1
    BY Within
  <2> QED
    BY <2>1
<1>3. /\ e - t < S - 1 /\ e < MaxData /\ tape' = [tape EXCEPT ![i] = e]
      /\ capture' = [capture EXCEPT !.recorded = e + 1] /\ UNCHANGED <<render, ring, inOrder>>
  BY <1>1, <1>2 DEF Rings!Record, Rings!Pointer, Mod
<1>4. capture \in Captures /\ tape \in Tapes /\ MaxData \in Nat
  BY Typed, Sizes DEF RingInv
<1>5. /\ capture' \in Captures /\ capture'.recorded = e + 1 /\ capture'.taken = t /\ capture'.reader = capture.reader
  BY <1>1, <1>3, <1>4 DEF Captures
<1>6. tape' \in Tapes /\ tape'[i] = e /\ \A k \in 0..2 * S - 1 : k # i => tape'[k] = tape[k]
  BY <1>1, <1>2, <1>3, <1>4 DEF Tapes
<1>7. Rings!TypeOK'
  BY <1>3, <1>5, <1>6, Typed, Retyped DEF RingInv
<1>8. t <= e /\ \A k \in t..e - 1 : tape[Mod(k, S)] = k
  BY <1>1 DEF RingInv, CaptureOK
<1>9. ASSUME NEW k \in t..e PROVE tape'[Mod(k, S)] = k
  <2>1. CASE k = e
    BY <1>2, <1>6, <2>1
  <2>2. CASE k # e
    <3>1. PICK j \in 0..2 * S - 1 : j = Mod(k, S)
      BY Within
    <3>2. k < e /\ e - k < S /\ k \in Int /\ e \in Int
      BY <1>3, <2>2
    <3>3. j # i
      BY <1>2, <3>1, <3>2, Apart
    <3> QED
      BY <1>6, <1>8, <3>1, <3>2, <3>3
  <2> QED
    BY <2>1, <2>2
<1>10. CaptureOK'
  BY <1>1, <1>3, <1>5, <1>8, <1>9 DEF RingInv, CaptureOK
<1> QED
  BY <1>3, <1>7, <1>10 DEF RingInv, RenderOK

\* The DMA controller is ahead of the reader by what is in the ring.
LEMMA Ahead ==
  ASSUME NEW S \in Nat \ {0}, NEW t \in Nat, NEW e \in Nat, t <= e, e - t < S
  PROVE  e - t = IF Mod(e, S) >= Mod(t, S) THEN Mod(e, S) - Mod(t, S) ELSE Mod(e, S) - Mod(t, S) + S
<1>1. PICK r \in 0..S - 1, w \in 0..S - 1 : r = Mod(t, S) /\ w = Mod(e, S)
  BY Within
<1>2. PICK d \in 0..S - 1 : d = e - t /\ e = t + d /\ d \in Int /\ t \in Int /\ e \in Int
  OBVIOUS
<1>3. CASE r + d < S
  <2>1. Mod(t, S) + d \in 0..S - 1
    BY <1>1, <1>3
  <2>2. Mod(t + d, S) = Mod(t, S) + d
    <3>1. t \in Int /\ d \in Int
      BY <1>2
    <3> QED
      BY <2>1, <3>1, Onward
  <2> QED
    BY <1>1, <1>2, <2>2
<1>4. CASE r + d >= S
  <2>1. PICK n \in Int : n = d - S
    OBVIOUS
  <2>2. Mod(t, S) + n \in 0..S - 1
    BY <1>1, <1>4, <2>1
  <2>3. Mod(t + n, S) = Mod(t, S) + n
    BY <1>2, <2>2, Onward
  <2>4. Mod(t + n, S) = Mod(e, S)
    <3>1. PICK a \in Int : a = t + n /\ a + S = e
      BY <1>2, <2>1
    <3>2. PICK q \in Int, x \in 0..S - 1 : a = S * q + x /\ Mod(a, S) = x
      BY Divided
    <3>3. PICK p \in Int : p = q + 1
      OBVIOUS
    <3>4. e = S * p + x
      BY <3>1, <3>2, <3>3
    <3>5. Mod(e, S) = x
      BY <1>2, <3>4, Remainder
    <3> QED
      BY <3>1, <3>2, <3>5
  <2> QED
    BY <1>1, <1>2, <1>4, <2>1, <2>3, <2>4
<1> QED
  BY <1>3, <1>4

LEMMA MmapWriteKeeps ==
  ASSUME NEW period, Periodic(period), RingInv(period), Rings!MmapWrite(period)
  PROVE  RingInv(period)'
BY TransferKeeps DEF Rings!MmapWrite

LEMMA SilenceTyped ==
  ASSUME NEW period, Periodic(period)
  PROVE  Rings!Silence \in Tapes
<1>1. MaxData \in Nat
  BY Sizes
<1> QED
  BY <1>1 DEF Rings!Silence, Rings!Places, Tapes

LEMMA RenderPrepareKeeps ==
  ASSUME NEW period, Periodic(period), RingInv(period), Rings!RenderPrepare
  PROVE  RingInv(period)'
<1>1. /\ render' = [render EXCEPT !.offset = 0, !.written = 0, !.played = 0]
      /\ ring' = Rings!Silence /\ UNCHANGED <<capture, tape, inOrder>>
  BY DEF Rings!RenderPrepare
<1>2. render \in Renders /\ Modulus \in Nat \ {0} /\ MaxData \in Nat /\ Size \in Nat \ {0} /\ period \in Nat \ {0}
  BY Typed, Sizes DEF RingInv
<1>3. /\ render'.offset = 0 /\ render'.written = 0 /\ render'.played = 0 /\ render' \in Renders
  <2>1. PICK x \in 0..Modulus - 1 : x = 0
    BY <1>2
  <2>2. PICK y \in 0..MaxData : y = 0
    BY <1>2
  <2>3. render' = [render EXCEPT !.offset = x, !.written = y, !.played = y]
    BY <1>1, <2>1, <2>2
  <2> QED
    BY <1>2, <2>1, <2>2, <2>3 DEF Renders
<1>4. Rings!TypeOK'
  BY <1>1, <1>3, SilenceTyped, Typed, Retyped DEF RingInv
<1>5. Mod(0, Modulus) = 0 /\ Mod(0, period) = 0
  BY <1>2, Within
<1>6. RenderOK(period)'
  BY <1>2, <1>3, <1>5 DEF RenderOK
<1> QED
  BY <1>1, <1>4, <1>6 DEF RingInv, CaptureOK

LEMMA CapturePrepareKeeps ==
  ASSUME NEW period, Periodic(period), RingInv(period), Rings!CapturePrepare
  PROVE  RingInv(period)'
<1>1. /\ capture' = [capture EXCEPT !.reader = 0, !.recorded = 0, !.taken = 0]
      /\ tape' = Rings!Silence /\ UNCHANGED <<render, ring, inOrder>>
  BY DEF Rings!CapturePrepare
<1>2. capture \in Captures /\ MaxData \in Nat /\ Size \in Nat \ {0}
  BY Typed, Sizes DEF RingInv
<1>3. /\ capture'.reader = 0 /\ capture'.recorded = 0 /\ capture'.taken = 0 /\ capture' \in Captures
  <2>1. PICK x \in 0..Size - 1 : x = 0
    BY <1>2
  <2>2. PICK y \in 0..MaxData : y = 0
    BY <1>2
  <2>3. capture' = [capture EXCEPT !.reader = x, !.recorded = y, !.taken = y]
    BY <1>1, <2>1, <2>2
  <2> QED
    BY <1>2, <2>1, <2>2, <2>3 DEF Captures
<1>4. Rings!TypeOK'
  BY <1>1, <1>3, SilenceTyped, Typed, Retyped DEF RingInv
<1>5. Mod(0, Size) = 0
  BY <1>2, Within
<1>6. CaptureOK'
  BY <1>1, <1>2, <1>3, <1>5 DEF RingInv, CaptureOK
<1> QED
  BY <1>1, <1>4, <1>6 DEF RingInv, RenderOK

\* What is read has been recorded, and does not go over the end of the ring.
LEMMA ReadIsThere ==
  ASSUME NEW period, Periodic(period), RingInv(period), NEW wanted \in 1..Read, Rings!ReadData(wanted)
  PROVE  \E cur \in 1..Read :
             /\ cur = Rings!Shortened(wanted)
             /\ cur <= capture.recorded - capture.taken /\ capture.reader + cur <= Size
<1>1. PICK t \in Nat, e \in Nat, S \in Nat \ {0}, n \in Nat \ {0} :
          t = capture.taken /\ e = capture.recorded /\ S = Size /\ n = Read
  BY Sizes, Typed DEF RingInv
<1>2. PICK r \in 0..S - 1, w \in 0..S - 1 : r = Mod(t, S) /\ w = Mod(e, S)
  BY Within
<1>3. /\ t <= e /\ e - t < S /\ capture.reader = r
  BY <1>1, <1>2 DEF RingInv, CaptureOK
<1>4. Rings!Pointer(capture.recorded) = w
  BY <1>1, <1>2 DEF Rings!Pointer, Mod
<1>5. e - t = IF w >= r THEN w - r ELSE w - r + S
  BY <1>2, <1>3, Ahead
<1>6. w >= r => w - r >= n
  BY <1>1, <1>3, <1>4 DEF Rings!ReadData
<1>7. PICK x \in 1..n : x = wanted
  BY <1>1
<1>8. CASE r > w /\ S - r < n
  <2>1. Rings!Shortened(wanted) = S - r
    BY <1>1, <1>3, <1>4, <1>8 DEF Rings!Shortened
  <2>2. S - r \in 1..n
    BY <1>8
  <2> QED
    BY <1>1, <1>3, <1>5, <1>8, <2>1, <2>2
<1>9. CASE ~(r > w /\ S - r < n)
  <2>1. Rings!Shortened(wanted) = x
    BY <1>1, <1>3, <1>4, <1>7, <1>9 DEF Rings!Shortened
  <2> QED
    BY <1>1, <1>3, <1>5, <1>6, <1>9, <2>1
<1> QED
  BY <1>8, <1>9

LEMMA ReadDataKeeps ==
  ASSUME NEW period, Periodic(period), RingInv(period), NEW wanted \in 1..Read, Rings!ReadData(wanted)
  PROVE  RingInv(period)'
<1>1. PICK t \in Nat, e \in Nat, S \in Nat \ {0} : t = capture.taken /\ e = capture.recorded /\ S = Size
  BY Sizes, Typed DEF RingInv
<1>2. PICK r \in 0..S - 1 : r = Mod(t, S)
  BY Within
<1>3. /\ t <= e /\ e - t < S /\ capture.reader = r /\ inOrder
      /\ \A k \in t..e - 1 : tape[Mod(k, S)] = k
  BY <1>1, <1>2 DEF RingInv, CaptureOK
<1>4. PICK cur \in 1..Read : cur = Rings!Shortened(wanted) /\ cur <= e - t /\ r + cur <= S
  BY <1>1, <1>3, ReadIsThere
<1>5. cur \in Nat \ {0}
  BY Sizes
<1>6. PICK next \in 0..S - 1 : next = IF r + cur >= S THEN 0 ELSE r + cur
  BY <1>4, <1>5
<1>7. /\ capture' = [capture EXCEPT !.reader = next, !.cur = cur, !.taken = t + cur]
      /\ inOrder' = (inOrder /\ \A i \in 0..cur - 1 : tape[r + i] = t + i /\ t + i < e)
      /\ UNCHANGED <<render, ring, tape>>
  BY <1>1, <1>3, <1>4, <1>6 DEF Rings!ReadData
<1>8. ASSUME NEW i \in 0..cur - 1 PROVE tape[r + i] = t + i /\ t + i < e
  <2>1. t \in Int /\ i \in Int /\ Mod(t, S) + i \in 0..S - 1 /\ t + i \in t..e - 1
    BY <1>2, <1>4, <1>5
  <2>2. Mod(t + i, S) = r + i
    BY <1>2, <2>1, Onward
  <2> QED
    BY <1>3, <2>1, <2>2
<1>9. inOrder'
  BY <1>3, <1>7, <1>8
<1>10. next = Mod(t + cur, S)
  <2>1. CASE r + cur < S
    <3>1. t \in Int /\ cur \in Int /\ Mod(t, S) + cur \in 0..S - 1
      BY <1>2, <1>5, <2>1
    <3>2. Mod(t + cur, S) = Mod(t, S) + cur
      BY <3>1, Onward
    <3> QED
      BY <1>2, <1>5, <1>6, <2>1, <3>2
  <2>2. CASE r + cur = S
    <3>1. PICK d \in Int : d = t + cur
      BY <1>5
    <3>2. PICK q \in Int, x \in 0..S - 1 : t = S * q + x /\ Mod(t, S) = x
      <4>1. t \in Int
        OBVIOUS
      <4> QED
        BY <4>1, Divided
    <3>3. PICK p \in Int : p = q + 1
      OBVIOUS
    <3>4. d = S * p + 0 /\ 0 \in 0..S - 1
      BY <1>2, <1>5, <2>2, <3>1, <3>2, <3>3
    <3>5. Mod(d, S) = 0
      BY <3>4, Remainder
    <3> QED
      BY <1>6, <2>2, <3>1, <3>5
  <2> QED
    BY <1>4, <1>5, <2>1, <2>2
<1>11. capture \in Captures /\ t + cur \in 0..MaxData
  BY <1>1, <1>4, <1>5, Typed, Sizes DEF RingInv
<1>12. /\ capture'.reader = next /\ capture'.taken = t + cur /\ capture'.recorded = e /\ capture' \in Captures
  BY <1>1, <1>6, <1>7, <1>11 DEF Captures
<1>13. Rings!TypeOK'
  BY <1>7, <1>9, <1>12, Typed, Retyped DEF RingInv
<1>14. CaptureOK'
  <2>1. t + cur <= e /\ e - (t + cur) < S /\ \A k \in t + cur..e - 1 : k \in t..e - 1
    BY <1>3, <1>4, <1>5
  <2> QED
    BY <1>1, <1>3, <1>7, <1>9, <1>10, <1>12, <2>1 DEF CaptureOK
<1> QED
  BY <1>7, <1>13, <1>14 DEF RingInv, RenderOK

LEMMA RingsInit ==
  ASSUME NEW period, Periodic(period), Rings!Init
  PROVE  RingInv(period)
<1>1. /\ render = [offset |-> 0, traf |-> 1, written |-> 0, played |-> 0] /\ ring = Rings!Silence
      /\ capture = [reader |-> 0, cur |-> Read, recorded |-> 0, taken |-> 0] /\ tape = Rings!Silence /\ inOrder
  BY DEF Rings!Init
<1>2. Modulus \in Nat \ {0} /\ MaxData \in Nat /\ Size \in Nat \ {0} /\ period \in Nat \ {0} /\ Read \in Nat \ {0}
  BY Sizes
<1>3. Rings!TypeOK
  <2>1. render \in Renders /\ capture \in Captures
    BY <1>1, <1>2 DEF Renders, Captures
  <2>2. ring \in Tapes /\ tape \in Tapes
    BY <1>1, SilenceTyped
  <2> QED
    BY <1>1, <2>1, <2>2 DEF Rings!TypeOK, Rings!Places, Renders, Captures, Tapes
<1>4. Mod(0, Modulus) = 0 /\ Mod(0, period) = 0 /\ Mod(0, Size) = 0
  BY <1>2, Within
<1> QED
  BY <1>1, <1>2, <1>3, <1>4 DEF RingInv, RenderOK, CaptureOK

LEMMA RingsKept ==
  ASSUME NEW period, Periodic(period), RingInv(period), [Rings!Next]_(Rings!vars)
  PROVE  RingInv(period)'
<1>1. CASE Rings!RenderPrepare
  BY <1>1, RenderPrepareKeeps
<1>2. CASE Rings!CapturePrepare
  BY <1>2, CapturePrepareKeeps
<1>3. CASE \E n \in Transfers : Rings!PcmWrite(n) \/ Rings!MmapWrite(n)
  <2>1. Rings!PcmWrite(period) \/ Rings!MmapWrite(period)
    BY <1>3, Sizes
  <2> QED
    BY <2>1, PcmWriteKeeps, MmapWriteKeeps
<1>4. CASE Rings!Play
  BY <1>4, PlayKeeps
<1>5. CASE Rings!Record
  BY <1>5, RecordKeeps
<1>6. CASE Rings!PcmRead \/ Rings!MmapRead
  <2>1. Read \in 1..Read /\ capture.cur \in 1..Read
    BY Sizes, Typed DEF RingInv
  <2> QED
    BY <1>6, <2>1, ReadDataKeeps DEF Rings!PcmRead, Rings!MmapRead
<1>7. CASE UNCHANGED Rings!vars
  <2>1. UNCHANGED <<render, ring, capture, tape, inOrder>>
    BY <1>7 DEF Rings!vars
  <2>2. Rings!TypeOK'
    BY <2>1, Typed, Retyped DEF RingInv
  <2> QED
    BY <2>1, <2>2 DEF RingInv, RenderOK, CaptureOK
<1> QED
  BY <1>1, <1>2, <1>3, <1>4, <1>5, <1>6, <1>7 DEF Rings!Next

(* Sound is kept in rings of any size, for transfers of a whole period and  *)
(* reads of any length: a ring that looks full is not empty                 *)
(* (audio_platform_base.c:247), although the offset overflows, and no read  *)
(* goes beyond what was recorded or over the end of the ring.               *)
THEOREM SoundIsKept ==
  ASSUME NEW period, Periodic(period)
  PROVE  Rings!Spec => []SoundKept
<1>1. Rings!Init => RingInv(period)
  BY RingsInit
<1>2. RingInv(period) /\ [Rings!Next]_(Rings!vars) => RingInv(period)'
  BY RingsKept
<1>3. RingInv(period) => SoundKept
  BY DEF RingInv, RenderOK, CaptureOK, SoundKept, Rings!SoundKept, Rings!Pointer, Mod
<1> QED
  BY <1>1, <1>2, <1>3, PTL DEF Rings!Spec

-----------------------------------------------------------------------------
(*                              Flow control                               *)
-----------------------------------------------------------------------------
\* Senders are finitely many, and none is one of the module's own threads.
Configured ==
    IsFiniteSet(Senders) /\ Senders \cap (Flow!Dirs \cup {Flow!Main}) = {} /\ Threshold \in Nat

\* A sender inside a call has a queue.
Sending ==
    /\ queued \in [Queues -> Nat]
    /\ target \in [Senders -> Queues \cup {<<>>}]
    /\ flowPc = [p \in Flow!Dirs \cup Senders \cup {Flow!Main} |-> flowPc[p]]
    /\ \A s \in Senders : flowPc[s] # "idle" => target[s] \in Queues

\* The senders that have looked at a queue and are about to add to it.
Adding(q) == {s \in Senders : flowPc[s] = "enqueue" /\ target[s] = q}

\* The packets of a queue, with those about to be added.
Room == \A q \in Queues : queued[q] + Cardinality(Adding(q)) <= Threshold + Cardinality(Senders)

FlowInv == Sending /\ (Threshold > 0 => Room)

-----------------------------------------------------------------------------
LEMMA SendersBounded ==
    ASSUME Configured, NEW some \in SUBSET Senders
    PROVE  /\ IsFiniteSet(some) /\ Cardinality(some) \in Nat
           /\ Cardinality(Senders) \in Nat /\ Cardinality(some) <= Cardinality(Senders)
BY FS_Subset, FS_CardinalityType DEF Configured

LEMMA AddingBounded ==
    ASSUME Configured, NEW q
    PROVE  /\ IsFiniteSet(Adding(q)) /\ Cardinality(Adding(q)) \in Nat
           /\ Cardinality(Senders) \in Nat /\ Cardinality(Adding(q)) <= Cardinality(Senders)
<1>1. Adding(q) \in SUBSET Senders
  BY DEF Adding
<1> QED BY <1>1, SendersBounded

LEMMA FlowInit == ASSUME Configured, Flow!Init PROVE FlowInv
<1>1. Sending
  BY DEF Flow!Init, Sending, Configured, Flow!Dirs, Flow!Main
<1>2. ASSUME NEW q \in Queues
      PROVE  Adding(q) = {} /\ queued[q] = 0
  BY DEF Flow!Init, Adding, Configured, Flow!Dirs, Flow!Main
<1>3. Room
  BY <1>2, AddingBounded, FS_EmptySet DEF Room, Configured
<1> QED BY <1>1, <1>3 DEF FlowInv

(* A step that adds nothing to a queue and sends nobody to add to it.       *)
LEMMA RoomKept ==
    ASSUME Configured, FlowInv, Sending', \A q \in Queues : queued'[q] <= queued[q] /\ Adding(q)' = Adding(q)
    PROVE  FlowInv'
<1>1. ASSUME Room, NEW q \in Queues
      PROVE  queued'[q] + Cardinality(Adding(q)') <= Threshold + Cardinality(Senders)
  BY <1>1, AddingBounded DEF FlowInv, Room, Sending, Configured
<1> QED BY <1>1 DEF FlowInv, Room

-----------------------------------------------------------------------------
\* A step of the module's own threads leaves senders alone.
ModuleStep == Flow!MainStep \/ Flow!DeInit \/ \E d \in Flow!Dirs : Flow!ThreadStep(d)

LEMMA ModuleChanges ==
    ASSUME Configured, FlowInv, ModuleStep
    PROVE  /\ Sending' /\ target' = target
           /\ \A s \in Senders : flowPc'[s] = flowPc[s]
           /\ \A q \in Queues : queued'[q] <= queued[q]
<1> USE DEF FlowInv, Sending, Configured, Flow!Goto
<1>1. /\ target' = target /\ flowPc' = [p \in Flow!Dirs \cup Senders \cup {Flow!Main} |-> flowPc'[p]]
      /\ \A s \in Senders : flowPc'[s] = flowPc[s]
  <2>1. CASE Flow!CreateRx
    BY <2>1 DEF Flow!CreateRx, Flow!Dirs, Flow!Main
  <2>2. ASSUME NEW k \in Flow!Dirs \cup {Flow!Main}, NEW where, Flow!Goto(k, where) \/ flowPc' = flowPc
        PROVE  flowPc' = [p \in Flow!Dirs \cup Senders \cup {Flow!Main} |-> flowPc'[p]] /\ \A s \in Senders : flowPc'[s] = flowPc[s]
    BY <2>2
  <2>3. CASE Flow!Created \/ Flow!DeInit
    BY <2>2, <2>3 DEF Flow!Created, Flow!DeInit
  <2>4. CASE \E d \in Flow!Dirs : Flow!Ask(d) \/ Flow!Stop(d) \/ Flow!Wake(d) \/ Flow!Await(d)
    BY <2>2, <2>4 DEF Flow!Ask, Flow!Stop, Flow!Wake, Flow!Await, Flow!Return
  <2>5. CASE \E d \in Flow!Dirs : Flow!Begin(d) \/ Flow!ToWait(d) \/ Flow!Wait(d) \/ Flow!Test(d) \/ Flow!ToRun(d) \/ Flow!Leave(d)
    BY <2>2, <2>5 DEF Flow!Begin, Flow!ToWait, Flow!Wait, Flow!Test, Flow!ToRun, Flow!Leave
  <2>6. CASE \E d \in Flow!Dirs : Flow!Serve(d)
    BY <2>2, <2>6 DEF Flow!Serve
  <2> QED BY <2>1, <2>3, <2>4, <2>5, <2>6 DEF ModuleStep, Flow!MainStep, Flow!ThreadStep
<1>2. CASE UNCHANGED queued
  BY <1>1, <1>2
<1>3. CASE \E d \in Flow!Dirs : Flow!Serve(d)
  <2>1. PICK k, n : /\ queued' = [queued EXCEPT ![k] = IF n > 0 THEN n ELSE 0] \/ queued' = queued
                    /\ n \in {0, queued[k] - 1}
    BY <1>3 DEF Flow!Serve
  <2>2. CASE k \in Queues
    BY <1>1, <2>1, <2>2
  <2>3. CASE k \notin Queues
    BY <1>1, <2>1, <2>3
  <2> QED BY <2>2, <2>3
<1> QED BY <1>2, <1>3
    DEF ModuleStep, Flow!MainStep, Flow!CreateRx, Flow!Created, Flow!Ask, Flow!Stop, Flow!Wake, Flow!Await, Flow!DeInit, Flow!ThreadStep, Flow!Begin, Flow!ToWait, Flow!Wait,
        Flow!Test, Flow!ToRun, Flow!Leave

LEMMA ModuleKeeps == ASSUME Configured, FlowInv, ModuleStep PROVE FlowInv'
<1>1. \A q \in Queues : Adding(q)' = Adding(q)
  BY ModuleChanges DEF Adding
<1> QED BY <1>1, ModuleChanges, RoomKept

-----------------------------------------------------------------------------
(* What a step of sender s does to flowPc; it has the queue of target.          *)
LEMMA SenderMoves ==
    ASSUME Configured, FlowInv, NEW s \in Senders, NEW where, Flow!Goto(s, where)
    PROVE  /\ flowPc' = [p \in Flow!Dirs \cup Senders \cup {Flow!Main} |-> flowPc'[p]]
           /\ flowPc'[s] = where
           /\ \A other \in Senders \ {s} : flowPc'[other] = flowPc[other]
BY DEF FlowInv, Sending, Flow!Goto

LEMMA SendKeeps == ASSUME Configured, FlowInv, NEW s \in Senders, NEW q \in Queues, Flow!Send(s, q) PROVE FlowInv'
<1>1. /\ flowPc[s] = "idle" /\ target' = [target EXCEPT ![s] = q] /\ queued' = queued /\ Flow!Goto(s, "look")
  BY DEF Flow!Send
<1>2. Sending'
  BY <1>1, SenderMoves DEF FlowInv, Sending
<1>3. \A k \in Queues : Adding(k)' = Adding(k)
  BY <1>1, SenderMoves DEF FlowInv, Sending, Adding
<1>4. \A k \in Queues : queued'[k] <= queued[k]
  BY <1>1 DEF FlowInv, Sending
<1> QED BY <1>2, <1>3, <1>4, RoomKept

LEMMA SchedKeeps == ASSUME Configured, FlowInv, NEW s \in Senders, Flow!Sched(s) PROVE FlowInv'
<1>1. flowPc[s] = "sched" /\ target' = target /\ queued' = queued /\ Flow!Goto(s, "idle")
  BY DEF Flow!Sched
<1>2. Sending'
  BY <1>1, SenderMoves DEF FlowInv, Sending
<1>3. \A k \in Queues : Adding(k)' = Adding(k)
  BY <1>1, SenderMoves DEF Adding
<1>4. \A k \in Queues : queued'[k] <= queued[k]
  BY <1>1 DEF FlowInv, Sending
<1> QED BY <1>2, <1>3, <1>4, RoomKept

(* A sender that goes to add has seen no more than the threshold.           *)
LEMMA LookKeeps == ASSUME Configured, FlowInv, NEW s \in Senders, Flow!Look(s) PROVE FlowInv'
<1> DEFINE q == target[s]
<1>1. flowPc[s] = "look" /\ target' = target /\ queued' = queued /\ q \in Queues
  BY DEF Flow!Look, FlowInv, Sending
<1>2. Sending'
  BY <1>1, SenderMoves DEF Flow!Look, FlowInv, Sending
<1>3. CASE Threshold > 0 /\ Threshold < queued[q]
  <2>1. Flow!Goto(s, "drop")
    BY <1>3 DEF Flow!Look, Flow!Length
  <2>2. \A k \in Queues : Adding(k)' = Adding(k)
    BY <1>1, <2>1, SenderMoves DEF Adding
  <2>3. \A k \in Queues : queued'[k] <= queued[k]
    BY <1>1 DEF FlowInv, Sending
  <2> QED BY <1>2, <2>2, <2>3, RoomKept
<1>4. CASE ~(Threshold > 0 /\ Threshold < queued[q])
  <2>1. Flow!Goto(s, "enqueue")
    BY <1>4 DEF Flow!Look, Flow!Length
  <2>2. ASSUME Threshold > 0, NEW k \in Queues
        PROVE  queued'[k] + Cardinality(Adding(k)') <= Threshold + Cardinality(Senders)
    <3>1. CASE k = q
      <4>1. Adding(k)' \in SUBSET Senders
        BY DEF Adding
      <4> QED BY <1>1, <1>4, <2>2, <3>1, <4>1, SendersBounded DEF FlowInv, Sending, Configured
    <3>2. CASE k # q
      <4>1. Adding(k)' = Adding(k)
        BY <1>1, <2>1, <3>2, SenderMoves DEF Adding
      <4> QED BY <1>1, <2>2, <4>1 DEF FlowInv, Room
    <3> QED BY <3>1, <3>2
  <2> QED BY <1>2, <2>2 DEF FlowInv, Room
<1> QED BY <1>3, <1>4

(* One that has seen more takes a packet out for the one it adds.           *)
LEMMA DropKeeps == ASSUME Configured, FlowInv, NEW s \in Senders, Flow!Drop(s) PROVE FlowInv'
<1> DEFINE q == target[s]
<1>1. /\ flowPc[s] = "drop" /\ target' = target /\ q \in Queues /\ Flow!Goto(s, "enqueue")
      /\ queued' = [queued EXCEPT ![q] = IF queued[q] > 0 THEN queued[q] - 1 ELSE 0]
  BY DEF Flow!Drop, Flow!Resize, Flow!Length, FlowInv, Sending
<1> HIDE DEF q
<1>2. Sending'
  <2>1. queued' \in [Queues -> Nat]
    BY <1>1 DEF FlowInv, Sending
  <2> QED BY <1>1, <2>1, SenderMoves DEF FlowInv, Sending, q
<1>3. ASSUME Threshold > 0, NEW k \in Queues
      PROVE  queued'[k] + Cardinality(Adding(k)') <= Threshold + Cardinality(Senders)
  <2>1. CASE k = q
    <3>1. Adding(k)' = Adding(k) \cup {s} /\ s \notin Adding(k)
      BY <1>1, <2>1, SenderMoves DEF Adding, q
    <3>2. Cardinality(Adding(k)') = Cardinality(Adding(k)) + 1
      BY <3>1, AddingBounded, FS_AddElement
    <3>3. Adding(k)' \in SUBSET Senders
      BY DEF Adding
    <3>4. CASE queued[k] > 0
      <4>1. queued'[k] = queued[k] - 1
        BY <1>1, <2>1, <3>4 DEF FlowInv, Sending
      <4> QED BY <1>3, <3>2, <4>1, AddingBounded DEF FlowInv, Room, Sending, Configured
    <3>5. CASE queued[k] = 0
      <4>1. queued'[k] = 0
        BY <1>1, <2>1, <3>5 DEF FlowInv, Sending
      <4> QED BY <3>3, <4>1, SendersBounded DEF Configured
    <3> QED BY <3>4, <3>5 DEF FlowInv, Sending
  <2>2. CASE k # q
    <3>1. Adding(k)' = Adding(k)
      BY <1>1, <2>2, SenderMoves DEF Adding, q
    <3> QED BY <1>1, <1>3, <2>2, <3>1 DEF FlowInv, Room, Sending
  <2> QED BY <2>1, <2>2
<1> QED BY <1>2, <1>3 DEF FlowInv, Room

LEMMA EnqueueKeeps == ASSUME Configured, FlowInv, NEW s \in Senders, Flow!Enqueue(s) PROVE FlowInv'
<1> DEFINE q == target[s]
<1>1. /\ flowPc[s] = "enqueue" /\ target' = target /\ q \in Queues /\ Flow!Goto(s, "sched")
      /\ queued' = [queued EXCEPT ![q] = queued[q] + 1]
  BY DEF Flow!Enqueue, Flow!Resize, Flow!Length, FlowInv, Sending
<1> HIDE DEF q
<1>2. Sending'
  <2>1. queued' \in [Queues -> Nat]
    BY <1>1 DEF FlowInv, Sending
  <2> QED BY <1>1, <2>1, SenderMoves DEF FlowInv, Sending, q
<1>3. ASSUME Threshold > 0, NEW k \in Queues
      PROVE  queued'[k] + Cardinality(Adding(k)') <= Threshold + Cardinality(Senders)
  <2>1. CASE k = q
    <3>1. Adding(k)' = Adding(k) \ {s} /\ s \in Adding(k)
      BY <1>1, <2>1, SenderMoves DEF Adding, q
    <3>2. Cardinality(Adding(k)') = Cardinality(Adding(k)) - 1
      BY <3>1, AddingBounded, FS_RemoveElement
    <3>3. queued'[k] = queued[k] + 1
      BY <1>1, <2>1 DEF FlowInv, Sending
    <3> QED BY <1>3, <3>2, <3>3, AddingBounded DEF FlowInv, Room, Sending, Configured
  <2>2. CASE k # q
    <3>1. Adding(k)' = Adding(k)
      BY <1>1, <2>2, SenderMoves DEF Adding, q
    <3> QED BY <1>1, <1>3, <2>2, <3>1 DEF FlowInv, Room, Sending
  <2> QED BY <2>1, <2>2
<1> QED BY <1>2, <1>3 DEF FlowInv, Room

-----------------------------------------------------------------------------
(* A queue never exceeds its threshold by more than one packet of each      *)
(* sender, although a sender looks at the length (flow_control.c:219) and   *)
(* adds its packet later (flow_control.c:249) with nothing locked between.  *)
THEOREM ThresholdKept == ASSUME Configured PROVE Flow!Spec => []QueueBounded
<1>1. Flow!Init => FlowInv
  BY FlowInit
<1>2. ASSUME FlowInv, [Flow!Next]_Flow!vars
      PROVE  FlowInv'
  <2>1. CASE UNCHANGED Flow!vars
    BY <1>2, <2>1 DEF FlowInv, Flow!vars, Sending, Room, Adding
  <2>2. CASE ModuleStep
    BY <1>2, <2>2, ModuleKeeps
  <2>3. ASSUME NEW s \in Senders, Flow!SendStep(s)
        PROVE  FlowInv'
    BY <1>2, <2>3, LookKeeps, DropKeeps, EnqueueKeeps, SchedKeeps DEF Flow!SendStep
  <2>4. ASSUME NEW s \in Senders, NEW q \in Queues, Flow!Send(s, q)
        PROVE  FlowInv'
    BY <1>2, <2>4, SendKeeps
  <2> QED BY <1>2, <2>1, <2>2, <2>3, <2>4 DEF Flow!Next, ModuleStep
<1>3. FlowInv => QueueBounded
  <2>1. Flow!Cardinality(Senders) = Cardinality(Senders)
    BY DEF Flow!Cardinality, Cardinality
  <2> QED BY <2>1, AddingBounded DEF FlowInv, Room, QueueBounded, Flow!QueueBounded, Sending, Configured
<1> QED BY <1>1, <1>2, <1>3, PTL DEF Flow!Spec

=============================================================================
