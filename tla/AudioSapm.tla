------------------------------ MODULE AudioSapm ------------------------------
(***************************************************************************)
(* The power of an audio card's components (model/audio/sapm): components   *)
(* and the paths between them make a graph, some paths have a switch that   *)
(* the user sets, and a component needs power when it lies on a connected   *)
(* path from an input to an output.  Setting a switch visits only those     *)
(* components whose power may change.  A timer puts the card to sleep when   *)
(* no stream has run for some time.                                         *)
(***************************************************************************)
EXTENDS Integers, FiniteSets, FiniteSetsExt

CONSTANTS
    Components,  \* of a card
    Registered,  \* those whose power is a bit of a register (reg >= 0)
    Paths,       \* records of source, sink and the switch, None if it has none
    InputEnds,   \* components of a type that is a source of sound: DAC, MIC...
    OutputEnds,  \* and of one that sound leaves by: ADC, SPK...
    Clocked,     \* DACs, ADCs and interfaces, which have a PowerClockOp
    Inverted,    \* switches that connect when their bit is 0
    Streams,     \* render and capture
    Alone,       \* TRUE: one stream is used at a time
    None

Switches == {p.switch : p \in Paths} \ {None}

VARIABLES
    bit,       \* the register of each switch
    connect,   \* whether the path of each switch is connected
    power,     \* whether each component is powered
    card,      \* asleep, standby, monitor (sapmMonitorState) and standbyMode
    overdue,   \* more than SAPM_SLEEP_TIME since the last refresh
    stream,    \* what each stream does
    forced     \* the last change of all components at once: none, up or down

vars == <<bit, connect, power, card, overdue, stream, forced>>

-----------------------------------------------------------------------------
Connected(p, on) == p.switch = None \/ on[p.switch]
Sources(c, on) == {p.source : p \in {q \in Paths : q.sink = c /\ Connected(q, on)}}
Sinks(c, on)   == {p.sink : p \in {q \in Paths : q.source = c /\ Connected(q, on)}}

\* ConnectedInputEndPoint and ConnectedOutputEndPoint, which count paths.
Inputs(on) ==
    LET count[c \in Components] ==
            IF c \in InputEnds THEN 1
            ELSE MapThenSumSet(LAMBDA p : count[p.source],
                               {q \in Paths : q.sink = c /\ Connected(q, on)})
    IN  count

Outputs(on) ==
    LET count[c \in Components] ==
            IF c \in OutputEnds THEN 1
            ELSE MapThenSumSet(LAMBDA p : count[p.sink],
                               {q \in Paths : q.source = c /\ Connected(q, on)})
    IN  count

\* AudioSapmGenericCheckPower; no component is ever active, so the checks of
\* DACs and ADCs come to this as well.
CheckPower(on) ==
    LET in == Inputs(on)  out == Outputs(on)
    IN  [c \in Components |-> in[c] # 0 /\ out[c] # 0]

\* Mutant of Spread: neighbours upstream are not visited.
SpreadDown(c, on, check) ==
    IF check[c] = power[c] THEN {}
    ELSE {n \in Sinks(c, on) : power[n] # check[c]}

\* AudioSapmSetPower: the neighbours to visit when the power of c changes.
Spread(c, on, check) ==
    IF check[c] = power[c] THEN {}
    ELSE {n \in Sources(c, on) \cup Sinks(c, on) : power[n] # check[c]}

\* AudioSapmPowerUpSeqRun and DownSeqRun pass over a component without register.
RunSequence(to) == [c \in Components |-> IF c \in Registered THEN to[c] ELSE power[c]]

\* AudioSapmPowerComponents: the dirty list grows while it is walked; then
\* those on it that must change are powered down and up.
PowerComponents(dirty, on) ==
    LET check == CheckPower(on)
        visited[i \in 0..Cardinality(Components)] ==
            IF i = 0 THEN dirty
            ELSE LET before == visited[i - 1]
                 IN  before \cup UNION {Spread(c, on, check) : c \in before}
    IN  RunSequence([c \in Components |->
            IF c \in visited[Cardinality(Components)] THEN check[c] ELSE power[c]])

\* MixerSetPathStatus.
PathStatus(s, b) == (b = 1) # (s \in Inverted)

\* AudioSapmNewControls has read the registers and visited every component; one
\* without a register stays without power.
Init ==
    /\ bit \in [Switches -> {0, 1}]
    /\ connect = [s \in Switches |-> PathStatus(s, bit[s])]
    /\ power = [c \in Components |-> c \in Registered /\ CheckPower(connect)[c]]
    /\ card = [asleep |-> FALSE, standby |-> FALSE, monitor |-> FALSE, mode |-> "LATER"]
    /\ overdue = FALSE
    /\ stream = [x \in Streams |-> "stopped"]
    /\ forced = "none"

-----------------------------------------------------------------------------
\* AudioSapmSetCtrlOps, and the test whether the register has the value yet.
Asked(s, v)   == IF s \in Inverted THEN 1 - v ELSE v
MustSet(s, v) == bit[s] # Asked(s, v) \/ card.asleep

(* AudioCodecSapmSetCtrlOps and MixerUpdatePowerStatus: the value asked,    *)
(* inverted, is compared with the register, and then written as it was.     *)
SetSwitch(s, v) ==
    LET on   == [connect EXCEPT ![s] = Asked(s, v) = 1]
        path == CHOOSE p \in Paths : p.switch = s
    IN  /\ MustSet(s, v)
        /\ connect' = on
        /\ power' = PowerComponents({path.source, path.sink}, on)
        /\ bit' = [bit EXCEPT ![s] = v]
        /\ UNCHANGED <<card, overdue, stream, forced>>

\* AudioSapmRefreshTime(true) on the card c.
Refreshed(c) == [c EXCEPT !.asleep = FALSE, !.standby = FALSE]

\* AudioSampSetPowerMonitor.
SetMonitor(c, monitor) ==
    /\ card' = [Refreshed(c) EXCEPT !.monitor = monitor]
    /\ overdue' = FALSE

Becomes(x, status) == stream' = [stream EXCEPT ![x] = status]
Usable(x) == Alone => \A y \in Streams \ {x} : stream[y] = "stopped"

\* Mutant of Start: the monitor is left as it was.
StartMonitored(x) ==
    /\ Usable(x) /\ stream[x] = "stopped"
    /\ SetMonitor([card EXCEPT !.mode = "LATER"], card.monitor)
    /\ Becomes(x, "running")
    /\ UNCHANGED <<bit, connect, power, forced>>

\* StreamHostRenderStart and CaptureStart, as far as AudioPcmPending.
Start(x) ==
    /\ Usable(x) /\ stream[x] = "stopped"
    /\ SetMonitor([card EXCEPT !.mode = "LATER"], FALSE)
    /\ Becomes(x, "running")
    /\ UNCHANGED <<bit, connect, power, forced>>

\* AudioPcmPause: a pause, or a stop that names the standby mode.
Pause(x) ==
    /\ stream[x] = "running"
    /\ SetMonitor(card, TRUE)
    /\ Becomes(x, "paused")
    /\ UNCHANGED <<bit, connect, power, forced>>

Stop(x, mode) ==
    /\ stream[x] # "stopped"
    /\ SetMonitor([card EXCEPT !.mode = mode], TRUE)
    /\ Becomes(x, "stopped")
    /\ UNCHANGED <<bit, connect, power, forced>>

\* AudioPcmResume; AudioSampPowerUp powers everything that has a register.
Resume(x) ==
    /\ stream[x] = "paused"
    /\ power' = RunSequence([c \in Components |-> TRUE])
    /\ forced' = "up"
    /\ SetMonitor(card, FALSE)
    /\ Becomes(x, "running")
    /\ UNCHANGED <<bit, connect>>

-----------------------------------------------------------------------------
TimePasses ==
    /\ ~overdue /\ overdue' = TRUE
    /\ UNCHANGED <<bit, connect, power, card, stream, forced>>

\* AudioSapmCheckTime, which the mode NOW spares the card once.
MayStandBy == card.mode = "NOW" \/ overdue

\* Mutant of StandBy: the refresh comes last and clears the flag again.
StandByRefreshed ==
    /\ ~card.asleep /\ card.monitor /\ MayStandBy
    /\ ~card.standby /\ Clocked # {}
    /\ card' = Refreshed(card)
    /\ overdue' = FALSE
    /\ UNCHANGED <<bit, connect, power, stream, forced>>

\* AudioSapmEnterSleep: the clocks first, which refreshes the time.
StandBy ==
    /\ ~card.asleep /\ card.monitor /\ MayStandBy
    /\ ~card.standby /\ Clocked # {}
    /\ card' = [Refreshed(card) EXCEPT !.standby = TRUE]
    /\ overdue' = FALSE
    /\ UNCHANGED <<bit, connect, power, stream, forced>>

\* Another such time later, or at once without clocks: all that has power loses it.
Sleep ==
    /\ ~card.asleep /\ card.monitor /\ overdue
    /\ card.standby \/ Clocked = {}
    /\ card' = [card EXCEPT !.standby = FALSE, !.asleep = TRUE]
    /\ power' = RunSequence([c \in Components |-> FALSE])
    /\ forced' = "down"
    /\ UNCHANGED <<bit, connect, overdue, stream>>

SapmStep == StandBy \/ Sleep \/ TimePasses

Next ==
    \/ \E s \in Switches, v \in {0, 1} : SetSwitch(s, v)
    \/ \E x \in Streams :
          \/ Start(x) \/ Pause(x) \/ Resume(x)
          \/ \E mode \in {"LATER", "NOW"} : Stop(x, mode)
    \/ SapmStep

Spec == Init /\ [][Next]_vars

\* The timer is a loop, and time passes.
FairSpec == Spec /\ WF_vars(SapmStep)

-----------------------------------------------------------------------------
TypeOK ==
    /\ bit \in [Switches -> {0, 1}] /\ connect \in [Switches -> BOOLEAN]
    /\ power \in [Components -> BOOLEAN]
    /\ card \in [asleep : BOOLEAN, standby : BOOLEAN, monitor : BOOLEAN, mode : {"LATER", "NOW"}]
    /\ overdue \in BOOLEAN
    /\ stream \in [Streams -> {"stopped", "running", "paused"}]
    /\ forced \in {"none", "up", "down"}

\* c with all that a connected path leads to from it.
Reached(c) ==
    LET reach[i \in 0..Cardinality(Components)] ==
            IF i = 0 THEN {c}
            ELSE LET before == reach[i - 1]
                 IN  before \cup UNION {Sinks(d, connect) : d \in before}
    IN  reach[Cardinality(Components)]

OnPath(c) ==
    /\ \E i \in InputEnds : c \in Reached(i)
    /\ Reached(c) \cap OutputEnds # {}

(* A component without a register has no power of its own to compare with:  *)
(* the visits stop there when what lies around it must lose power.  No harm  *)
(* is done where the paths end.                                             *)
RegisterlessAtEnds ==
    \A c \in Components \ Registered :
        (\A p \in Paths : p.sink # c) \/ (\A p \in Paths : p.source # c)

(* However often switches are set, and although a switch visits only what   *)
(* it may change, a component with a register has power exactly if it is on *)
(* a connected path from an input to an output.  Only a resumed stream      *)
(* gives power to others too, and only a card that sleeps takes it from     *)
(* these.  This needs RegisterlessAtEnds.                                   *)
PowerFollowsPaths ==
    \A c \in Registered :
        /\ power[c] /\ forced # "up" => OnPath(c)
        /\ OnPath(c) /\ forced # "down" => power[c]

(* The card does not go to sleep under a running stream, as long as render  *)
(* and capture, which share sapmMonitorState, are not used together.        *)
NoSleepUnderStream ==
    [][~card.asleep /\ card'.asleep => \A x \in Streams : stream[x] # "running"]_vars

(* A card that is monitored, with no stream running, falls asleep.          *)
FallsAsleep == card.monitor ~> card.asleep \/ ~card.monitor

(* A switch that does not stand as it is asked is set.                      *)
SwitchCanChange == \A s \in Switches, v \in {0, 1} : bit[s] # v => MustSet(s, v)
=============================================================================
