----------------------------- MODULE Lifecycle -----------------------------
(***************************************************************************)
(* The privacy services (lifecycle.py, Lifecycle.qml, Indicator.qml): a    *)
(* monitor that the Omarchy shell keeps running polls the screen lock, the *)
(* login session and the bar indicator, reads logind's signals from        *)
(* dbus-monitor, and stops the Session at each privacy boundary. Start     *)
(* asks for a fresh heartbeat of both services.                            *)
(*                                                                         *)
(* The Session is the one of module Session, seen from outside: not there, *)
(* being started under the session lock, or active.                        *)
(***************************************************************************)
EXTENDS Naturals, Sequences

CONSTANTS
  MaxSessions, \* bound on the Sessions started
  MaxLines,    \* bound on the lines dbus-monitor has ahead of the monitor
  MaxFaults,   \* bound on what happens from outside, other than the screen lock
  DelayPolls   \* the polls logind's delay lock leaves the monitor before a suspend

ASSUME LifecycleAssumption ==
  MaxSessions \in Nat /\ MaxLines \in Nat /\ MaxFaults \in Nat /\ DelayPolls \in Nat

VARIABLES
  power,    \* the computer is on, preparing to sleep, or asleep
  waited,   \* the monitor's polls since it is preparing
  locked,   \* the screen
  readable, \* whether the shell answers if it is
  closing,  \* the login session
  shell,    \* the Omarchy shell is up
  lockBehavior, \* the setting, or that the configuration cannot be loaded
  monitor,  \* where run_lifecycle_monitor is
  running,  \* its variables: running, pending_member, lock_observation_failures
  pending, failures,
  hears,    \* dbus-monitor is running
  pipe,     \* lines it wrote that the monitor has not taken
  buffer,   \* lines the monitor's reader took and not returned yet
  faults,   \* how much has happened from outside
  handling, \* handle_lifecycle_event: the event, and the status it read
  beats,    \* the heartbeat files
  starting, \* the kind of Session start_session is preparing, under the lock
  session,  \* the latest Session
  suspended \* history: the Session that was active when the monitor was to
            \* be told of a suspend, or 0

computer == <<power, waited, locked, readable, closing, shell, lockBehavior, faults>>
loop     == <<running, pending, failures>>
bus      == <<hears, pipe, buffer>>
sessions == <<starting, session, suspended>>
vars     == <<computer, monitor, loop, bus, handling, beats, sessions>>

Kinds   == {"playback", "capture"}
Session == [id : 0 .. MaxSessions, kind : Kinds \cup {"none"}]
Lines   == {"PrepareForSleep", "PrepareForShutdown", "boolean-true", "boolean-false", "other"}
Beats   == {"absent", "fresh", "stale"}
Stops   == {"suspend", "logout", "privacy-monitor-failure"}

ComputerOK ==
  /\ power \in {"on", "preparing", "asleep"} /\ waited \in 0 .. DelayPolls
  /\ {locked, readable, closing, shell} \subseteq BOOLEAN
  /\ lockBehavior \in {"stop-all", "continue-playback", "unloadable"} /\ faults \in 0 .. MaxFaults
LoopOK ==
  /\ monitor \in {"down", "died", "select", "observe", "closing", "indicator", "end"}
  /\ running \in BOOLEAN /\ pending \in {"none", "sleep", "shutdown"} /\ failures \in 0 .. 3
BusOK == hears \in BOOLEAN /\ pipe \in Seq(Lines) /\ buffer \in Seq(Lines)
HandlerOK ==
  /\ handling \in [event : Stops \cup {"lock", "none"}, step : {"read", "act", "done"},
                  saw : Session]
  /\ beats \in [monitor : Beats, indicator : Beats]
SessionsOK ==
  starting \in Kinds \cup {"none"} /\ session \in Session /\ suspended \in 0 .. MaxSessions

TypeOK == ComputerOK /\ LoopOK /\ BusOK /\ HandlerOK /\ SessionsOK

NoSession == [id |-> 0, kind |-> "none"]
Nothing   == [event |-> "none", step |-> "done", saw |-> NoSession]

Init ==
  /\ power = "on" /\ waited = 0 /\ locked = FALSE /\ readable = TRUE /\ closing = FALSE
  /\ shell = TRUE /\ lockBehavior \in {"stop-all", "continue-playback"}
  /\ monitor = "down" /\ running = FALSE /\ pending = "none" /\ failures = 0 /\ faults = 0
  /\ hears = FALSE /\ pipe = <<>> /\ buffer = <<>>
  /\ handling = Nothing
  /\ beats = [monitor |-> "absent", indicator |-> "fresh"]
  /\ starting = "none" /\ session = NoSession /\ suspended = 0

Awake  == power # "asleep"
Fault  == Awake /\ faults < MaxFaults /\ faults' = faults + 1
Active == session.kind # "none"

\* The monitor runs: it has neither ended nor died of a signal or an exception.
Up == monitor \notin {"down", "died"}

-----------------------------------------------------------------------------
(* handle_lifecycle_event                                                  *)

\* The monitor waits for the handler before it goes on.
Idle == handling.step = "done"

Handle(event) == handling' = [event |-> event, step |-> "read", saw |-> NoSession]

\* The status is read without the session lock.
ReadStatus ==
  /\ handling.step = "read"
  /\ handling' = [handling EXCEPT !.step = "act", !.saw = session]
  /\ UNCHANGED <<computer, monitor, loop, bus, beats, sessions>>

\* Mutant: the lock policy is asked before the kind of the Session.
PolicyFirst(event, saw) ==
  /\ saw.kind # "none"
  /\ event = "lock" => lockBehavior = "stop-all"

\* load_config raises for text that is not UTF-8 and for a saved Connection that
\* does not normalize.
Loadable == lockBehavior # "unloadable"

\* A lock loads the configuration before it asks about the Session's kind.
Raises(event, saw) == event = "lock" /\ saw.kind # "none" /\ ~Loadable

\* A lock leaves a Session alone that has no Capture Source, if the user said
\* so; every other boundary ends any Session.
MustStop(event, saw) ==
  /\ saw.kind # "none"
  /\ event = "lock" => saw.kind = "capture" \/ lockBehavior = "stop-all"

Done ==
  /\ handling' = [handling EXCEPT !.step = "done"]
  /\ UNCHANGED <<monitor, running, bus, beats>>

\* An exception ends the monitor; its heartbeat is removed.
Raise ==
  /\ monitor' = "died" /\ running' = FALSE /\ handling' = Nothing
  /\ beats' = [beats EXCEPT !.monitor = "absent"]
  /\ hears' = FALSE /\ pipe' = <<>> /\ buffer' = <<>>

\* stop_session waits for the session lock, stops the Session there is by then,
\* and loads the configuration before it writes that it is stopped.
StopSession ==
  /\ starting = "none"
  /\ session' = [session EXCEPT !.kind = "none"]
  /\ IF Loadable THEN Done ELSE Raise

Act ==
  /\ handling.step = "act"
  /\ \/ Raises(handling.event, handling.saw) /\ Raise /\ UNCHANGED session
     \/ /\ ~Raises(handling.event, handling.saw)
        /\ \/ MustStop(handling.event, handling.saw) /\ StopSession
           \/ ~MustStop(handling.event, handling.saw) /\ Done /\ UNCHANGED session
  /\ UNCHANGED <<computer, pending, failures, starting, suspended>>

HandleEvent == Awake /\ Up /\ (ReadStatus \/ Act)

-----------------------------------------------------------------------------
(* run_lifecycle_monitor                                                   *)

\* Mutant: the service is not restarted under a locked screen.
StartUnlocked ==
  /\ shell /\ power = "on" /\ ~closing /\ ~locked
  /\ ~Up /\ monitor' = "select"
  /\ running' = TRUE /\ pending' = "none" /\ failures' = 0
  /\ hears' = TRUE /\ buffer' = <<>> /\ pipe' = <<>>
  /\ UNCHANGED <<computer, handling, beats, sessions>>

\* The shell starts the monitor under systemd-inhibit, which is refused while
\* the computer prepares to sleep; dbus-monitor may greet it with signals.
StartMonitor ==
  /\ shell /\ power = "on" /\ ~closing
  /\ ~Up /\ monitor' = "select"
  /\ running' = TRUE /\ pending' = "none" /\ failures' = 0
  /\ hears' = TRUE /\ buffer' = <<>>
  /\ pipe' \in {<<>>, <<"other">>}
  /\ UNCHANGED <<computer, handling, beats, sessions>>

\* What one line makes the monitor do.
TakeLine(line) ==
  \/ /\ line \in {"PrepareForSleep", "PrepareForShutdown"}
     /\ pending' = IF line = "PrepareForSleep" THEN "sleep" ELSE "shutdown"
     /\ UNCHANGED <<handling, running>>
  \/ /\ line \in {"boolean-true", "boolean-false"} /\ pending # "none"
     /\ pending' = "none"
     /\ IF line = "boolean-true"
        THEN Handle(IF pending = "sleep" THEN "suspend" ELSE "logout") /\ running' = FALSE
        ELSE UNCHANGED <<handling, running>>
  \/ /\ line = "other" \/ (line \in {"boolean-true", "boolean-false"} /\ pending = "none")
     /\ UNCHANGED <<pending, handling, running>>

\* selector.select looks at the pipe, readline at the lines its reader took
\* from it before, which may be several at a time: one line is handled per
\* poll in which the pipe has something new, or is closed.
Select ==
  /\ monitor = "select" /\ monitor' = "observe"
  /\ beats' = [beats EXCEPT !.monitor = "fresh"]
  /\ \/ /\ pipe = <<>> /\ (hears \/ buffer = <<>>)
        /\ UNCHANGED <<pipe, buffer, pending, handling, running>>
     \/ /\ pipe # <<>> \/ ~hears
        /\ buffer # <<>>
        /\ TakeLine(Head(buffer)) /\ buffer' = Tail(buffer)
        /\ UNCHANGED pipe
     \/ /\ pipe # <<>> /\ buffer = <<>>
        /\ \E n \in 1 .. Len(pipe) :
             /\ TakeLine(Head(pipe))
             /\ buffer' = SubSeq(pipe, 2, n) /\ pipe' = SubSeq(pipe, n + 1, Len(pipe))
  /\ UNCHANGED <<computer, failures, hears, sessions>>

\* Mutant: a failed observation counts as unlocked.
ObserveOptimist ==
  /\ monitor = "observe" /\ monitor' = "closing"
  /\ IF readable /\ locked THEN Handle("lock") ELSE UNCHANGED handling
  /\ UNCHANGED <<computer, loop, bus, beats, sessions>>

\* Mutant: the monitor goes on after the third failure.
ObserveOn ==
  /\ monitor = "observe" /\ monitor' = "closing"
  /\ \/ /\ readable /\ failures' = 0
        /\ IF locked THEN Handle("lock") ELSE UNCHANGED handling
     \/ /\ ~readable /\ failures' = failures + 1
        /\ IF failures' >= 3 THEN Handle("privacy-monitor-failure") ELSE UNCHANGED handling
  /\ UNCHANGED <<computer, running, pending, bus, beats, sessions>>

\* _screen_locked: a lock is handled in every poll, the third failure in a row
\* to read it ends the Session and the monitor. ("unlock" does nothing.)
Observe ==
  /\ monitor = "observe" /\ monitor' = "closing"
  /\ \/ /\ readable /\ failures' = 0
        /\ IF locked THEN Handle("lock") ELSE UNCHANGED handling
        /\ UNCHANGED running
     \/ /\ ~readable /\ failures' = failures + 1
        /\ IF failures' >= 3 THEN Handle("privacy-monitor-failure") /\ running' = FALSE
           ELSE UNCHANGED <<handling, running>>
  /\ UNCHANGED <<computer, pending, bus, beats, sessions>>

\* _session_closing
CheckClosing ==
  /\ monitor = "closing" /\ monitor' = "indicator"
  /\ IF closing THEN Handle("logout") /\ running' = FALSE ELSE UNCHANGED <<handling, running>>
  /\ UNCHANGED <<computer, pending, failures, bus, beats, sessions>>

\* Mutant: without the indicator the monitor ends and leaves the Session.
LeaveHidden ==
  /\ monitor = "indicator" /\ monitor' = "end"
  /\ IF Active /\ beats.indicator # "fresh" THEN running' = FALSE ELSE UNCHANGED running
  /\ UNCHANGED <<computer, pending, failures, bus, handling, beats, sessions>>

CheckIndicator ==
  /\ monitor = "indicator" /\ monitor' = "end"
  /\ IF Active /\ beats.indicator # "fresh"
     THEN Handle("privacy-monitor-failure") /\ running' = FALSE
     ELSE UNCHANGED <<handling, running>>
  /\ UNCHANGED <<computer, pending, failures, bus, beats, sessions>>

\* The next poll, or the end: the heartbeat is removed and the inhibitor let go.
EndPoll ==
  /\ monitor = "end" /\ handling' = Nothing
  /\ \/ /\ running /\ monitor' = "select"
        /\ beats' = [beats EXCEPT !.monitor = "fresh"]
        /\ waited' = IF power = "preparing" /\ waited < DelayPolls THEN waited + 1 ELSE waited
        /\ UNCHANGED bus
     \/ /\ ~running /\ monitor' = "down"
        /\ beats' = [beats EXCEPT !.monitor = "absent"]
        /\ hears' = FALSE /\ pipe' = <<>> /\ buffer' = <<>>
        /\ UNCHANGED waited
  /\ UNCHANGED <<power, locked, readable, closing, shell, lockBehavior, faults, loop, sessions>>

Poll ==
  /\ Awake /\ Idle
  /\ Select \/ Observe \/ CheckClosing \/ CheckIndicator \/ EndPoll

\* SIGTERM is noticed at the end of the poll; SIGKILL leaves the heartbeat.
Terminate ==
  /\ Fault /\ Up /\ running /\ running' = FALSE
  /\ UNCHANGED <<power, waited, locked, readable, closing, shell, lockBehavior,
                 monitor, pending, failures, bus, handling, beats, sessions>>

Kill ==
  /\ Fault /\ Up /\ monitor' = "died"
  /\ running' = FALSE /\ handling' = Nothing
  /\ hears' = FALSE /\ pipe' = <<>> /\ buffer' = <<>>
  /\ UNCHANGED <<power, waited, locked, readable, closing, shell, lockBehavior,
                 pending, failures, beats, sessions>>

-----------------------------------------------------------------------------
(* start_session, as far as the boundaries concern it                      *)

\* require_lifecycle_monitor, under the session lock, once nothing is active;
\* the request has loaded the configuration before
BeginStart(kind) ==
  /\ Awake /\ Loadable /\ starting = "none" /\ ~Active /\ session.id < MaxSessions
  /\ beats.monitor = "fresh" /\ beats.indicator = "fresh"
  /\ starting' = kind
  /\ UNCHANGED <<computer, monitor, loop, bus, handling, beats, session, suspended>>

\* The preflight takes seconds; then the worker is there, or it is not.
EndStart ==
  /\ Awake /\ starting # "none" /\ starting' = "none"
  /\ session' \in {session, [id |-> session.id + 1, kind |-> starting]}
  /\ UNCHANGED <<computer, monitor, loop, bus, handling, beats, suspended>>

\* The user ends it, or the worker ends by itself.
SessionEnds ==
  /\ Awake /\ starting = "none" /\ Active
  /\ session' = [session EXCEPT !.kind = "none"]
  /\ UNCHANGED <<computer, monitor, loop, bus, handling, beats, starting, suspended>>

-----------------------------------------------------------------------------
(* The computer, the shell and logind                                      *)

\* dbus-monitor writes a signal's lines, or there is nobody to write to.
Signal(lines) == pipe' = IF hears THEN pipe \o lines ELSE pipe

\* The screen may be locked, and unlocked, at any time.
LockScreen ==
  /\ Awake /\ locked' = ~locked
  /\ UNCHANGED <<power, waited, readable, closing, shell, lockBehavior, faults, monitor, loop, bus,
                 handling, beats, sessions>>

Blind ==
  /\ Fault /\ readable' = ~readable
  /\ UNCHANGED <<power, waited, locked, closing, shell, lockBehavior, monitor, loop, bus,
                 handling, beats, sessions>>

\* config.json is replaced by what load_config does not take.
BreakConfig ==
  /\ Fault /\ Loadable /\ lockBehavior' = "unloadable"
  /\ UNCHANGED <<power, waited, locked, readable, closing, shell, monitor, loop, bus,
                 handling, beats, sessions>>

Prepare ==
  /\ Fault /\ power = "on" /\ Len(pipe) + 2 <= MaxLines
  /\ power' = "preparing" /\ waited' = 0
  /\ Signal(<<"PrepareForSleep", "boolean-true">>)
  /\ suspended' = IF hears /\ running /\ Active THEN session.id ELSE 0
  /\ UNCHANGED <<locked, readable, closing, shell, lockBehavior, monitor, loop, hears, buffer,
                 handling, beats, starting, session>>

\* logind waits for the inhibitor, but not longer than InhibitDelayMaxSec.
Sleep ==
  /\ power = "preparing" /\ (~Up \/ waited = DelayPolls)
  /\ power' = "asleep"
  /\ UNCHANGED <<waited, locked, readable, closing, shell, lockBehavior, faults, monitor, loop, bus,
                 handling, beats, sessions>>

Wake ==
  /\ power = "asleep" /\ power' = "on" /\ waited' = 0
  /\ Signal(<<"PrepareForSleep", "boolean-false">>)
  /\ beats' = [b \in {"monitor", "indicator"} |-> IF beats[b] = "fresh" THEN "stale" ELSE beats[b]]
  /\ suspended' = 0
  /\ UNCHANGED <<locked, readable, closing, shell, lockBehavior, faults, monitor, loop, hears, buffer,
                 handling, starting, session>>

Chatter ==
  /\ Fault /\ hears /\ Len(pipe) < MaxLines
  /\ Signal(<<"other">>)
  /\ UNCHANGED <<power, waited, locked, readable, closing, shell, lockBehavior,
                 monitor, loop, hears, buffer, handling, beats, sessions>>

BusEnds ==
  /\ Fault /\ hears /\ hears' = FALSE
  /\ UNCHANGED <<power, waited, locked, readable, closing, shell, lockBehavior,
                 monitor, loop, pipe, buffer, handling, beats, sessions>>

\* A login session closes at logout, and at shutdown, which logind announces.
Close ==
  /\ Fault /\ ~closing /\ closing' = TRUE
  /\ \/ Len(pipe) + 2 <= MaxLines /\ Signal(<<"PrepareForShutdown", "boolean-true">>)
     \/ UNCHANGED pipe
  /\ UNCHANGED <<power, waited, locked, readable, shell, lockBehavior, monitor, loop, hears,
                 buffer, handling, beats, sessions>>

\* Without the shell nobody restarts the monitor or writes the indicator's beat.
ShellChanges ==
  /\ Fault /\ shell' = ~shell
  /\ UNCHANGED <<power, waited, locked, readable, closing, lockBehavior, monitor, loop, bus,
                 handling, beats, sessions>>

\* The bar asks for the indicator's status each second, which loads the
\* configuration before the beat is written.
IndicatorBeat ==
  /\ Awake /\ shell /\ Loadable /\ beats.indicator # "fresh"
  /\ beats' = [beats EXCEPT !.indicator = "fresh"]
  /\ UNCHANGED <<computer, monitor, loop, bus, handling, sessions>>

\* A heartbeat is stale ten seconds after its writer stopped writing it: it is
\* gone, or waits in stop_session.
BeatAges ==
  /\ \/ /\ ~shell \/ ~Loadable
        /\ beats.indicator = "fresh"
        /\ beats' = [beats EXCEPT !.indicator = "stale"]
     \/ /\ ~Up \/ ~Idle
        /\ beats.monitor = "fresh" /\ beats' = [beats EXCEPT !.monitor = "stale"]
  /\ UNCHANGED <<computer, monitor, loop, bus, handling, sessions>>

Outside ==
  \/ LockScreen \/ Blind \/ BreakConfig \/ Prepare \/ Sleep \/ Wake \/ Chatter \/ BusEnds \/ Close
  \/ ShellChanges \/ IndicatorBeat \/ BeatAges \/ Terminate \/ Kill

Next ==
  \/ StartMonitor \/ HandleEvent \/ Poll
  \/ (\E kind \in Kinds : BeginStart(kind)) \/ EndStart \/ SessionEnds
  \/ Outside

Spec == Init /\ [][Next]_vars

\* The shell's timers go on, programs run to their end, start_session's waits
\* are bounded, and a computer that sleeps is woken.
FairSpec ==
  /\ Spec
  /\ WF_vars(StartMonitor) /\ WF_vars(HandleEvent) /\ WF_vars(Poll)
  /\ WF_vars(EndStart) /\ WF_vars(Sleep) /\ WF_vars(Wake)
=============================================================================
