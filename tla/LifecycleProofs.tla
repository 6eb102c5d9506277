-------------------------- MODULE LifecycleProofs --------------------------
(***************************************************************************)
(* Proofs about the lifecycle monitor: its variables keep their types, and *)
(* no Session outlives a boundary that was handled, for any number of      *)
(* Sessions, signals, faults and polls.                                    *)
(***************************************************************************)
EXTENDS LifecycleProperties, SequenceTheorems, TLAPS

USE LifecycleAssumption DEF computer, loop, bus, sessions, Fault, Up

\* The monitor gives up with the third failed observation, and a Start goes on
\* only while there is room for its Session.
Bounded ==
  /\ Up /\ failures = 3 => ~running /\ monitor \in {"closing", "indicator", "end"}
  /\ starting # "none" => session.id < MaxSessions

\* What the handler read is what there was: the same Session, or one that has
\* ended since.
Read ==
  /\ session.id = 0 => session.kind = "none"
  /\ handling.step # "read" =>
       /\ handling.saw.id <= session.id
       /\ session.id = handling.saw.id => session.kind \in {handling.saw.kind, "none"}

LInv == TypeOK /\ Bounded /\ Read /\ Boundary

\* The monitor has not begun and no Session has.
LEMMA InitLInv == Init => LInv
<1> SUFFICES ASSUME Init PROVE LInv OBVIOUS
<1>1. ComputerOK /\ LoopOK
  <2>1. {locked, readable, closing, shell} \subseteq BOOLEAN /\ running \in BOOLEAN
    BY Zenon DEF Init
  <2>2. /\ power \in {"on", "preparing", "asleep"} /\ waited \in 0 .. DelayPolls
        /\ lockBehavior \in {"stop-all", "continue-playback"} /\ faults \in 0 .. MaxFaults
        /\ monitor = "down" /\ pending = "none" /\ failures = 0
    BY DEF Init
  <2> QED BY <2>1, <2>2 DEF ComputerOK, LoopOK
<1>2. BusOK
  <2>1. hears \in BOOLEAN BY Zenon DEF Init
  <2>2. pipe = <<>> /\ buffer = <<>> BY DEF Init
  <2> QED BY <2>1, <2>2 DEF BusOK
<1> USE DEF Init, Session, Kinds, Nothing, NoSession
<1>3. HandlerOK /\ SessionsOK BY DEF HandlerOK, SessionsOK, Beats, Stops
<1>4. Bounded /\ Read /\ Boundary BY DEF Bounded, Read, Boundary, Active
<1> QED BY <1>1, <1>2, <1>3, <1>4 DEF LInv, TypeOK

-----------------------------------------------------------------------------
(* The types, part by part                                                 *)

\* The screen, the power and the shell change in their own steps only.
LEMMA ComputerTypes ==
  ASSUME ComputerOK, Next
  PROVE  ComputerOK'
<1> USE DEF ComputerOK
<1>1. CASE Poll
  BY <1>1 DEF Poll, Select, Observe, CheckClosing, CheckIndicator, EndPoll
<1>2. CASE LockScreen
  <2>1. locked' \in BOOLEAN BY <1>2, Zenon DEF LockScreen
  <2> QED BY <1>2, <2>1 DEF LockScreen
<1>3. CASE Blind
  <2>1. readable' \in BOOLEAN BY <1>3, Zenon DEF Blind
  <2> QED BY <1>3, <2>1 DEF Blind
<1>4. CASE ShellChanges
  <2>1. shell' \in BOOLEAN BY <1>4, Zenon DEF ShellChanges
  <2> QED BY <1>4, <2>1 DEF ShellChanges
<1>5. CASE Prepare \/ Sleep \/ Wake \/ Chatter \/ BusEnds \/ Close
  <2>1. CASE Prepare \/ Sleep \/ Wake BY <2>1 DEF Prepare, Sleep, Wake
  <2>2. CASE Chatter \/ BusEnds BY <2>2 DEF Chatter, BusEnds
  <2>3. CASE Close BY <2>3 DEF Close
  <2> QED BY <1>5, <2>1, <2>2, <2>3
<1>6. CASE IndicatorBeat \/ BeatAges \/ Terminate \/ Kill
  BY <1>6 DEF IndicatorBeat, BeatAges, Terminate, Kill
<1>7. CASE StartMonitor \/ HandleEvent \/ (\E kind \in Kinds : BeginStart(kind)) \/ EndStart
             \/ SessionEnds
  BY <1>7 DEF StartMonitor, HandleEvent, ReadStatus, Act, BeginStart, EndStart, SessionEnds
<1>8. CASE BreakConfig BY <1>8 DEF BreakConfig
<1> QED BY <1>1, <1>2, <1>3, <1>4, <1>5, <1>6, <1>7, <1>8 DEF Next, Outside

\* A line that is taken leaves the loop and the handler typed.
LEMMA LineTypes ==
  ASSUME LoopOK, HandlerOK, NEW line \in Lines, TakeLine(line)
  PROVE  /\ pending' \in {"none", "sleep", "shutdown"} /\ running' \in BOOLEAN
         /\ handling' \in [event : Stops \cup {"lock", "none"}, step : {"read", "act", "done"},
                           saw : Session]
<1> USE DEF LoopOK, HandlerOK, TakeLine
<1>1. pending' \in {"none", "sleep", "shutdown"} /\ running' \in BOOLEAN OBVIOUS
<1>2. \A event \in Stops : Handle(event) =>
        handling' \in [event : Stops \cup {"lock", "none"}, step : {"read", "act", "done"},
                      saw : Session]
  BY DEF Handle, NoSession, Session
<1>3. handling' = handling \/ \E event \in Stops : Handle(event) BY DEF Stops
<1> QED BY <1>1, <1>2, <1>3

\* A poll handles one line, and keeps in the buffer what else it took from the pipe.
LEMMA SelectTypes ==
  ASSUME LoopOK, BusOK, HandlerOK, Select
  PROVE  LoopOK' /\ BusOK' /\ HandlerOK'
<1>0. pipe \in Seq(Lines) /\ buffer \in Seq(Lines) /\ hears \in BOOLEAN
  BY DEF BusOK
<1>1. /\ pipe' \in Seq(Lines) /\ buffer' \in Seq(Lines)
      /\ pending' \in {"none", "sleep", "shutdown"} /\ running' \in BOOLEAN
      /\ handling' \in [event : Stops \cup {"lock", "none"}, step : {"read", "act", "done"},
                        saw : Session]
  <2>1. CASE UNCHANGED <<pipe, buffer, pending, handling, running>>
    BY <1>0, <2>1 DEF LoopOK, HandlerOK
  <2>2. CASE buffer # <<>> /\ TakeLine(Head(buffer)) /\ buffer' = Tail(buffer) /\ UNCHANGED pipe
    <3>1. Head(buffer) \in Lines /\ Tail(buffer) \in Seq(Lines)
      BY <1>0, <2>2, HeadTailProperties
    <3> QED BY <1>0, <2>2, <3>1, LineTypes
  <2>3. CASE /\ pipe # <<>>
             /\ \E n \in 1 .. Len(pipe) :
                  /\ TakeLine(Head(pipe))
                  /\ buffer' = SubSeq(pipe, 2, n) /\ pipe' = SubSeq(pipe, n + 1, Len(pipe))
    <3> PICK n \in 1 .. Len(pipe) :
           /\ TakeLine(Head(pipe))
           /\ buffer' = SubSeq(pipe, 2, n) /\ pipe' = SubSeq(pipe, n + 1, Len(pipe))
      BY <2>3
    <3>1. Head(pipe) \in Lines BY <1>0, <2>3, HeadTailProperties
    <3>2. SubSeq(pipe, 2, n) \in Seq(Lines) /\ SubSeq(pipe, n + 1, Len(pipe)) \in Seq(Lines)
      BY <1>0
    <3> QED BY <3>1, <3>2, LineTypes
  <2> QED BY <2>1, <2>2, <2>3 DEF Select
<1>2. monitor' = "observe" /\ beats' = [beats EXCEPT !.monitor = "fresh"]
      /\ UNCHANGED <<failures, hears>>
  BY DEF Select
<1> QED BY <1>0, <1>1, <1>2 DEF LoopOK, BusOK, HandlerOK, Beats

\* The monitor's loop.
LEMMA LoopTypes ==
  ASSUME LoopOK, BusOK, HandlerOK, Bounded, Next
  PROVE  LoopOK'
<1>1. CASE Select BY <1>1, SelectTypes
<1>2. CASE Observe \/ CheckClosing \/ CheckIndicator \/ EndPoll
  <2>1. CASE Observe
    <3>0. running' = running \/ running' = FALSE BY <2>1 DEF Observe
    <3>1. running' \in BOOLEAN BY <3>0, Zenon DEF LoopOK
    <3>2. failures # 3 /\ (failures' = 0 \/ failures' = failures + 1)
      BY <2>1 DEF Observe, Bounded
    <3>3. monitor' = "closing" /\ pending' = pending BY <2>1 DEF Observe
    <3> QED BY <3>1, <3>2, <3>3 DEF LoopOK
  <2>2. CASE CheckClosing BY <2>2 DEF LoopOK, CheckClosing
  <2>3. CASE CheckIndicator BY <2>3 DEF LoopOK, CheckIndicator
  <2>4. CASE EndPoll BY <2>4 DEF LoopOK, EndPoll
  <2> QED BY <1>2, <2>1, <2>2, <2>3, <2>4
<1>3. CASE StartMonitor \/ HandleEvent \/ (\E kind \in Kinds : BeginStart(kind)) \/ EndStart
             \/ SessionEnds
  <2>1. CASE StartMonitor BY <2>1 DEF LoopOK, StartMonitor
  <2>2. CASE HandleEvent
    BY <2>2 DEF LoopOK, HandleEvent, ReadStatus, Act, StopSession, Done, Raise
  <2>3. CASE (\E kind \in Kinds : BeginStart(kind)) \/ EndStart \/ SessionEnds
    BY <2>3 DEF LoopOK, BeginStart, EndStart, SessionEnds
  <2> QED BY <1>3, <2>1, <2>2, <2>3
<1>4. CASE Outside
  BY <1>4 DEF LoopOK, Outside, LockScreen, Blind, BreakConfig, Prepare, Sleep, Wake, Chatter, BusEnds, Close,
              ShellChanges, IndicatorBeat, BeatAges, Terminate, Kill
<1> QED BY <1>1, <1>2, <1>3, <1>4 DEF Next, Poll

\* dbus-monitor's lines
LEMMA SignalTypes ==
  ASSUME BusOK, NEW lines \in Seq(Lines), Signal(lines)
  PROVE  pipe' \in Seq(Lines)
<1>1. pipe \in Seq(Lines) BY DEF BusOK
<1>2. pipe \o lines \in Seq(Lines) BY <1>1
<1> QED BY <1>1, <1>2 DEF Signal

\* What logind writes are lines.
LEMMA LinesTyped ==
  /\ <<>> \in Seq(Lines) /\ <<"other">> \in Seq(Lines)
  /\ <<"PrepareForSleep", "boolean-true">> \in Seq(Lines)
  /\ <<"PrepareForSleep", "boolean-false">> \in Seq(Lines)
  /\ <<"PrepareForShutdown", "boolean-true">> \in Seq(Lines)
  BY DEF Lines

\* The pipe and the buffer hold lines, whoever writes or reads.
LEMMA BusTypes ==
  ASSUME LoopOK, BusOK, HandlerOK, Next
  PROVE  BusOK'
<1>1. CASE Select BY <1>1, SelectTypes
<1>2. CASE Observe \/ CheckClosing \/ CheckIndicator \/ EndPoll
  BY <1>2, LinesTyped DEF BusOK, Observe, CheckClosing, CheckIndicator, EndPoll
<1>3. CASE StartMonitor \/ HandleEvent \/ (\E kind \in Kinds : BeginStart(kind)) \/ EndStart
             \/ SessionEnds
  BY <1>3, LinesTyped
     DEF BusOK, StartMonitor, HandleEvent, ReadStatus, Act, StopSession, Done, Raise, BeginStart,
         EndStart, SessionEnds
<1>4. CASE Prepare \/ Wake \/ Chatter \/ Close
  <2>1. pipe' \in Seq(Lines)
    BY <1>4, LinesTyped, SignalTypes DEF BusOK, Prepare, Wake, Chatter, Close
  <2> QED BY <1>4, <2>1 DEF BusOK, Prepare, Wake, Chatter, Close
<1>5. CASE LockScreen \/ Blind \/ BreakConfig \/ Sleep \/ BusEnds \/ ShellChanges \/ IndicatorBeat \/ BeatAges
             \/ Terminate \/ Kill
  BY <1>5, LinesTyped DEF BusOK, LockScreen, Blind, BreakConfig, Sleep, BusEnds, ShellChanges, IndicatorBeat,
                          BeatAges, Terminate, Kill
<1> QED BY <1>1, <1>2, <1>3, <1>4, <1>5 DEF Next, Poll, Outside

\* An event in hand, with the Session it was read with.
LEMMA HandlerTypes ==
  ASSUME LoopOK, BusOK, HandlerOK, SessionsOK, Next
  PROVE  HandlerOK'
<1>0. Nothing \in [event : Stops \cup {"lock", "none"}, step : {"read", "act", "done"},
                  saw : Session]
  BY DEF Nothing, NoSession, Session
<1> USE DEF HandlerOK, Beats
<1>1. CASE Select BY <1>1, SelectTypes
<1>2. CASE Observe \/ CheckClosing \/ CheckIndicator
  BY <1>2 DEF Observe, CheckClosing, CheckIndicator, Handle, Stops, NoSession, Session
<1>3. CASE EndPoll BY <1>0, <1>3 DEF EndPoll
<1>4. CASE HandleEvent
  BY <1>0, <1>4 DEF HandleEvent, ReadStatus, Act, StopSession, Done, Raise, SessionsOK
<1>5. CASE StartMonitor \/ (\E kind \in Kinds : BeginStart(kind)) \/ EndStart \/ SessionEnds
  BY <1>5 DEF StartMonitor, BeginStart, EndStart, SessionEnds
<1>6. CASE Kill BY <1>0, <1>6 DEF Kill
<1>7. CASE LockScreen \/ Blind \/ BreakConfig \/ Prepare \/ Sleep \/ Wake \/ Chatter \/ BusEnds \/ Close
             \/ ShellChanges \/ IndicatorBeat \/ BeatAges \/ Terminate
  BY <1>7 DEF LockScreen, Blind, BreakConfig, Prepare, Sleep, Wake, Chatter, BusEnds, Close, ShellChanges,
              IndicatorBeat, BeatAges, Terminate
<1> QED BY <1>1, <1>2, <1>3, <1>4, <1>5, <1>6, <1>7 DEF Next, Poll, Outside

\* Sessions and their heartbeats.
LEMMA SessionTypes ==
  ASSUME SessionsOK, Bounded, Next
  PROVE  SessionsOK'
<1> USE DEF SessionsOK
<1>1. CASE Poll
  BY <1>1 DEF Poll, Select, Observe, CheckClosing, CheckIndicator, EndPoll
<1>2. CASE StartMonitor \/ HandleEvent \/ (\E kind \in Kinds : BeginStart(kind)) \/ SessionEnds
  BY <1>2 DEF StartMonitor, HandleEvent, ReadStatus, Act, StopSession, BeginStart, SessionEnds,
              Session
<1>3. CASE EndStart BY <1>3 DEF EndStart, Bounded, Session
<1>4. CASE Prepare
  <2>1. suspended' \in 0 .. MaxSessions BY <1>4 DEF Prepare, Session
  <2> QED BY <1>4, <2>1 DEF Prepare
<1>5. CASE LockScreen \/ Blind \/ BreakConfig \/ Sleep \/ Wake \/ Chatter \/ BusEnds \/ Close \/ ShellChanges
             \/ IndicatorBeat \/ BeatAges \/ Terminate \/ Kill
  BY <1>5 DEF LockScreen, Blind, BreakConfig, Sleep, Wake, Chatter, BusEnds, Close, ShellChanges,
              IndicatorBeat, BeatAges, Terminate, Kill
<1> QED BY <1>1, <1>2, <1>3, <1>4, <1>5 DEF Next, Outside

\* The monitor gives up after a bounded number of failures, and Sessions are
\* numbered within their bound.
LEMMA StepBounded ==
  ASSUME LoopOK, SessionsOK, Bounded, Next
  PROVE  Bounded'
<1> USE DEF LoopOK, SessionsOK, Bounded, Session
<1>1. CASE Select BY <1>1 DEF Select
<1>2. CASE Observe \/ CheckClosing \/ CheckIndicator \/ EndPoll
  BY <1>2 DEF Observe, CheckClosing, CheckIndicator, EndPoll
<1>3. CASE StartMonitor \/ HandleEvent \/ (\E kind \in Kinds : BeginStart(kind)) \/ EndStart
             \/ SessionEnds
  BY <1>3 DEF StartMonitor, HandleEvent, ReadStatus, Act, StopSession, Done, Raise, BeginStart,
              EndStart, SessionEnds
<1>4. CASE Outside
  BY <1>4 DEF Outside, LockScreen, Blind, BreakConfig, Prepare, Sleep, Wake, Chatter, BusEnds, Close,
              ShellChanges, IndicatorBeat, BeatAges, Terminate, Kill
<1> QED BY <1>1, <1>2, <1>3, <1>4 DEF Next, Poll

-----------------------------------------------------------------------------
(* The boundary                                                            *)

\* Steps that leave the Session and what the handler read of it alone, or that
\* begin to handle an event, are no matter.
LEMMA Elsewhere ==
  ASSUME SessionsOK, HandlerOK, Read, Boundary, session' = session,
         lockBehavior' = "stop-all" => lockBehavior = "stop-all",
         \/ handling' = handling \/ handling' = Nothing
         \/ \E event \in Stops \cup {"lock"} : Handle(event)
  PROVE  Read' /\ Boundary'
  BY DEF SessionsOK, HandlerOK, Read, Boundary, Nothing, Handle, NoSession, Idle, Active, Session,
         Kinds

\* The handler: the Session it read is still that one, or has ended, when it acts.
LEMMA HandlerBoundary ==
  ASSUME SessionsOK, HandlerOK, Read, Boundary, HandleEvent
  PROVE  Read' /\ Boundary'
<1> USE DEF SessionsOK, HandlerOK, Read, Boundary, Idle, Active, Session, Kinds
<1>1. CASE ReadStatus BY <1>1 DEF ReadStatus
<1>2. CASE Act
  <2>1. handling' = [handling EXCEPT !.step = "done"] \/ handling' = Nothing
    BY <1>2 DEF Act, StopSession, Done, Raise
  <2>2. CASE StopSession
    <3>1. session' = [session EXCEPT !.kind = "none"] BY <2>2 DEF StopSession
    <3> QED BY <1>2, <2>1, <3>1 DEF Act, Nothing, NoSession
  <2>3. CASE Done /\ UNCHANGED session /\ ~MustStop(handling.event, handling.saw)
    <3>1. \/ handling.saw.kind = "none"
          \/ handling.event = "lock" /\ handling.saw.kind = "playback" /\ lockBehavior # "stop-all"
      BY <2>3 DEF MustStop
    <3> QED BY <1>2, <2>3, <3>1 DEF Act, Done
  <2>4. CASE Raise /\ UNCHANGED session
    BY <2>4 DEF Raise, Nothing, NoSession
  <2> QED BY <1>2, <2>2, <2>3, <2>4 DEF Act
<1> QED BY <1>1, <1>2 DEF HandleEvent

\* The other steps: what was read may end, and a new Session has a higher number.
LEMMA StepBoundary ==
  ASSUME SessionsOK, HandlerOK, Read, Boundary, Next
  PROVE  Read' /\ Boundary'
<1>1. CASE StartMonitor BY <1>1, Elsewhere DEF StartMonitor
<1>2. CASE HandleEvent BY <1>2, HandlerBoundary
<1>3. CASE Poll
  <2>1. CASE Select
    <3>1. session' = session /\ lockBehavior' = lockBehavior BY <2>1 DEF Select
    <3>2. handling' = handling \/ (\E event \in Stops : Handle(event))
      BY <2>1 DEF Select, TakeLine, Stops
    <3> QED BY <3>1, <3>2, Elsewhere
  <2>2. CASE Observe
    <3>1. session' = session /\ lockBehavior' = lockBehavior BY <2>2 DEF Observe
    <3>2. handling' = handling \/ Handle("lock") \/ Handle("privacy-monitor-failure")
      BY <2>2 DEF Observe
    <3> QED BY <3>1, <3>2, Elsewhere DEF Stops
  <2>3. CASE CheckClosing BY <2>3, Elsewhere DEF CheckClosing, Stops
  <2>4. CASE CheckIndicator BY <2>4, Elsewhere DEF CheckIndicator, Stops
  <2>5. CASE EndPoll BY <2>5, Elsewhere DEF EndPoll
  <2> QED BY <1>3, <2>1, <2>2, <2>3, <2>4, <2>5 DEF Poll
<1>4. CASE \E kind \in Kinds : BeginStart(kind) BY <1>4, Elsewhere DEF BeginStart
<1>5. CASE EndStart
  BY <1>5 DEF EndStart, SessionsOK, HandlerOK, Read, Boundary, Idle, Active, Session, Kinds
<1>6. CASE SessionEnds
  BY <1>6 DEF SessionEnds, SessionsOK, HandlerOK, Read, Boundary, Idle, Active, Session, Kinds
<1>7. CASE Outside
  BY <1>7, Elsewhere
     DEF Outside, LockScreen, Blind, BreakConfig, Prepare, Sleep, Wake, Chatter, BusEnds, Close,
         ShellChanges, IndicatorBeat, BeatAges, Terminate, Kill
<1> QED BY <1>1, <1>2, <1>3, <1>4, <1>5, <1>6, <1>7 DEF Next

-----------------------------------------------------------------------------

\* The parts together.
LEMMA StepLInv == LInv /\ [Next]_vars => LInv'
<1> SUFFICES ASSUME LInv, [Next]_vars PROVE LInv' OBVIOUS
<1>0. /\ ComputerOK /\ LoopOK /\ BusOK /\ HandlerOK /\ SessionsOK
      /\ Bounded /\ Read /\ Boundary
  BY DEF LInv, TypeOK
<1>1. CASE Next
  <2>1. TypeOK'
    BY <1>0, <1>1, ComputerTypes, LoopTypes, BusTypes, HandlerTypes, SessionTypes DEF TypeOK
  <2>2. Bounded' BY <1>0, <1>1, StepBounded
  <2>3. Read' /\ Boundary' BY <1>0, <1>1, StepBoundary
  <2> QED BY <2>1, <2>2, <2>3 DEF LInv
<1>2. CASE UNCHANGED vars
  <2>1. (ComputerOK /\ LoopOK /\ BusOK /\ HandlerOK /\ SessionsOK)'
    BY <1>0, <1>2 DEF vars, ComputerOK, LoopOK, BusOK, HandlerOK, SessionsOK
  <2>2. (Bounded /\ Read /\ Boundary)'
    BY <1>0, <1>2 DEF vars, Bounded, Read, Boundary, Idle, Active
  <2> QED BY <2>1, <2>2 DEF LInv, TypeOK
<1> QED BY <1>1, <1>2

\* The monitor's variables keep their types in every reachable state: it gives
\* up after the third failed observation (run_lifecycle_monitor), a Start adds
\* one Session (start_session).
THEOREM LifecycleTypes == Spec => []TypeOK
<1>1. LInv => TypeOK BY DEF LInv
<1> QED BY <1>1, InitLInv, StepLInv, PTL DEF Spec

\* No Session outlives a boundary that was handled, although the handler reads
\* the status without the session lock (handle_lifecycle_event).
THEOREM BoundaryHolds == Spec => []Boundary
<1>1. LInv => Boundary BY DEF LInv
<1> QED BY <1>1, InitLInv, StepLInv, PTL DEF Spec
=============================================================================
