------------------------ MODULE LifecycleProperties ------------------------
(***************************************************************************)
(* What the privacy services promise about the Session.                    *)
(***************************************************************************)
EXTENDS Lifecycle

\* A Session that was there when a boundary was handled does not outlive it:
\* whatever streams afterwards began after the handler had read the status
\* (or is playback that the lock policy leaves alone). The handler reads
\* without the session lock, and a Start may be under way.
Boundary ==
  handling.event # "none" /\ Idle /\ Active
    => \/ session.id > handling.saw.id
       \/ handling.event = "lock" /\ session.kind = "playback" /\ lockBehavior # "stop-all"

\* Capture under a locked screen ends, also when it began after the lock was
\* first seen, while the shell is there to keep the monitor running and the
\* configuration can be loaded (lifecycle.py:83).
LockEndsCapture ==
  session.kind = "capture" /\ locked
    ~> session.kind # "capture" \/ ~locked \/ ~shell \/ closing \/ lockBehavior = "unloadable"

\* A Session does not go on when the lock cannot be observed any more.
BlindEnds == Active /\ ~readable ~> ~Active \/ readable \/ ~shell \/ closing

\* A Session that a poll of the monitor comes upon without the bar's indicator
\* ends, with the shell there or not. The monitor ending by itself is no way out
\* of it; only a signal or an exception that ends the monitor in that poll is.
HiddenEnds ==
  Active /\ beats.indicator # "fresh" /\ monitor \in {"select", "observe", "closing", "indicator"}
    ~> ~Active \/ beats.indicator = "fresh" \/ monitor = "died"

\* "The keep-loaded lifecycle service also stops Sessions before suspend": a
\* Session that the running monitor could hear of being suspended is gone when
\* the computer is asleep.
SuspendStops == power = "asleep" /\ suspended # 0 => ~(Active /\ session.id = suspended)
=============================================================================
