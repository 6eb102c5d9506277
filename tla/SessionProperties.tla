------------------------- MODULE SessionProperties -------------------------
(***************************************************************************)
(* What the Session engine promises, as invariants, action properties and  *)
(* liveness properties of Session.                                         *)
(***************************************************************************)
EXTENDS Session

\* A worker between its start and its last write of session.json.
Engaged(s) == Alive(s) /\ pc[s] # "exiting"

\* The modules and processes a session has running now.
ModulesOf(s) == {m \in modules : m.owner = s}
LiveOf(s)    == {p \in live : p.owner = s}

(***************************************************************************)
(* Safety.                                                                 *)
(***************************************************************************)

\* At most one worker routes audio at a time: start_session's check of
\* session.json under session.lock keeps a second one out.
OneWorker == \A s, t \in Sessions : Engaged(s) /\ Engaged(t) => s = t

\* Why: a command that waits for its worker, or stops one, has no other worker
\* beside it, and one that cleans up or prepares a start has none at all; a
\* worker not yet in session.json is waited for; any other one is in it.
Working(s) == Engaged(s) /\ pc[s] # "boot"
Attached   == {"await", "signal", "dying"}
Alone      == CleanupPCs \cup {"sweepList", "sweep", "preflight", "reap", "writeStopped"}

BusyHoldsLock    == \A c \in Clients : pc[c] # "idle" => lock = c
AttachedToOne    == \A c \in Clients : pc[c] \in Attached =>
                      \A s \in Sessions : Engaged(s) => s = own[c]
AloneAtWork      == \A c \in Clients : pc[c] \in Alone => \A s \in Sessions : ~Engaged(s)
BootIsAwaited    == \A s \in Sessions : pc[s] = "boot" =>
                      \E c \in Clients : pc[c] = "await" /\ own[c] = s
BootIsUnwritten  == \A s \in Sessions : pc[s] \in {"none", "boot"} => disk.sess # s
WorkingIsWritten == \A s \in Sessions : Working(s) =>
                      disk.sess = s /\ disk.st \in ActiveStates /\ wstate[s] \in ActiveStates

Serialized == /\ BusyHoldsLock /\ AttachedToOne /\ AloneAtWork
              /\ BootIsAwaited /\ BootIsUnwritten /\ WorkingIsWritten
              /\ fg = {}

\* Every worker comes from a Start that waits for it.
NoBypass == {"silentStart", "foreground"} \cap Happens = {}

\* Once Stop has written "stopped", and until a worker writes again, no module,
\* no ffmpeg or ssh process and no stream on the Mix is left.
StoppedIsSilent ==
  disk.sess = NoOne => modules = {} /\ live = {} /\ \A i \in Inputs : at[i] # Mix

\* Every worker past its first write is the one session.json calls active, so
\* Stop, the indicator and the lock policy act on it.
RunningIsActive ==
  \A s \in Sessions : Engaged(s) /\ pc[s] # "boot" => Active /\ disk.sess = s

\* The worker did not die between an effect and the write that records it.
NothingUnrecorded(s) == Settled(s) /\ (epoch[s] > 0 /\ pc[s] = "dead" => kids[s] # {})

\* Stop cleans up after a worker that was killed, unless it died with an effect
\* not yet recorded: all modules go and all streams go back. So does the pipeline,
\* except one that replaced the one session.json named when Stop read it, or one
\* of a crashed Session that another Start has followed, as Start ends no process.
Superseded(p) == p.epoch > 1 \/ \E t \in Sessions \ {p.owner} : pc[t] # "none"

StopCleansAfterCrash ==
  disk.sess = NoOne /\ (\A s \in Sessions : NothingUnrecorded(s)) =>
    /\ modules = {}
    /\ \A i \in Inputs : at[i] # Mix
    /\ \A p \in live : Superseded(p)

\* A Session that ends by itself (a tool exits, a routing call fails) has taken
\* down everything it set up before it writes its last state, as long as no
\* call of its cleanup fails.
EndsClean ==
  \A s \in Sessions : pc[s] \in {"exiting", "done"} /\ ~stopReq[s]
                        => ModulesOf(s) = {} /\ LiveOf(s) = {}

\* When calls of its cleanup fail, session.json names every module that is left,
\* so that the cleanup of the next command finds it.
LeftIsNamed ==
  \A s \in Sessions : pc[s] \in {"exiting", "done"} /\ ~stopReq[s] /\ disk.sess = s
                        => ModulesOf(s) \subseteq disk.res.mods

\* No loopback runs without the Mix: the server would attach the free end of
\* one to the default sink or source and play a microphone locally. All three
\* cleanup paths therefore unload the null sink last.
LoopbackNeedsMix == \A m \in modules : m.kind # "null" => MixExists(modules)

\* As long as a microphone is routed, session.json says so, which the privacy
\* indicator and the lock policy read.
CaptureIsReported == (\E m \in modules : m.kind = "input") => disk.cap

\* Whatever moment the worker dies at, session.json misses at most the one
\* module it was loading, the one stream it was moving to the Mix and the one
\* pipeline it was starting, so Stop knows all the rest.
Stray(i) == at[i] = Mix /\ \A m \in disk.res.moved : m.input # i

CrashWindow ==
  \A s \in Sessions : disk.sess = s =>
    /\ \A m, n \in ModulesOf(s) \ disk.res.mods : m = n
    /\ \A i, j \in Inputs : Stray(i) /\ Stray(j) => i = j
    /\ \A p, q \in LiveOf(s) \ disk.res.procs : p.epoch = q.epoch

\* No command is at work, no worker is left, and session.json says so.
Quiescent ==
  lock = NoOne /\ disk.st \notin ActiveStates /\ \A s \in Sessions : ~Alive(s)

\* When it is all over every open stream plays where the user last put it, or
\* where it played when the Session listed it before moving it; never on a
\* sink the server picked because the Mix went away under it.
StreamsRestored ==
  Quiescent =>
    \A i \in Inputs : Playing(i) =>
      at[i] \in {home[i]} \cup
                {m.from : m \in {n \in UNION {res[s].moved : s \in Sessions} : n.input = i}}

\* When it is all over the default sink is the one the user last chose, or the
\* one that was the default when the Session started.
DefaultRestored ==
  Quiescent => dflt \in {chosen} \cup {res[s].dflt : s \in Sessions}

(***************************************************************************)
(* Action properties.                                                      *)
(***************************************************************************)

\* session.json never forgets a pipeline process that still runs.
TrackedUntilDead ==
  [][\A p \in disk.res.procs : p \in live' => p \in disk'.res.procs]_vars

\* Only a worker's own cleanup takes its modules away while it lives.
OnlyOwnerUnloads ==
  [][\A m \in modules \ modules' :
       Engaged(m.owner) => pc[m.owner] \in CleanupPCs]_vars

(***************************************************************************)
(* Liveness, under the fairness of running processes.                      *)
(***************************************************************************)

\* Stop comes to an end, and with it the Session.
StopEnds ==
  \A c \in Clients : pc[c] = "read" ~> (pc[c] = "idle" /\ modules = {} /\ live = {})

\* When ffmpeg or ssh has exited, the worker cleans up and exits.
ToolExitEndsSession ==
  \A s \in Sessions : (pc[s] = "wait" /\ ~ kids[s] \subseteq live) ~> pc[s] = "done"

\* A Start returns: session.lock is never held for ever.
LockIsReleased == \A c \in Clients : lock = c ~> lock # c
=============================================================================
