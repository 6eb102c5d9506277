------------------------------ MODULE Session ------------------------------
(***************************************************************************)
(* The Session engine of session.py: commands (`ssh-mixer start`, `stop`,  *)
(* the lifecycle monitor's stop) that serialize on session.lock, the       *)
(* detached worker process that applies a routing plan, runs the           *)
(* ffmpeg|ssh pipeline and cleans up, and session.json, through which they *)
(* see each other. One action is one effect another process can observe:   *)
(* a pactl call, a write of session.json, a process started or signalled.  *)
(***************************************************************************)
EXTENDS PulseServer

CONSTANTS
  Clients,    \* commands that run start_session or stop_session
  Configs,    \* the configurations a Session may be started with
  MaxEpochs,  \* bound on pipelines one Session runs (each lasts 30 minutes)
  Happens     \* which outside events occur, from Events below

NoOne == "nobody"

Events ==
  { "streams",      \* applications open and close playback streams
    "userMoves",    \* the user moves a stream to another sink
    "userDefault",  \* the user picks another default sink
    "toolExit",     \* ffmpeg or ssh exits on its own
    "raise",        \* a call the worker makes before its cleanup fails
    "cleanupFails", \* a pactl call of a worker's cleanup fails
    "commandFails", \* a pactl call of the cleanup or sweep of Start or Stop fails
    "workerKill",   \* the worker is killed (crash, OOM) between two effects
    "clientKill",   \* a command is killed while it holds the lock
    "abandon",      \* start stops waiting after the worker's first write
    "silentStart",  \* start stops waiting before the worker's first write
    "lostCall",     \* Stop's SIGTERM also ends the pactl call in flight
    "stopDeadline", \* the worker outlives Stop's eight seconds
    "foreground" }  \* `ssh-mixer run`

ConfigType == [dest : {"local", "ssh", "both"}, caps : SUBSET Captures, play : BOOLEAN]

Actors == Clients \cup Sessions

ASSUME SessionAssumption ==
  /\ Clients \cap Sessions = {}
  /\ NoOne \notin Actors /\ NoOne \notin Sinks
  /\ Configs \subseteq ConfigType
  /\ MaxEpochs \in Nat \ {0}
  /\ Happens \subseteq Events

-----------------------------------------------------------------------------
(* What a Session tracks: state["resources"].                              *)

Tools == {"ffmpeg", "ssh"}
Proc  == [owner : Sessions, tool : Tools, epoch : 0 .. MaxEpochs]
Move  == [input : Inputs, from : Sinks \cup {Mix}]

\* What has been done on the server but not recorded yet.
Untracked == [moved : SUBSET Move, mods : SUBSET Module, procs : SUBSET Proc]
Nothing   == [moved |-> {}, mods |-> {}, procs |-> {}]

Resources == [mix : BOOLEAN, dflt : Sinks \cup {Mix, NoOne}, moved : SUBSET Move,
              mods : SUBSET Module, procs : SUBSET Proc]
EmptyResources == [mix |-> FALSE, dflt |-> NoOne, moved |-> {}, mods |-> {}, procs |-> {}]

\* A list of pactl calls still to make.
Todo    == [moves : SUBSET Move, mods : SUBSET Module, dflt : BOOLEAN]
NoCalls == [moves |-> {}, mods |-> {}, dflt |-> FALSE]

ActiveStates == {"starting", "streaming", "local", "stopping"}
States       == ActiveStates \cup {"stopped", "error"}
SessionFile  == [st : States, sess : Sessions \cup {NoOne}, cap : BOOLEAN, res : Resources]
StoppedState == [st |-> "stopped", sess |-> NoOne, cap |-> FALSE, res |-> EmptyResources]

CleanupPCs == {"list", "restore", "unload", "default"}
ClientPCs  == CleanupPCs \cup
  {"idle", "guard", "sweepList", "sweep", "preflight", "await",
   "read", "signal", "dying", "reap", "writeStopped"}
WorkerPCs  == CleanupPCs \cup
  {"none", "boot", "discover", "plan", "mix", "mixDefault", "route", "encoder",
   "transport", "announce", "wait", "reconcile", "refresh", "term", "final",
   "exiting", "done", "dead"}

VARIABLES
  lock,     \* the client that holds session.lock, or NoOne
  pc,       \* where each command and each worker is
  op,       \* "start" or "stop", per client
  own,      \* the session a client started, or read in session.json
  res,      \* a worker's self.resources; the resources a client read
  todo,     \* the calls an actor has planned from its last listing
  disk,     \* session.json
  live,     \* the ffmpeg and ssh processes that run
  cfg,      \* the configuration piped to each worker
  wstate,   \* current_state["state"] in each worker
  stopReq,  \* self.stop_requested
  fail,     \* the worker's exit code is not zero
  pending,  \* an effect of the worker that its next write will record
  epoch,    \* pipelines the worker has started
  kids,     \* self.children
  fg        \* sessions run in the foreground, without a worker command line

clients == <<lock, op, own>>
workers == <<cfg, wstate, stopReq, fail, pending, epoch, kids, fg>>
vars == <<server, clients, workers, pc, res, todo, disk, live>>

TypeOK ==
  /\ ServerTypeOK
  /\ lock \in Clients \cup {NoOne}
  /\ pc \in [Actors -> ClientPCs \cup WorkerPCs]
  /\ \A c \in Clients : pc[c] \in ClientPCs
  /\ \A s \in Sessions : pc[s] \in WorkerPCs
  /\ op \in [Clients -> {"start", "stop"}]
  /\ own \in [Clients -> Sessions \cup {NoOne}]
  /\ res \in [Actors -> Resources]
  /\ todo \in [Actors -> Todo]
  /\ disk \in SessionFile
  /\ live \in SUBSET Proc
  /\ cfg \in [Sessions -> ConfigType]
  /\ wstate \in [Sessions -> States]
  /\ stopReq \in [Sessions -> BOOLEAN]
  /\ fail \in [Sessions -> BOOLEAN]
  /\ pending \in [Sessions -> Untracked]
  /\ epoch \in [Sessions -> 0 .. MaxEpochs]
  /\ kids \in [Sessions -> SUBSET Proc]
  /\ fg \in SUBSET Sessions

Init ==
  /\ ServerInit
  /\ lock = NoOne
  /\ pc = [a \in Actors |-> IF a \in Clients THEN "idle" ELSE "none"]
  /\ op = [c \in Clients |-> "start"]
  /\ own = [c \in Clients |-> NoOne]
  /\ res = [a \in Actors |-> EmptyResources]
  /\ todo = [a \in Actors |-> NoCalls]
  /\ disk = StoppedState
  /\ live = {}
  /\ cfg = [s \in Sessions |-> [dest |-> "local", caps |-> {}, play |-> FALSE]]
  /\ wstate = [s \in Sessions |-> "stopped"]
  /\ stopReq = [s \in Sessions |-> FALSE]
  /\ fail = [s \in Sessions |-> FALSE]
  /\ pending = [s \in Sessions |-> Nothing]
  /\ epoch = [s \in Sessions |-> 0]
  /\ kids = [s \in Sessions |-> {}]
  /\ fg = {}

-----------------------------------------------------------------------------
Goto(a, from, to) == pc[a] = from /\ pc' = [pc EXCEPT ![a] = to]

\* pid_alive: the worker's process exists
Alive(s) == s \in Sessions /\ pc[s] \notin {"none", "done", "dead"}

\* normalize_status: an active state counts only while the recorded pid runs
\* a command line that holds the session id, which `run`'s does not
Active == disk.st \in ActiveStates /\ Alive(disk.sess) /\ disk.sess \notin fg

\* Mutant: the capture is announced only once the stream runs.
RecordCaptureLate(s, st, r) ==
  [st |-> st, sess |-> s, cap |-> st = "streaming" /\ cfg[s].caps # {}, res |-> r]

\* SessionWorker._write_state
Record(s, st, r) == [st |-> st, sess |-> s, cap |-> cfg[s].caps # {}, res |-> r]

\* Nothing is waiting to be recorded, so the worker may go on.
Settled(s) == pending[s] = Nothing

-----------------------------------------------------------------------------
(* The worker: SessionWorker.run.                                          *)

\* The process starts; its first write of session.json is "starting".
Boot(s) ==
  /\ Goto(s, "boot", "discover")
  /\ wstate' = [wstate EXCEPT ![s] = "starting"]
  /\ disk' = Record(s, "starting", res[s])
  /\ UNCHANGED <<server, clients, res, todo, live,
                 cfg, stopReq, fail, pending, epoch, kids, fg>>

\* require_commands fails before the first write and before the try block
BootFails(s) ==
  /\ "raise" \in Happens
  /\ Goto(s, "boot", "done")
  /\ UNCHANGED <<server, clients, workers, res, todo, disk, live>>

\* The sinks whose playback a "both" Session copies back, for these moves
CopySinks(s, moves) ==
  IF cfg[s].dest = "both" THEN {m.from : m \in moves} \ {Mix} ELSE {}

\* discover_sources and build_route_plan
Discover(s) ==
  LET moves == IF cfg[s].play
               THEN {m \in Move : at[m.input] = m.from} ELSE {}
      loads == {InputLoopback(s, d) : d \in cfg[s].caps}
                 \cup {CopyLoopback(s, k) : k \in CopySinks(s, moves)}
  IN /\ Goto(s, "discover", "plan")
     /\ todo' = [todo EXCEPT ![s] =
                   IF cfg[s].dest = "local" THEN NoCalls
                   ELSE [moves |-> moves, mods |-> loads, dflt |-> FALSE]]
     /\ UNCHANGED <<server, clients, workers, res, disk, live>>

\* The default sink is noted and the plan published before anything changes.
Plan(s) ==
  LET r == IF cfg[s].dest = "local" THEN res[s] ELSE [res[s] EXCEPT !.dflt = dflt]
  IN /\ Goto(s, "plan", IF cfg[s].dest = "local" THEN "announce" ELSE "mix")
     /\ res' = [res EXCEPT ![s] = r]
     /\ wstate' = [wstate EXCEPT ![s] = "starting"]
     /\ disk' = Record(s, "starting", r)
     /\ UNCHANGED <<server, clients, todo, live,
                    cfg, stopReq, fail, pending, epoch, kids, fg>>

\* load-null-sink: an existing Mix is used as it is and not tracked
CreateMix(s) ==
  /\ Goto(s, "mix", "mixDefault")
  /\ res' = [res EXCEPT ![s].mix = TRUE]
  /\ IF MixExists(modules)
     THEN UNCHANGED <<server, pending>>
     ELSE /\ LoadNullSink(s)
          /\ pending' = [pending EXCEPT ![s].mods = {NullSink(s)}]
  /\ UNCHANGED <<clients, todo, disk, live, cfg, wstate, stopReq, fail, epoch, kids, fg>>

\* _restore_local_default_sink
KeepDefault(s) ==
  /\ Settled(s)
  /\ Goto(s, "mixDefault", "route")
  /\ IF res[s].dflt \in Sinks THEN SetDefault(res[s].dflt) ELSE UNCHANGED server
  /\ UNCHANGED <<clients, workers, res, todo, disk, live>>

TrackingPCs == {"mixDefault", "route", "reconcile", "announce", "wait"}

\* Mutant: what was done is kept in memory until the next change of state.
TrackInMemory(s) ==
  LET p == pending[s]
  IN /\ pc[s] \in TrackingPCs /\ p # Nothing
     /\ res' = [res EXCEPT ![s].moved = @ \cup p.moved, ![s].mods = @ \cup p.mods,
                           ![s].procs = @ \cup p.procs]
     /\ pending' = [pending EXCEPT ![s] = Nothing]
     /\ UNCHANGED <<server, clients, todo, disk, live, pc,
                    cfg, wstate, stopReq, fail, epoch, kids, fg>>

\* _track_module, _track_move and _track_process: append, then write
Track(s) ==
  LET p == pending[s]
      first == IF \E q \in p.procs : q.tool = "ffmpeg"
               THEN {q \in p.procs : q.tool = "ffmpeg"} ELSE p.procs
      r == [res[s] EXCEPT !.moved = @ \cup p.moved, !.mods = @ \cup p.mods,
                          !.procs = @ \cup first]
  IN /\ pc[s] \in TrackingPCs /\ p # Nothing
     /\ res' = [res EXCEPT ![s] = r]
     /\ pending' = [pending EXCEPT ![s] = [Nothing EXCEPT !.procs = p.procs \ first]]
     /\ disk' = Record(s, wstate[s], r)
     /\ UNCHANGED <<server, clients, todo, live, pc,
                    cfg, wstate, stopReq, fail, epoch, kids, fg>>

\* move-sink-input; the start-up plan moves first, reconciliation copies first
RouteMove(s) ==
  \E m \in todo[s].moves :
    /\ Settled(s)
    /\ \/ pc[s] = "route"
       \/ pc[s] = "reconcile" /\ todo[s].mods = {}
    /\ MoveInput(m.input, Mix)
    /\ todo' = [todo EXCEPT ![s].moves = @ \ {m}]
    /\ pending' = [pending EXCEPT ![s].moved = {m}]
    /\ UNCHANGED <<clients, pc, res, disk, live, cfg, wstate, stopReq, fail, epoch, kids, fg>>

\* load-loopback; in the start-up plan captures come before local copies
RouteLoopback(s) ==
  \E m \in todo[s].mods :
    /\ Settled(s)
    /\ \/ /\ pc[s] = "route" /\ todo[s].moves = {}
          /\ m.kind = "copy" => \A n \in todo[s].mods : n.kind = "copy"
       \/ pc[s] = "reconcile"
    /\ LoadLoopback(m)
    /\ todo' = [todo EXCEPT ![s].mods = @ \ {m}]
    /\ pending' = [pending EXCEPT ![s].mods = {m}]
    /\ UNCHANGED <<clients, pc, res, disk, live, cfg, wstate, stopReq, fail, epoch, kids, fg>>

RouteDone(s) ==
  /\ Settled(s) /\ todo[s] = NoCalls
  /\ \/ Goto(s, "route", "encoder")
     \/ Goto(s, "reconcile", "wait")
  /\ UNCHANGED <<server, clients, workers, res, todo, disk, live>>

\* _start_pipeline, first half: ffmpeg runs and is not yet recorded anywhere
StartEncoder(s) ==
  LET p == [owner |-> s, tool |-> "ffmpeg", epoch |-> epoch[s] + 1]
  IN /\ epoch[s] < MaxEpochs
     /\ Goto(s, "encoder", "transport")
     /\ epoch' = [epoch EXCEPT ![s] = @ + 1]
     /\ live' = live \cup {p}
     /\ UNCHANGED <<server, clients, res, todo, disk,
                    cfg, wstate, stopReq, fail, pending, kids, fg>>

Pipeline(s) == {[owner |-> s, tool |-> t, epoch |-> epoch[s]] : t \in Tools}

\* _start_pipeline, second half: ssh runs and both become self.children
StartTransport(s) ==
  /\ Goto(s, "transport", IF epoch[s] > 1 THEN "wait" ELSE "announce")
  /\ live' = live \cup {p \in Pipeline(s) : p.tool = "ssh"}
  /\ kids' = [kids EXCEPT ![s] = Pipeline(s)]
  /\ pending' = [pending EXCEPT ![s].procs = Pipeline(s)]
  /\ UNCHANGED <<server, clients, res, todo, disk, cfg, wstate, stopReq, fail, epoch, fg>>

\* The route is up: "streaming" (or "local") is written, also over "stopping".
Announce(s) ==
  LET st == IF cfg[s].dest = "local" THEN "local" ELSE "streaming"
  IN /\ Settled(s)
     /\ Goto(s, "announce", "wait")
     /\ wstate' = [wstate EXCEPT ![s] = st]
     /\ disk' = Record(s, st, res[s])
     /\ UNCHANGED <<server, clients, res, todo, live,
                    cfg, stopReq, fail, pending, epoch, kids, fg>>

-----------------------------------------------------------------------------
(* _wait_for_pipeline: a poll finds an exited child, a stream to add, an   *)
(* epoch to end, or the stop request.                                      *)

Polling(s) == pc[s] = "wait" /\ Settled(s) /\ ~stopReq[s] /\ cfg[s].dest # "local"

\* Mutant: the poll waits for both tools to exit.
ToolsBothExited(s) ==
  /\ Polling(s) /\ kids[s] \cap live = {}
  /\ Goto(s, "wait", "term")
  /\ \E code \in BOOLEAN : fail' = [fail EXCEPT ![s] = code]
  /\ UNCHANGED <<server, clients, res, todo, disk, live,
                 cfg, wstate, stopReq, pending, epoch, kids, fg>>

ToolExited(s) ==
  /\ Polling(s) /\ ~ kids[s] \subseteq live
  /\ Goto(s, "wait", "term")
  /\ \E code \in BOOLEAN : fail' = [fail EXCEPT ![s] = code]
  /\ UNCHANGED <<server, clients, res, todo, disk, live,
                 cfg, wstate, stopReq, pending, epoch, kids, fg>>

\* _reconcile_playback_sources and build_playback_reconciliation
Reconcile(s) ==
  LET routed == {m.input : m \in res[s].moved}
      copied == {m.end : m \in {n \in res[s].mods : n.kind = "copy"}}
      moves  == {m \in Move : at[m.input] = m.from /\ m.from # Mix /\ m.input \notin routed}
  IN /\ Polling(s) /\ kids[s] \subseteq live /\ cfg[s].play
     /\ moves # {}
     /\ Goto(s, "wait", "reconcile")
     /\ todo' = [todo EXCEPT ![s] =
                   [moves |-> moves, dflt |-> FALSE,
                    mods |-> {CopyLoopback(s, k) : k \in CopySinks(s, moves) \ copied}]]
     /\ UNCHANGED <<server, clients, workers, res, disk, live>>

\* Mutant: the old pipeline is forgotten and left to end by itself.
RefreshLeavesOld(s) ==
  /\ Polling(s) /\ kids[s] \subseteq live /\ epoch[s] < MaxEpochs
  /\ Goto(s, "wait", "refresh")
  /\ UNCHANGED <<server, clients, workers, res, todo, disk, live>>

\* The epoch ended: terminate the children and forget them, in memory only,
\* before the replacement starts.
Refresh(s) ==
  /\ Polling(s) /\ kids[s] \subseteq live /\ epoch[s] < MaxEpochs
  /\ Goto(s, "wait", "refresh")
  /\ live' = live \ kids[s]
  /\ UNCHANGED <<server, clients, workers, res, todo, disk>>

Forget(s) ==
  /\ Goto(s, "refresh", IF stopReq[s] THEN "term" ELSE "encoder")
  /\ res' = [res EXCEPT ![s].procs = @ \ kids[s]]
  /\ kids' = [kids EXCEPT ![s] = {}]
  /\ UNCHANGED <<server, clients, todo, disk, live,
                 cfg, wstate, stopReq, fail, pending, epoch, fg>>

StopSeen(s) ==
  /\ Settled(s) /\ stopReq[s]
  /\ Goto(s, "wait", "term")
  /\ UNCHANGED <<server, clients, workers, res, todo, disk, live>>

\* Mutant: the ffmpeg started for an ssh that cannot start is left running.
RaiseLeavesEncoder(s) ==
  /\ Settled(s)
  /\ pc' = [pc EXCEPT ![s] = "term"]
  /\ fail' = [fail EXCEPT ![s] = TRUE]
  /\ UNCHANGED <<server, clients, res, todo, disk, live,
                 cfg, wstate, stopReq, pending, epoch, kids, fg>>

\* A call fails: the exception ends the route and the calls still planned.
\* When ssh cannot be started the ffmpeg just started is killed.
Raise(s) ==
  /\ Settled(s)
  /\ pc' = [pc EXCEPT ![s] = "term"]
  /\ fail' = [fail EXCEPT ![s] = TRUE]
  /\ live' = IF pc[s] = "transport" THEN live \ Pipeline(s) ELSE live
  /\ UNCHANGED <<server, clients, res, todo, disk,
                 cfg, wstate, stopReq, pending, epoch, kids, fg>>

RaisingPCs == {"discover", "plan", "mix", "mixDefault", "route", "encoder",
               "transport", "reconcile"}

\* In a poll it is the listing of the streams that may fail.
WorkerRaises(s) ==
  /\ "raise" \in Happens
  /\ pc[s] \in RaisingPCs \/ (Polling(s) /\ cfg[s].play)
  /\ Raise(s)

\* A stream found by the last listing is gone, or the Mix is, by the time the
\* worker moves it: pactl fails and run_pactl raises.
MoveFails(s) ==
  /\ pc[s] \in {"route", "reconcile"}
  /\ \E m \in todo[s].moves : ~Playing(m.input) \/ ~MixExists(modules)
  /\ Raise(s)

-----------------------------------------------------------------------------
(* Cleanup: cleanup_resources works from one listing of sinks, inputs and  *)
(* modules. The worker runs it with its own resources, a command with      *)
(* those it read from session.json. No pactl call is checked: a listing    *)
(* that fails is an empty one, any other call that fails has no effect,    *)
(* and the cleanup goes on.                                                *)

CallMayFail(a) ==
  (IF a \in Sessions THEN "cleanupFails" ELSE "commandFails") \in Happens

\* _terminate_children
TermChildren(s) ==
  /\ Goto(s, "term", "list")
  /\ live' = live \ kids[s]
  /\ UNCHANGED <<server, clients, workers, res, todo, disk>>

\* Mutants: streams still on the Mix are left to the server; the default sink
\* is looked at after the null sink is gone.
ListingWithoutMoves(a) ==
  [moves |-> {}, mods |-> {m \in res[a].mods \cap modules : res[a].mix},
   dflt  |-> res[a].mix /\ dflt = Mix]
ListingLateDefault(a) ==
  [moves |-> {m \in res[a].moved : res[a].mix /\ at[m.input] = Mix},
   mods  |-> {m \in res[a].mods \cap modules : res[a].mix},
   dflt  |-> FALSE]

\* What cleanup_resources decides from the listing: streams still on the Mix
\* go back, tracked modules that are still ours go, and the default sink is
\* put back only if it is the Mix.
Listing(a) ==
  [moves |-> {m \in res[a].moved : res[a].mix /\ at[m.input] = Mix},
   mods  |-> {m \in res[a].mods \cap modules : res[a].mix},
   dflt  |-> res[a].mix /\ dflt = Mix]

\* What it may decide when pactl fails to list the sinks or inputs, the modules,
\* or to tell the default sink.
Listings(a) ==
  IF CallMayFail(a)
  THEN [moves : {Listing(a).moves, {}}, mods : {Listing(a).mods, {}}, dflt : {Listing(a).dflt, FALSE}]
  ELSE {Listing(a)}

List(a) ==
  /\ Goto(a, "list", "restore")
  /\ \E found \in Listings(a) : todo' = [todo EXCEPT ![a] = found]
  /\ UNCHANGED <<server, clients, workers, res, disk, live>>

\* check=False: a stream that cannot be moved is left where it is
Restore(a) ==
  /\ pc[a] = "restore"
  /\ \E m \in todo[a].moves :
       /\ todo' = [todo EXCEPT ![a].moves = @ \ {m}]
       /\ \/ IF Playing(m.input) /\ m.from \in Sinks
             THEN MoveInput(m.input, m.from) ELSE UNCHANGED server
          \/ CallMayFail(a) /\ UNCHANGED server
  /\ UNCHANGED <<clients, workers, pc, res, disk, live>>

RestoreDone(a) ==
  /\ todo[a].moves = {}
  /\ Goto(a, "restore", "unload")
  /\ UNCHANGED <<server, clients, workers, res, todo, disk, live>>

\* Mutant: modules are unloaded in any order.
UnloadsInAnyOrder(a, m) == m \in todo[a].mods

\* Modules are unloaded in reverse order of loading, the null sink last.
UnloadsNext(a, m) == m.kind = "null" => \A n \in todo[a].mods : n.kind = "null"

UnloadNext(a) ==
  \E m \in todo[a].mods :
    /\ UnloadsNext(a, m)
    /\ todo' = [todo EXCEPT ![a].mods = @ \ {m}]
    /\ \/ IF m \in modules THEN Unload(m) ELSE UNCHANGED server
       \/ CallMayFail(a) /\ UNCHANGED server

UnloadTracked(a) ==
  /\ pc[a] = "unload"
  /\ UnloadNext(a)
  /\ UNCHANGED <<clients, workers, pc, res, disk, live>>

UnloadDone(a) ==
  /\ todo[a].mods = {}
  /\ Goto(a, "unload", "default")
  /\ UNCHANGED <<server, clients, workers, res, todo, disk, live>>

\* Mutant: Stop trusts the cleanup of what session.json tracks.
NoSweepAfterCleanup(a) ==
  IF a \in Sessions THEN "final" ELSE IF op[a] = "start" THEN "sweepList" ELSE "writeStopped"

\* Afterwards the worker writes its last state, Start sweeps the Mix by name,
\* and Stop does so only if the resources it read name the Mix.
AfterCleanup(a) ==
  IF a \in Sessions THEN "final"
  ELSE IF op[a] = "start" \/ res[a].mix THEN "sweepList" ELSE "writeStopped"

RestoreDefault(a) ==
  /\ Goto(a, "default", AfterCleanup(a))
  /\ \/ IF todo[a].dflt /\ res[a].dflt \in Sinks
        THEN SetDefault(res[a].dflt) ELSE UNCHANGED server
     \/ CallMayFail(a) /\ UNCHANGED server
  /\ todo' = [todo EXCEPT ![a] = NoCalls]
  /\ UNCHANGED <<clients, workers, res, disk, live>>

\* Mutant: the last write uses a state session.json does not know.
WriteFailed(s) ==
  /\ Goto(s, "final", "exiting")
  /\ disk' = Record(s, IF fail[s] THEN "failed" ELSE "stopped", res[s])
  /\ UNCHANGED <<server, clients, res, todo, live,
                 cfg, wstate, stopReq, fail, pending, epoch, kids, fg>>

\* Mutant: the last write tells of no resources, as Stop's does.
WriteForgets(s) ==
  LET st == IF fail[s] THEN "error" ELSE "stopped"
  IN /\ Goto(s, "final", "exiting")
     /\ wstate' = [wstate EXCEPT ![s] = st]
     /\ disk' = Record(s, st, EmptyResources)
     /\ UNCHANGED <<server, clients, res, todo, live,
                    cfg, stopReq, fail, pending, epoch, kids, fg>>

\* The worker's last write, which keeps the resources it tracked
WriteFinal(s) ==
  LET st == IF fail[s] THEN "error" ELSE "stopped"
  IN /\ Goto(s, "final", "exiting")
     /\ wstate' = [wstate EXCEPT ![s] = st]
     /\ disk' = Record(s, st, res[s])
     /\ UNCHANGED <<server, clients, res, todo, live,
                    cfg, stopReq, fail, pending, epoch, kids, fg>>

Exit(s) ==
  /\ Goto(s, "exiting", "done")
  /\ UNCHANGED <<server, clients, workers, res, todo, disk, live>>

-----------------------------------------------------------------------------
(* Commands: start_session and stop_session, under session_lock.           *)

Release(c) == lock' = NoOne /\ pc' = [pc EXCEPT ![c] = "idle"]

\* Mutant: commands do not wait for session.lock.
BeginWithoutLock(c, o) ==
  /\ Goto(c, "idle", IF o = "start" THEN "guard" ELSE "read")
  /\ lock' = c
  /\ op' = [op EXCEPT ![c] = o]
  /\ UNCHANGED <<server, workers, own, res, todo, disk, live>>

Begin(c, o) ==
  /\ lock = NoOne
  /\ Goto(c, "idle", IF o = "start" THEN "guard" ELSE "read")
  /\ lock' = c
  /\ op' = [op EXCEPT ![c] = o]
  /\ UNCHANGED <<server, workers, own, res, todo, disk, live>>

\* Mutant: Start does not look for an active Session.
GuardNothing(c) ==
  /\ Goto(c, "guard", "list")
  /\ res' = [res EXCEPT ![c] = disk.res]
  /\ UNCHANGED <<server, clients, workers, todo, disk, live>>

\* Start: no Session may be active; what session.json tracks is cleaned first
Guard(c) ==
  /\ ~Active
  /\ Goto(c, "guard", "list")
  /\ res' = [res EXCEPT ![c] = disk.res]
  /\ UNCHANGED <<server, clients, workers, todo, disk, live>>

\* Start ends in an error: a Session is active, or a requirement (migration,
\* pending removal, privacy service, preflight, a selected source) is not met
Refuse(c) ==
  /\ \/ pc[c] = "guard" /\ Active
     \/ pc[c] \in {"guard", "preflight"} /\ "raise" \in Happens
  /\ Release(c)
  /\ UNCHANGED <<server, workers, op, own, res, todo, disk, live>>

\* cleanup_named_mix: every loopback of the Mix, then every null sink; nothing
\* when pactl fails to list the modules
SweepList(c) ==
  /\ Goto(c, "sweepList", "sweep")
  /\ \E found \in {modules} \cup (IF CallMayFail(c) THEN {{}} ELSE {}) :
       todo' = [todo EXCEPT ![c] = [NoCalls EXCEPT !.mods = found]]
  /\ UNCHANGED <<server, clients, workers, res, disk, live>>

Sweep(c) ==
  /\ pc[c] = "sweep"
  /\ UnloadNext(c)
  /\ UNCHANGED <<clients, workers, pc, res, disk, live>>

SweepDone(c) ==
  /\ todo[c].mods = {}
  /\ Goto(c, "sweep", IF op[c] = "start" THEN "preflight" ELSE "writeStopped")
  /\ UNCHANGED <<server, clients, workers, res, todo, disk, live>>

\* The worker is started with a fresh session id.
Spawn(c) ==
  /\ pc[c] = "preflight"
  /\ \E s \in Sessions, k \in Configs :
       /\ pc[s] = "none"
       /\ pc' = [pc EXCEPT ![c] = "await", ![s] = "boot"]
       /\ own' = [own EXCEPT ![c] = s]
       /\ cfg' = [cfg EXCEPT ![s] = k]
  /\ UNCHANGED <<server, lock, op, res, todo, disk, live,
                 wstate, stopReq, fail, pending, epoch, kids, fg>>

\* Mutant: Start waits for what session.json says only.
StartedByFile(c) ==
  /\ pc[c] = "await" /\ disk.sess = own[c] /\ disk.st \in {"streaming", "local", "error"}
  /\ Release(c)
  /\ UNCHANGED <<server, workers, op, own, res, todo, disk, live>>

\* Start waits for its Session's route, its failure, or the worker's exit.
Started(c) ==
  /\ pc[c] = "await"
  /\ \/ ~Alive(own[c])
     \/ disk.sess = own[c] /\ disk.st \in {"streaming", "local", "error"}
  /\ Release(c)
  /\ UNCHANGED <<server, workers, op, own, res, todo, disk, live>>

\* Eight seconds pass, or the command is interrupted: the worker goes on.
Abandon(c) ==
  /\ pc[c] = "await"
  /\ IF pc[own[c]] = "boot" THEN "silentStart" \in Happens ELSE "abandon" \in Happens
  /\ Release(c)
  /\ UNCHANGED <<server, workers, op, own, res, todo, disk, live>>

\* Stop reads session.json once; all it cleans up later comes from this read
ReadState(c) ==
  /\ Goto(c, "read", IF Active THEN "signal" ELSE "reap")
  /\ own' = [own EXCEPT ![c] = disk.sess]
  /\ res' = [res EXCEPT ![c] = disk.res]
  /\ UNCHANGED <<server, lock, op, workers, todo, disk, live>>

\* SIGTERM goes to the worker's process group, so a pactl call in flight may
\* die with it. A routing call then raises, with or without its effect on the
\* server, which stays unrecorded; a listing or a cleanup call is lost.
RoutingPCs == {"discover", "plan", "mix", "mixDefault", "route", "reconcile"}

LostCall(s, next) ==
  \/ /\ pc[s] \in RoutingPCs /\ next = "term"
     /\ pending' = [pending EXCEPT ![s] = Nothing]
     /\ fail' = [fail EXCEPT ![s] = TRUE]
     /\ UNCHANGED todo
  \/ /\ pc[s] = "list" /\ next = "restore"
     /\ todo' \in {[todo EXCEPT ![s] = [Listing(s) EXCEPT !.moves = {}]],
                  [todo EXCEPT ![s] = [Listing(s) EXCEPT !.mods = {}]],
                  [todo EXCEPT ![s] = [Listing(s) EXCEPT !.dflt = FALSE]]}
     /\ UNCHANGED <<pending, fail>>
  \/ /\ pc[s] = "restore" /\ next = pc[s]
     /\ \E m \in todo[s].moves : todo' = [todo EXCEPT ![s].moves = @ \ {m}]
     /\ UNCHANGED <<pending, fail>>
  \/ /\ pc[s] = "unload" /\ next = pc[s]
     /\ \E m \in todo[s].mods : UnloadsNext(s, m) /\ todo' = [todo EXCEPT ![s].mods = @ \ {m}]
     /\ UNCHANGED <<pending, fail>>

InFlight(s, next) ==
  \/ next = pc[s] /\ UNCHANGED <<pending, fail, todo>>
  \/ "lostCall" \in Happens /\ LostCall(s, next)

\* Mutant: the signal handler writes "stopping" and requests nothing.
HandleNoStop(s) ==
  /\ wstate' = [wstate EXCEPT ![s] = "stopping"]
  /\ disk' = Record(s, "stopping", res[s])
  /\ UNCHANGED stopReq

\* _handle_stop runs in the worker.
HandleStop(s) ==
  /\ stopReq' = [stopReq EXCEPT ![s] = TRUE]
  /\ wstate' = [wstate EXCEPT ![s] = "stopping"]
  /\ disk' = Record(s, "stopping", res[s])

Signal(c) ==
  /\ pc[c] = "signal" /\ Alive(own[c])
  /\ \E next \in WorkerPCs :
       /\ InFlight(own[c], next)
       /\ pc' = [pc EXCEPT ![c] = "dying", ![own[c]] = next]
  /\ HandleStop(own[c])
  /\ UNCHANGED <<server, clients, res, live, cfg, epoch, kids, fg>>

\* Mutant: Stop signals the worker and does not wait for its end.
WorkerLeft(c) ==
  /\ pc[c] = "dying" \/ (pc[c] = "signal" /\ ~Alive(own[c]))
  /\ pc' = [pc EXCEPT ![c] = "reap"]
  /\ UNCHANGED <<server, clients, workers, res, todo, disk, live>>

\* The worker is gone, now or before it could be signalled.
WorkerGone(c) ==
  /\ pc[c] \in {"signal", "dying"} /\ ~Alive(own[c])
  /\ pc' = [pc EXCEPT ![c] = "reap"]
  /\ UNCHANGED <<server, clients, workers, res, todo, disk, live>>

\* Eight seconds pass: SIGKILL
KillWorker(c) ==
  /\ "stopDeadline" \in Happens
  /\ pc[c] = "dying" /\ Alive(own[c])
  /\ pc' = [pc EXCEPT ![c] = "reap", ![own[c]] = "dead"]
  /\ UNCHANGED <<server, clients, workers, res, todo, disk, live>>

\* Mutant: Stop leaves the processes to the worker.
ReapNothing(c) ==
  /\ Goto(c, "reap", "list")
  /\ UNCHANGED <<server, clients, workers, res, todo, disk, live>>

\* terminate_processes: those tracked in what was read, by pid and start time
Reap(c) ==
  /\ Goto(c, "reap", "list")
  /\ live' = live \ res[c].procs
  /\ UNCHANGED <<server, clients, workers, res, todo, disk>>

WriteStopped(c) ==
  /\ pc[c] = "writeStopped"
  /\ disk' = StoppedState
  /\ Release(c)
  /\ UNCHANGED <<server, workers, op, own, res, todo, live>>

-----------------------------------------------------------------------------
(* `ssh-mixer run`: no lock, no check for an active Session, no cleanup.   *)

RunForeground(s, k) ==
  /\ "foreground" \in Happens
  /\ Goto(s, "none", "boot")
  /\ cfg' = [cfg EXCEPT ![s] = k]
  /\ fg' = fg \cup {s}
  /\ UNCHANGED <<server, clients, res, todo, disk, live,
                 wstate, stopReq, fail, pending, epoch, kids>>

\* Ctrl-C in the terminal
InterruptForeground(s) ==
  /\ s \in fg /\ Alive(s) /\ pc[s] # "boot" /\ ~stopReq[s]
  /\ \E next \in WorkerPCs : InFlight(s, next) /\ pc' = [pc EXCEPT ![s] = next]
  /\ HandleStop(s)
  /\ UNCHANGED <<server, clients, res, live, cfg, epoch, kids, fg>>

-----------------------------------------------------------------------------
(* The rest of the world.                                                  *)

WorkerKilled(s) ==
  /\ "workerKill" \in Happens /\ Alive(s)
  /\ pc' = [pc EXCEPT ![s] = "dead"]
  /\ UNCHANGED <<server, clients, workers, res, todo, disk, live>>

\* The lock goes with the process that held it. (In "await": see Abandon.)
ClientKilled(c) ==
  /\ "clientKill" \in Happens
  /\ pc[c] \notin {"idle", "await"}
  /\ Release(c)
  /\ UNCHANGED <<server, workers, op, own, res, todo, disk, live>>

ToolExits ==
  /\ "toolExit" \in Happens
  /\ \E p \in live : live' = live \ {p}
  /\ UNCHANGED <<server, clients, workers, pc, res, todo, disk>>

Surroundings ==
  /\ \/ "streams" \in Happens /\ \E i \in Inputs : StreamCloses(i)
     \/ "streams" \in Happens /\ \E i \in Inputs : StreamOpens(i)
     \/ "userMoves" \in Happens /\ \E i \in Inputs, k \in Sinks : UserMoves(i, k)
     \/ "userDefault" \in Happens /\ \E k \in Sinks : UserChoosesDefault(k)
  /\ UNCHANGED <<clients, workers, pc, res, todo, disk, live>>

Cleanup(a) ==
  List(a) \/ Restore(a) \/ RestoreDone(a) \/ UnloadTracked(a) \/ UnloadDone(a) \/ RestoreDefault(a)

WorkerStep(s) ==
  \/ Boot(s) \/ Discover(s) \/ Plan(s) \/ CreateMix(s) \/ KeepDefault(s) \/ Track(s)
  \/ RouteMove(s) \/ RouteLoopback(s) \/ RouteDone(s) \/ MoveFails(s)
  \/ StartEncoder(s) \/ StartTransport(s) \/ Announce(s)
  \/ ToolExited(s) \/ Reconcile(s) \/ Refresh(s) \/ Forget(s) \/ StopSeen(s)
  \/ TermChildren(s) \/ Cleanup(s) \/ WriteFinal(s) \/ Exit(s)

ClientStep(c) ==
  \/ Guard(c) \/ Cleanup(c) \/ SweepList(c) \/ Sweep(c) \/ SweepDone(c)
  \/ Spawn(c) \/ Started(c)
  \/ ReadState(c) \/ Signal(c) \/ WorkerGone(c) \/ Reap(c) \/ WriteStopped(c)

Outside ==
  \/ Surroundings \/ ToolExits
  \/ \E s \in Sessions : \/ BootFails(s) \/ WorkerRaises(s) \/ WorkerKilled(s)
                         \/ InterruptForeground(s)
                         \/ \E k \in Configs : RunForeground(s, k)
  \/ \E c \in Clients : \/ \E o \in {"start", "stop"} : Begin(c, o)
                        \/ Abandon(c) \/ KillWorker(c) \/ ClientKilled(c)

Next ==
  \/ \E s \in Sessions : WorkerStep(s)
  \/ \E c \in Clients : ClientStep(c) \/ Refuse(c)
  \/ Outside

Spec == Init /\ [][Next]_vars

\* Processes that run keep running; nothing outside is bound to happen.
Fairness == /\ \A s \in Sessions : WF_vars(WorkerStep(s))
            /\ \A c \in Clients : WF_vars(ClientStep(c) \/ Refuse(c))

FairSpec == Spec /\ Fairness
=============================================================================
