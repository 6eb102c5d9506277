---------------------------- MODULE CrashProofs ----------------------------
(***************************************************************************)
(* Proofs about what session.json knows when a worker is killed, a command *)
(* is killed, or Stop's signal takes a pactl call with it: how much it     *)
(* misses, and what the next Stop makes of it. They are for commands that  *)
(* wait for the worker they started and whose own pactl calls succeed; the *)
(* calls of a worker may fail, also those of its cleanup. First, that Stop *)
(* finds no worker that is still starting; then the books, which miss one  *)
(* effect at a time; last the first pipeline of a Session, whose processes *)
(* they name.                                                              *)
(***************************************************************************)
EXTENDS CleanupProofs

USE ServerAssumption, SessionAssumption

\* Every worker comes from a Start that waits until the route is up, and what a
\* Start or a Stop calls to clean up succeeds.
Patient == NoBypass /\ {"abandon", "commandFails"} \cap Happens = {}

\* So a command unloads all that it lists.
LEMMA CommandCallsSucceed ==
  ASSUME Patient, NEW c \in Clients PROVE ~CallMayFail(c)
  BY ActorParts DEF Patient, CallMayFail

Ground == TypeOK /\ Serialized /\ Children /\ Accounts /\ MixNeeded

\* What is proved of such runs already.
LEMMA GroundAlways == ASSUME Patient PROVE Spec => []Ground
<1>1. NoBypass
  BY DEF Patient
<1> QED BY <1>1, TypeCorrect, WorkersAreSerialized, ChildrenAreKnown, AccountsAreKept,
           MixNeededAlways, PTL DEF Ground

\* The types of epochs and of what is written.
LEMMA MoreTypes ==
  ASSUME TypeOK
  PROVE  /\ epoch \in [Sessions -> 0 .. MaxEpochs] /\ kids \in [Sessions -> SUBSET Proc]
         /\ wstate \in [Sessions -> States] /\ own \in [Clients -> Sessions \cup {NoOne}]
         /\ op \in [Clients -> {"start", "stop"}] /\ disk \in SessionFile
         /\ MaxEpochs \in Nat \ {0}
  BY DEF TypeOK

-----------------------------------------------------------------------------
(* A Start waits for its worker until the route is up.                     *)

\* From its first write until the route is up; also while its first pipeline
\* starts, but not a later one.
Starting(s) ==
  \/ pc[s] \in {"discover", "plan", "mix", "mixDefault", "route", "announce"}
  \/ pc[s] = "encoder" /\ epoch[s] = 0
  \/ pc[s] = "transport" /\ epoch[s] = 1

StartIsAwaited ==
  \A s \in Sessions : Starting(s) =>
    /\ \E c \in Clients : pc[c] = "await" /\ own[c] = s
    /\ disk.st = "starting" /\ wstate[s] = "starting"

\* A worker that has come to its loop has started a pipeline.
EpochsCounted ==
  \A s \in Sessions :
    /\ pc[s] = "transport" => epoch[s] > 0
    /\ pc[s] \in {"announce", "wait", "reconcile", "refresh"} /\ cfg[s].dest # "local" =>
         epoch[s] > 0

Awaited == StartIsAwaited /\ EpochsCounted

\* Meanwhile no other command is at work, and this one does nothing.
LEMMA StartingWaits ==
  ASSUME Ground, StartIsAwaited, NEW s \in Sessions, Starting(s) \/ pc[s] = "boot",
         NEW c \in Clients
  PROVE  /\ pc[c] \in {"idle", "await"} /\ lock # NoOne
         /\ ~ClientStep(c) /\ ~Refuse(c)
<1> USE ActorParts DEF Ground
<1>1. PICK d \in Clients : pc[d] = "await" /\ own[d] = s
  BY DEF StartIsAwaited, Serialized, BootIsAwaited
<1>2. lock = d /\ pc[c] \in {"idle", "await"} /\ (pc[c] = "await" => own[c] = s)
  BY <1>1 DEF Serialized, BusyHoldsLock
<1>3. Alive(s) /\ ~(disk.sess = s /\ disk.st \in {"streaming", "local", "error"})
  BY DEF Alive, Starting, StartIsAwaited, Serialized, BootIsUnwritten
<1>4. ~ClientStep(c) /\ ~Refuse(c)
  BY <1>2, <1>3 DEF ClientStep, Refuse, Guard, Cleanup, List, Restore, RestoreDone, UnloadTracked,
     UnloadDone, RestoreDefault, SweepList, Sweep, SweepDone, Spawn, Started, ReadState, Signal,
     WorkerGone, Reap, WriteStopped, CleanupPCs, Goto
<1> QED BY <1>2, <1>4

\* A worker changes nothing in a command.
LEMMA WorkerKeepsClients ==
  ASSUME NEW s \in Sessions, WorkerStep(s) \/ WorkerRaises(s) PROVE UNCHANGED clients
<1>1. CASE \/ Boot(s) \/ Discover(s) \/ Plan(s) \/ CreateMix(s) \/ KeepDefault(s) \/ Track(s)
           \/ RouteMove(s) \/ RouteLoopback(s) \/ RouteDone(s) \/ MoveFails(s) \/ WorkerRaises(s)
  BY <1>1 DEF Boot, Discover, Plan, CreateMix, KeepDefault, Track, RouteMove, RouteLoopback,
     RouteDone, MoveFails, WorkerRaises, Raise
<1>2. CASE \/ StartEncoder(s) \/ StartTransport(s) \/ Announce(s) \/ ToolExited(s) \/ Reconcile(s)
           \/ Refresh(s) \/ Forget(s) \/ StopSeen(s) \/ TermChildren(s) \/ Cleanup(s)
           \/ WriteFinal(s) \/ Exit(s)
  BY <1>2 DEF StartEncoder, StartTransport, Announce, ToolExited, Reconcile, Refresh, Forget,
     StopSeen, TermChildren, Cleanup, List, Restore, RestoreDone, UnloadTracked, UnloadDone,
     RestoreDefault, WriteFinal, Exit
<1> QED BY <1>1, <1>2 DEF WorkerStep

\* While one worker acts the others rest.
LEMMA OthersRest ==
  ASSUME Ground, NEW s \in Sessions, WorkerActs(s), NEW t \in Sessions \ {s}
  PROVE  /\ pc[t] \in {"none", "exiting", "done", "dead"} /\ pc'[t] = pc[t]
         /\ res'[t] = res[t] /\ todo'[t] = todo[t] /\ pending'[t] = pending[t]
         /\ ~Engaged(t) /\ ~Starting(t) /\ ~Starting(t)'
<1>1. ~Engaged(t)
  BY AtMostOne DEF Ground, OneWorker, WorkerActs
<1>2. pc[t] \in {"none", "exiting", "done", "dead"}
  BY <1>1 DEF Engaged, Alive
<1> QED BY <1>1, <1>2, ActorParts DEF WorkerActs, ActsAlone, Starting

\* A worker's step: it stays awaited, and its first write says "starting".
LEMMA WorkerAwaited ==
  ASSUME Ground, Awaited, NEW s \in Sessions, WorkerActs(s) PROVE Awaited'
<1> USE ActorParts, FieldTypes, MoreTypes DEF Goto, Ground
<1>1. UNCHANGED own /\ \A c \in Clients : pc'[c] = pc[c]
  BY WorkerKeepsClients DEF WorkerActs, ActsAlone, clients
<1>2. SUFFICES /\ Starting(s)' => /\ Starting(s) \/ pc[s] = "boot"
                                  /\ disk'.st = "starting" /\ wstate'[s] = "starting"
               /\ pc'[s] = "transport" => epoch'[s] > 0
               /\ pc'[s] \in {"announce", "wait", "reconcile", "refresh"} /\ cfg[s].dest # "local"
                    => epoch'[s] > 0
  <2>1. StartIsAwaited'
    BY <1>1, <1>2, OthersRest DEF Awaited, StartIsAwaited, Serialized, BootIsAwaited
  <2>2. EpochsCounted'
    BY <1>2, OthersRest DEF EpochsCounted, WorkerActs, ActsAlone
  <2> QED BY <2>1, <2>2 DEF Awaited
<1>3. Starting(s) => disk.st = "starting" /\ wstate[s] = "starting"
  BY DEF Awaited, StartIsAwaited
<1>4. EpochsCounted /\ MixMade(s)
  BY DEF Awaited, Accounts, Account
<1>5. CASE Boot(s) \/ Plan(s) \/ Track(s)
  BY <1>3, <1>4, <1>5 DEF Boot, Plan, Track, TrackingPCs, Record, Starting, EpochsCounted
<1>6. CASE \/ Discover(s) \/ CreateMix(s) \/ KeepDefault(s) \/ RouteMove(s) \/ RouteLoopback(s)
           \/ RouteDone(s)
  BY <1>3, <1>4, <1>6 DEF Discover, CreateMix, KeepDefault, RouteMove, RouteLoopback, RouteDone,
     workers, Starting, EpochsCounted, MixMade
<1>7. CASE StartEncoder(s) \/ StartTransport(s)
  BY <1>3, <1>4, <1>7 DEF StartEncoder, StartTransport, Starting, EpochsCounted
<1>8. CASE \/ Announce(s) \/ ToolExited(s) \/ Reconcile(s) \/ Refresh(s) \/ StopSeen(s)
           \/ TermChildren(s) \/ MoveFails(s) \/ WorkerRaises(s) \/ WriteFinal(s) \/ Exit(s)
  BY <1>4, <1>8 DEF Announce, ToolExited, Reconcile, Refresh, StopSeen, TermChildren, MoveFails,
     WorkerRaises, Raise, WriteFinal, Exit, Polling, workers, Starting, EpochsCounted
<1>9. CASE Forget(s)
  BY <1>4, <1>9 DEF Forget, Starting, EpochsCounted, MixMade
<1>10. CASE Cleanup(s)
  BY <1>10 DEF Cleanup, List, Restore, RestoreDone, UnloadTracked, UnloadDone, RestoreDefault,
     AfterCleanup, Starting
<1> QED BY <1>5, <1>6, <1>7, <1>8, <1>9, <1>10 DEF WorkerActs, WorkerStep

\* A step that lets no worker go on, while nobody starts.
StartsNothing ==
  /\ epoch' = epoch
  /\ \A s \in Sessions : \/ pc'[s] = pc[s] /\ cfg'[s] = cfg[s]
                         \/ pc'[s] \in {"boot", "term", "restore", "done", "dead"}

\* With no worker starting, a step that starts none leaves nothing to wait for.
LEMMA NothingAwaited ==
  ASSUME EpochsCounted, StartsNothing, \A s \in Sessions : ~Starting(s) PROVE Awaited'
<1>1. \A s \in Sessions : ~Starting(s)'
  BY DEF StartsNothing, Starting
<1>2. EpochsCounted'
  BY DEF StartsNothing, EpochsCounted
<1> QED BY <1>1, <1>2 DEF Awaited, StartIsAwaited

\* A command's step starts a worker only when none is starting.
LEMMA ClientAwaited ==
  ASSUME Ground, Awaited, NEW c \in Clients, ClientStep(c) \/ Refuse(c) PROVE Awaited'
<1> USE ActorParts, FieldTypes DEF Goto, Ground
<1>1. \A s \in Sessions : ~Starting(s)
  BY StartingWaits DEF Awaited
<1>2. StartsNothing
  <2>1. CASE Spawn(c)
    <3>1. PICK s \in Sessions, k \in Configs :
            /\ pc' = [pc EXCEPT ![c] = "await", ![s] = "boot"] /\ cfg' = [cfg EXCEPT ![s] = k]
      BY <2>1 DEF Spawn
    <3>2. \A t \in Sessions : pc'[t] = IF t = s THEN "boot" ELSE pc[t]
      BY <3>1
    <3> QED BY <2>1, <3>1, <3>2 DEF Spawn, StartsNothing
  <2>2. CASE Signal(c)
    <3>1. PICK x : InFlight(own[c], x) /\ pc' = [pc EXCEPT ![c] = "dying", ![own[c]] = x]
      BY <2>2 DEF Signal
    <3>2. own[c] \in Sessions /\ UNCHANGED <<cfg, epoch>>
      BY <2>2 DEF Signal, Alive
    <3>3. \A t \in Sessions : pc'[t] = IF t = own[c] THEN x ELSE pc[t]
      BY <3>1, <3>2
    <3> QED BY <3>1, <3>2, <3>3, InFlightMoves DEF StartsNothing
  <2>3. CASE \/ Guard(c) \/ Cleanup(c) \/ SweepList(c) \/ Sweep(c) \/ SweepDone(c) \/ Started(c)
             \/ ReadState(c) \/ WorkerGone(c) \/ Reap(c) \/ WriteStopped(c) \/ Refuse(c)
    <3>1. UNCHANGED <<cfg, epoch>>
      BY <2>3 DEF Guard, Cleanup, List, Restore, RestoreDone, UnloadTracked, UnloadDone,
         RestoreDefault, SweepList, Sweep, SweepDone, Started, ReadState, WorkerGone, Reap,
         WriteStopped, Refuse, workers
    <3>2. \A s \in Sessions : pc'[s] = pc[s]
      BY <2>3 DEF Guard, Cleanup, List, Restore, RestoreDone, UnloadTracked, UnloadDone,
         RestoreDefault, SweepList, Sweep, SweepDone, Started, ReadState, WorkerGone, Reap,
         WriteStopped, Refuse, Release
    <3> QED BY <3>1, <3>2 DEF StartsNothing
  <2> QED BY <2>1, <2>2, <2>3 DEF ClientStep
<1> QED BY <1>1, <1>2, NothingAwaited DEF Awaited

\* What happens outside takes no command away from the worker it waits for.
LEMMA OutsideAwaited ==
  ASSUME Patient, Ground, Awaited, Outside, \A s \in Sessions : ~WorkerRaises(s)
  PROVE  Awaited'
<1> USE ActorParts, FieldTypes DEF Goto, Ground
<1>1. ASSUME UNCHANGED <<disk, wstate, epoch, cfg, own>>,
             \A s \in Sessions : pc'[s] \in {pc[s], "done", "dead"},
             \A c \in Clients : pc[c] = "await" => pc'[c] = "await"
      PROVE  Awaited'
  <2>1. \A s \in Sessions : Starting(s)' => Starting(s)
    BY <1>1 DEF Starting
  <2>2. StartIsAwaited'
    BY <1>1, <2>1 DEF Awaited, StartIsAwaited
  <2>3. EpochsCounted'
    BY <1>1 DEF Awaited, EpochsCounted
  <2> QED BY <2>2, <2>3 DEF Awaited
<1>2. CASE Surroundings \/ ToolExits
  BY <1>1, <1>2 DEF Surroundings, ToolExits, clients, workers
<1>3. ASSUME NEW s \in Sessions, BootFails(s) \/ WorkerKilled(s) PROVE Awaited'
  BY <1>1, <1>3 DEF BootFails, WorkerKilled, clients, workers
<1>4. \A s \in Sessions : ~InterruptForeground(s) /\ \A k \in Configs : ~RunForeground(s, k)
  BY DEF InterruptForeground, RunForeground, NoBypass, Patient, Serialized
<1>5. ASSUME NEW c \in Clients, NEW o \in {"start", "stop"}, Begin(c, o) PROVE Awaited'
  BY <1>1, <1>5 DEF Begin, clients, workers
<1>6. \A c \in Clients : ~Abandon(c)
  BY DEF Abandon, Patient, NoBypass
<1>7. ASSUME NEW c \in Clients, ClientKilled(c) PROVE Awaited'
  BY <1>1, <1>7 DEF ClientKilled, Release, clients, workers
<1>8. ASSUME NEW c \in Clients, KillWorker(c) PROVE Awaited'
  <2>1. own[c] \in Sessions /\ pc' = [pc EXCEPT ![c] = "reap", ![own[c]] = "dead"]
    BY <1>8 DEF KillWorker, Alive
  <2>2. \A t \in Sessions : pc'[t] = IF t = own[c] THEN "dead" ELSE pc[t]
    BY <2>1
  <2>3. \A d \in Clients : pc[d] = "await" => pc'[d] = "await"
    BY <1>8, <2>1 DEF KillWorker
  <2> QED BY <1>1, <1>8, <2>2, <2>3 DEF KillWorker, clients, workers
<1> QED BY <1>2, <1>3, <1>4, <1>5, <1>6, <1>7, <1>8 DEF Outside

\* Whatever is killed or lost, a Stop finds no worker that is still starting.
LEMMA StartsAreAwaited == ASSUME Patient PROVE Spec => []Awaited
<1>1. Init => Awaited
  BY DEF Init, Awaited, StartIsAwaited, EpochsCounted, Starting, Actors
<1>2. Ground /\ Awaited /\ UNCHANGED vars => Awaited'
  BY DEF vars, clients, workers, Awaited, StartIsAwaited, EpochsCounted, Starting
<1>3. ASSUME Ground, Awaited, NEW s \in Sessions, Exit(s) PROVE Awaited'
  <2>1. /\ UNCHANGED <<disk, wstate, epoch, cfg, own>> /\ \A c \in Clients : pc'[c] = pc[c]
        /\ \A t \in Sessions : pc'[t] = IF t = s THEN "done" ELSE pc[t]
    BY <1>3, ActorParts, FieldTypes DEF Exit, Goto, Ground, clients, workers
  <2>2. \A t \in Sessions : Starting(t)' => Starting(t)
    BY <2>1 DEF Starting
  <2> QED BY <1>3, <2>1, <2>2 DEF Awaited, StartIsAwaited, EpochsCounted
<1>4. Ground /\ Awaited /\ Next => Awaited'
  BY <1>3, WorkerActsOrExits, WorkerAwaited, ClientAwaited, OutsideAwaited DEF Next, Ground, Exit
<1>5. Ground /\ Awaited /\ [Next]_vars => Awaited'
  BY <1>2, <1>4
<1> QED BY <1>1, <1>5, GroundAlways, PTL DEF Spec

-----------------------------------------------------------------------------
(* What session.json knows of the modules and the streams.                 *)

\* The worker session.json names, until it exits, and what it wrote there.
Told(s) == Alive(s) /\ pc[s] # "boot" /\ disk.sess = s

Recorded(s) ==
  Told(s) => /\ disk.cap = (cfg[s].caps # {})
             /\ \/ disk.res.mix = res[s].mix
                \/ pc[s] = "mixDefault" /\ ~Settled(s)
             /\ disk.res.mods \subseteq res[s].mods /\ disk.res.moved \subseteq res[s].moved

\* One effect at a time is not recorded yet, and while a worker routes all the
\* others are.
OnePending(s) == /\ \A m, n \in pending[s].mods : m = n
                 /\ \A m, n \in pending[s].moved : m = n

AllButPending(s) ==
  pc[s] \in Routing =>
    /\ ModulesOf(s) \subseteq disk.res.mods \cup pending[s].mods
    /\ \A i \in Inputs : at[i] = Mix => \E m \in disk.res.moved \cup pending[s].moved : m.input = i

Window(s) ==
  disk.sess = s => /\ \A m, n \in ModulesOf(s) \ disk.res.mods : m = n
                   /\ \A i, j \in Inputs : Stray(i) /\ Stray(j) => i = j

\* A new worker finds the server without any module of an earlier one.
Clearing == {"boot", "discover", "plan", "mix"}
Clear(s) == pc[s] \in Clearing => modules = {}

BookOf(s) == Recorded(s) /\ OnePending(s) /\ AllButPending(s) /\ Window(s) /\ Clear(s)

\* A module is of the Session in session.json, or left by Stop because the
\* worker died as it made the Mix; a loopback is never left.
Owned    == \A m \in modules : disk.sess \in {m.owner, NoOne}
Reported == \A m \in modules : m.kind # "null" =>
              /\ disk.sess = m.owner /\ disk.res.mix
              /\ m.kind = "input" => disk.cap
Backed   == \A m \in modules :
              \/ disk.res.mix
              \/ pc[m.owner] \in {"mixDefault", "dead"} /\ pending[m.owner] # Nothing
Blank    == disk.sess = NoOne => disk.res.mix = FALSE

Holdings == Owned /\ Reported /\ Backed /\ Blank
Books    == Holdings /\ \A s \in Sessions : BookOf(s)

\* A step that writes nothing, loads nothing and moves nothing to the Mix.
Unnoticed ==
  /\ UNCHANGED <<disk, pending>> /\ modules' \subseteq modules
  /\ \A i \in Inputs : at'[i] = Mix => at[i] = Mix
  /\ \A s \in Sessions :
       /\ res'[s] = res[s]
       /\ \/ pc'[s] = pc[s] /\ cfg'[s] = cfg[s]
          \/ pc'[s] = "dead" \/ (pc[s] \in {"boot", "exiting"} /\ pc'[s] = "done")
          \/ pc[s] = "none" /\ pc'[s] = "boot" /\ modules = {}
          \/ /\ pc[s] \in {"term"} \cup CleanupPCs /\ pc'[s] \in CleanupPCs \cup {"final"}
             /\ cfg'[s] = cfg[s]

\* A step that session.json has nothing to know of keeps the books.
LEMMA UnnoticedBooks == ASSUME TypeOK, Books, Unnoticed PROVE Books'
<1> USE DEF Unnoticed
<1>1. Holdings'
  <2>1. \A m \in modules : m.owner \in Sessions
    BY DEF TypeOK, ServerTypeOK, Module
  <2>2. Owned' /\ Reported' /\ Blank'
    BY DEF Books, Holdings, Owned, Reported, Blank
  <2>3. Backed'
    BY <2>1 DEF Books, Holdings, Backed, CleanupPCs
  <2> QED BY <2>2, <2>3 DEF Holdings
<1>2. ASSUME NEW s \in Sessions PROVE BookOf(s)'
  <2>1. /\ res'[s] = res[s] /\ pending' = pending /\ disk' = disk
        /\ ModulesOf(s)' \subseteq ModulesOf(s) /\ BookOf(s)
    BY DEF ModulesOf, Books
  <2>2. Recorded(s)'
    BY <2>1 DEF BookOf, Recorded, Told, Alive, Settled, CleanupPCs
  <2>3. OnePending(s)'
    BY <2>1 DEF BookOf, OnePending
  <2>4. AllButPending(s)'
    BY <2>1 DEF BookOf, AllButPending, Routing, CleanupPCs
  <2>5. Window(s)'
    BY <2>1 DEF BookOf, Window, Stray
  <2>6. Clear(s)'
    BY <2>1 DEF BookOf, Clear, Clearing, CleanupPCs
  <2> QED BY <2>2, <2>3, <2>4, <2>5, <2>6 DEF BookOf
<1> QED BY <1>1, <1>2 DEF Books

\* Only this worker has something to lose by the step.
Sole(s) ==
  \A t \in Sessions \ {s} : /\ ~Engaged(t) /\ pc'[t] = pc[t] /\ pending'[t] = pending[t]
                            /\ res'[t] = res[t]

\* What the books say of the other workers then.
LEMMA SoleBooks ==
  ASSUME Books, NEW s \in Sessions, Sole(s), disk' = disk \/ disk'.sess = s,
         disk'.sess \in {disk.sess, s}, disk.sess = s \/ disk'.sess = s,
         NEW t \in Sessions \ {s}
  PROVE  BookOf(t)'
<1>1. pc'[t] \in {"none", "exiting", "done", "dead"} /\ pending'[t] = pending[t] /\ disk'.sess # t
  BY DEF Sole, Engaged, Alive
<1>2. OnePending(t)'
  BY <1>1 DEF Books, BookOf, OnePending
<1> QED BY <1>1, <1>2 DEF BookOf, Recorded, Told, AllButPending, Routing, Window, Clear, Clearing

\* A worker that writes nothing and changes nothing on the server.
LEMMA QuietBooks ==
  ASSUME Ground, Books, NEW s \in Sessions, Sole(s), Told(s),
         UNCHANGED <<disk, modules, at, cfg>>,
         res'[s].mix = res[s].mix /\ res'[s].mods = res[s].mods /\ res'[s].moved = res[s].moved,
         pending'[s].mods = pending[s].mods /\ pending'[s].moved = pending[s].moved,
         pc'[s] \in Routing => pc[s] \in Routing,
         pc'[s] \in Clearing => pc[s] \in Clearing,
         pc[s] = "mixDefault" => Settled(s), pc'[s] # "mixDefault"
  PROVE  Books'
<1>1. \A t \in Sessions \ {s} : BookOf(t)'
  BY SoleBooks DEF Told
<1>2. BookOf(s)
  BY DEF Books
<1>3. Holdings'
  <2>1. \A m \in modules : m.owner \in Sessions
    BY DEF Ground, TypeOK, ServerTypeOK, Module
  <2>2. Owned' /\ Reported' /\ Blank'
    BY DEF Books, Holdings, Owned, Reported, Blank
  <2>3. Backed'
    BY <2>1 DEF Books, Holdings, Backed, Sole, Told, Alive, Settled
  <2> QED BY <2>2, <2>3 DEF Holdings
<1>4. Recorded(s)'
  BY <1>2 DEF BookOf, Recorded, Told
<1>5. OnePending(s)'
  BY <1>2 DEF BookOf, OnePending
<1>6. AllButPending(s)'
  BY <1>2 DEF BookOf, AllButPending, ModulesOf
<1>7. Window(s)' /\ Clear(s)'
  BY <1>2 DEF BookOf, Window, Stray, ModulesOf, Clear
<1> QED BY <1>1, <1>3, <1>4, <1>5, <1>6, <1>7 DEF Books, BookOf

\* What a worker's modules say of it.
LEMMA ToldModules ==
  ASSUME Ground, Books, NEW s \in Sessions, Told(s), NEW m \in modules
  PROVE  m.owner = s /\ res[s].mix
<1>1. m.owner = s
  BY DEF Books, Holdings, Owned, Told, Actors
<1>2. CASE pc[s] = "mixDefault"
  BY <1>1, <1>2 DEF Ground, Accounts, Account, MixMade, Routing
<1>3. CASE pc[s] # "mixDefault"
  BY <1>1, <1>3 DEF Books, Holdings, Backed, BookOf, Recorded, Told, Alive
<1> QED BY <1>1, <1>2, <1>3

\* A worker's write, which keeps what session.json knew and what is not
\* recorded yet.
LEMMA WriteBooks ==
  ASSUME Ground, Books, NEW s \in Sessions, Sole(s), Told(s),
         NEW st, NEW r \in Resources, disk' = Record(s, st, r), res'[s] = r,
         UNCHANGED <<modules, at, cfg>>,
         r.mix = res[s].mix, res[s].mods \subseteq r.mods, res[s].moved \subseteq r.moved,
         pending'[s].mods \subseteq pending[s].mods, pending'[s].moved \subseteq pending[s].moved,
         pc'[s] \in Routing => /\ pc[s] \in Routing
                               /\ pending[s].mods \subseteq r.mods \cup pending'[s].mods
                               /\ pending[s].moved \subseteq r.moved \cup pending'[s].moved,
         pc'[s] \notin Clearing
  PROVE  Books'
<1>1. disk'.sess = s /\ disk'.res = r /\ disk'.cap = (cfg[s].caps # {}) /\ disk.sess = s
  BY DEF Record, Told
<1>2. \A t \in Sessions \ {s} : BookOf(t)'
  BY <1>1, SoleBooks
<1>3. BookOf(s) /\ Recorded(s) /\ OnePending(s)
  BY DEF Books, BookOf
<1>4. Holdings'
  <2>1. Owned' /\ Backed' /\ Blank'
    BY <1>1, ToldModules DEF Owned, Backed, Blank, Actors
  <2>2. Reported'
    BY <1>1, <1>3, ToldModules DEF Reported, Books, Holdings, Recorded
  <2> QED BY <2>1, <2>2 DEF Holdings
<1>5. disk.res.mods \subseteq r.mods /\ disk.res.moved \subseteq r.moved
  BY <1>3 DEF Recorded
<1>6. Recorded(s)' /\ OnePending(s)' /\ Clear(s)'
  BY <1>1, <1>3 DEF Recorded, OnePending, Clear
<1>7. AllButPending(s)'
  BY <1>1, <1>3, <1>5 DEF BookOf, AllButPending, ModulesOf
<1>8. Window(s)'
  <2>1. ModulesOf(s)' = ModulesOf(s) /\ \A i \in Inputs : Stray(i)' => Stray(i)
    BY <1>1, <1>5 DEF ModulesOf, Stray
  <2> QED BY <1>1, <1>3, <1>5, <2>1 DEF BookOf, Window
<1> QED BY <1>2, <1>4, <1>6, <1>7, <1>8 DEF Books, BookOf

\* As long as there is no module at all, session.json misses nothing.
LEMMA EmptyBooks ==
  ASSUME Ground, Books, NEW s \in Sessions, Sole(s), modules = {},
         NEW st, disk' = Record(s, st, res'[s]), UNCHANGED <<modules, at, cfg>>,
         OnePending(s)'
  PROVE  Books'
<1>1. disk'.sess = s /\ disk'.res = res'[s] /\ disk'.cap = (cfg[s].caps # {})
  BY DEF Record
<1>2. \A t \in Sessions \ {s} : BookOf(t)'
  BY <1>1, SoleBooks
<1>3. ModulesOf(s)' = {} /\ \A i \in Inputs : at'[i] # Mix
  BY DEF ModulesOf, Ground, MixNeeded, MixExists
<1>4. Holdings'
  BY <1>1 DEF Holdings, Owned, Reported, Backed, Blank, Actors
<1>5. BookOf(s)'
  BY <1>1, <1>3 DEF BookOf, Recorded, AllButPending, Window, Stray, Clear
<1> QED BY <1>2, <1>4, <1>5 DEF Books

\* Cleaning up only unloads modules and takes streams off the Mix.
LEMMA CleanupRemoves ==
  ASSUME TypeOK, NEW a \in Actors, Cleanup(a) \/ (a \in Clients /\ Sweep(a))
  PROVE  /\ modules' \subseteq modules /\ \A i \in Inputs : at'[i] = Mix => at[i] = Mix
         /\ UNCHANGED <<disk, res, pending, cfg>>
<1>1. CASE UnloadTracked(a) \/ (a \in Clients /\ Sweep(a))
  <2>1. UnloadNext(a) /\ UNCHANGED <<disk, res, pending, cfg>>
    BY <1>1 DEF UnloadTracked, Sweep, workers
  <2>2. \A i \in Inputs : at'[i] = Mix => at[i] = Mix
    <3>1. CASE UNCHANGED server
      BY <3>1 DEF server
    <3>2. CASE \E m \in modules : Unload(m)
      BY <3>2, FieldTypes DEF Unload, Mix
    <3> QED BY <2>1, <3>1, <3>2 DEF UnloadNext
  <2> QED BY <2>1, <2>2, UnloadNextModules
<1>2. CASE Restore(a)
  <2>1. UNCHANGED <<disk, res, pending, cfg>>
    BY <1>2 DEF Restore, workers
  <2>2. CASE UNCHANGED server
    BY <2>1, <2>2 DEF server
  <2>3. CASE \E m \in todo[a].moves : m.from \in Sinks /\ MoveInput(m.input, m.from)
    BY <2>1, <2>3, Mix \notin Sinks, FieldTypes DEF MoveInput, TypeOK, ServerTypeOK
  <2> QED BY <1>2, <2>2, <2>3 DEF Restore
<1>3. CASE List(a) \/ RestoreDone(a) \/ UnloadDone(a) \/ RestoreDefault(a)
  BY <1>3 DEF List, RestoreDone, UnloadDone, RestoreDefault, SetDefault, server, workers
<1> QED BY <1>1, <1>2, <1>3 DEF Cleanup

\* Loading the Mix: the first effect of a worker.
LEMMA MayMakeMix ==
  ASSUME Ground, Books, NEW s \in Sessions, Sole(s), Told(s), CreateMix(s) PROVE Books'
<1> USE ActorParts, FieldTypes, MoreTypes DEF Goto, Ground
<1>1. /\ modules = {} /\ \A i \in Inputs : at[i] # Mix
      /\ pc[s] = "mix" /\ pc'[s] = "mixDefault" /\ UNCHANGED <<disk, cfg>> /\ s # NoOne
  BY DEF CreateMix, Books, BookOf, Clear, Clearing, MixNeeded, MixExists, Actors
<1>2. /\ modules' = {NullSink(s)} /\ at' = at
      /\ pending' = [pending EXCEPT ![s].mods = {NullSink(s)}]
      /\ res' = [res EXCEPT ![s].mix = TRUE]
  BY <1>1 DEF CreateMix, MixExists, LoadNullSink
<1>3. /\ pending'[s].mods = {NullSink(s)} /\ pending'[s].moved = pending[s].moved
      /\ res'[s].mods = res[s].mods /\ res'[s].moved = res[s].moved
  BY <1>2 DEF Untracked, Resources
<1>4. pending'[s] # Nothing
  <2>1. Nothing.mods = {} /\ {NullSink(s)} # {}
    BY DEF Nothing
  <2> QED BY <1>3, <2>1
<1>5. NullSink(s).owner = s /\ NullSink(s).kind = "null" /\ disk.sess = s
  BY DEF NullSink, Told
<1>6. Holdings'
  <2>1. Owned' /\ Reported' /\ Blank'
    BY <1>1, <1>2, <1>5 DEF Owned, Reported, Blank
  <2>2. Backed'
    BY <1>1, <1>2, <1>4, <1>5 DEF Backed
  <2> QED BY <2>1, <2>2 DEF Holdings
<1>7. BookOf(s)
  BY DEF Books
<1>8. Recorded(s)'
  BY <1>1, <1>3, <1>4, <1>7 DEF BookOf, Recorded, Told, Settled
<1>9. OnePending(s)'
  BY <1>3, <1>7 DEF BookOf, OnePending
<1>10. AllButPending(s)' /\ Window(s)' /\ Clear(s)'
  BY <1>1, <1>2, <1>3 DEF AllButPending, Window, Stray, Clear, Clearing, ModulesOf
<1>11. \A t \in Sessions \ {s} : BookOf(t)'
  BY <1>1, <1>5, SoleBooks
<1> QED BY <1>6, <1>8, <1>9, <1>10, <1>11 DEF Books, BookOf

\* A move or a loopback: the one effect that session.json does not know yet.
LEMMA MayRoute ==
  ASSUME Ground, Books, NEW s \in Sessions, Sole(s), Told(s), RouteMove(s) \/ RouteLoopback(s)
  PROVE  Books'
<1> USE ActorParts, FieldTypes, MoreTypes DEF Goto, Ground
<1>1. /\ pc[s] \in {"route", "reconcile"} /\ pc' = pc /\ res' = res /\ UNCHANGED <<disk, cfg>>
      /\ pending[s] = Nothing /\ s # NoOne /\ disk.sess = s
  BY DEF RouteMove, RouteLoopback, Settled, Told, Actors
<1>2. BookOf(s) /\ \A t \in Sessions \ {s} : BookOf(t)'
  BY <1>1, SoleBooks DEF Books
<1>3. /\ ModulesOf(s) \subseteq disk.res.mods
      /\ \A i \in Inputs : at[i] = Mix => \E m \in disk.res.moved : m.input = i
  BY <1>1, <1>2 DEF BookOf, AllButPending, Routing, Nothing
<1>4. Recorded(s)' /\ Clear(s)'
  BY <1>1, <1>2 DEF BookOf, Recorded, Told, Clear, Clearing
<1>5. disk.res.mix = res[s].mix /\ disk.cap = (cfg[s].caps # {}) /\ res[s].mix
  <2>1. res[s].mix
    BY <1>1 DEF Accounts, Account, MixMade, Routing
  <2>2. disk.res.mix = res[s].mix /\ disk.cap = (cfg[s].caps # {})
    BY <1>1, <1>2 DEF BookOf, Recorded, Told
  <2> QED BY <2>1, <2>2
<1>6. CASE RouteMove(s)
  <2>1. PICK m \in todo[s].moves :
          /\ at' = [at EXCEPT ![m.input] = Mix] /\ modules' = modules
          /\ pending' = [pending EXCEPT ![s].moved = {m}]
    BY <1>6 DEF RouteMove, MoveInput
  <2>2. m.input \in Inputs /\ at \in [Inputs -> Sinks \cup {Mix, NotYet, Gone}]
    <3>1. m \in Move
      BY DEF Todo
    <3> QED BY <3>1 DEF Move, TypeOK, ServerTypeOK
  <2>3. /\ pending'[s].moved = {m} /\ pending'[s].mods = {}
        /\ \A i \in Inputs : at'[i] = IF i = m.input THEN Mix ELSE at[i]
    BY <1>1, <2>1, <2>2 DEF Untracked, Nothing
  <2>4. Holdings'
    <3>1. \A n \in modules : n.owner = s
      BY ToldModules
    <3> QED BY <1>1, <2>1, <3>1 DEF Books, Holdings, Owned, Reported, Backed, Blank
  <2>5. OnePending(s)'
    BY <2>3 DEF OnePending
  <2>6. AllButPending(s)'
    BY <1>1, <1>3, <2>1, <2>3 DEF AllButPending, ModulesOf
  <2>7. \A i \in Inputs : Stray(i)' => i = m.input
    BY <1>1, <1>3, <2>3 DEF Stray
  <2>8. Window(s)'
    BY <1>1, <1>3, <2>1, <2>7 DEF Window, ModulesOf
  <2> QED BY <1>2, <1>4, <2>4, <2>5, <2>6, <2>8 DEF Books, BookOf
<1>7. CASE RouteLoopback(s)
  <2>1. PICK m \in todo[s].mods :
          /\ modules' = modules \cup {m} /\ at' = at
          /\ pending' = [pending EXCEPT ![s].mods = {m}]
    BY <1>7 DEF RouteLoopback, LoadLoopback
  <2>2. m.owner = s /\ m.kind # "null" /\ (m.kind = "input" => cfg[s].caps # {})
    BY <1>1 DEF Accounts, Account, OwnLoads
  <2>3. pending'[s].mods = {m} /\ pending'[s].moved = {}
    BY <1>1, <2>1 DEF Untracked, Nothing
  <2>4. Owned' /\ Blank' /\ Backed'
    BY <1>1, <1>5, <2>1, <2>2 DEF Books, Holdings, Owned, Backed, Blank
  <2>5. Reported'
    BY <1>1, <1>5, <2>1, <2>2 DEF Books, Holdings, Reported
  <2>6. OnePending(s)'
    BY <2>3 DEF OnePending
  <2>7. AllButPending(s)'
    BY <1>1, <1>3, <2>1, <2>3 DEF AllButPending, ModulesOf
  <2>8. Window(s)'
    BY <1>1, <1>2, <1>3, <2>1 DEF BookOf, Window, Stray, ModulesOf
  <2> QED BY <1>2, <1>4, <2>4, <2>5, <2>6, <2>7, <2>8 DEF Books, BookOf, Holdings
<1> QED BY <1>6, <1>7

\* What _track_module, _track_move and _track_process write.
LEMMA TrackWrites ==
  ASSUME TypeOK, NEW s \in Sessions, Track(s)
  PROVE  \E r \in Resources :
           /\ disk' = Record(s, wstate[s], r) /\ res'[s] = r
           /\ r.mix = res[s].mix /\ res[s].mods \cup pending[s].mods \subseteq r.mods
           /\ res[s].moved \cup pending[s].moved \subseteq r.moved
<1> USE ActorParts, FieldTypes
<1> DEFINE r(q) == [res[s] EXCEPT !.moved = @ \cup pending[s].moved,
                                  !.mods = @ \cup pending[s].mods, !.procs = @ \cup q]
<1>1. PICK q : res' = [res EXCEPT ![s] = r(q)] /\ disk' = Record(s, wstate[s], r(q))
  BY DEF Track
<1>2. /\ r(q).mix = res[s].mix /\ r(q).mods = res[s].mods \cup pending[s].mods
      /\ r(q).moved = res[s].moved \cup pending[s].moved
  BY DEF Resources
<1>3. res'[s] \in Resources
  <2>1. TypeOK'
    BY WorkerType DEF WorkerStep
  <2> QED BY <2>1 DEF TypeOK
<1>4. res'[s] = r(q)
  BY <1>1
<1> HIDE DEF r
<1> QED BY <1>1, <1>2, <1>3, <1>4

\* A worker's step keeps the books.
LEMMA WorkerBooks ==
  ASSUME Ground, Books, NEW s \in Sessions, WorkerActs(s) PROVE Books'
<1> USE ActorParts, FieldTypes, MoreTypes DEF Goto, Ground
<1>1. Sole(s) /\ cfg' = cfg /\ BookOf(s)
  BY OthersRest DEF Sole, WorkerActs, ActsAlone, Books
<1>2. pc[s] # "boot" => Told(s)
  BY DEF WorkerActs, Engaged, Working, Serialized, WorkingIsWritten, Told
<1>3. CASE Boot(s) \/ Plan(s)
  <2>1. modules = {} /\ OnePending(s)'
    BY <1>1, <1>3 DEF Boot, Plan, BookOf, Clear, Clearing, OnePending
  <2>2. UNCHANGED <<modules, at>>
    BY <1>3 DEF Boot, Plan, server
  <2>3. \E st \in States : disk' = Record(s, st, res'[s])
    BY <1>3 DEF Boot, Plan, States, ActiveStates
  <2> QED BY <1>1, <2>1, <2>2, <2>3, EmptyBooks
<1>4. CASE \/ Discover(s) \/ KeepDefault(s) \/ RouteDone(s) \/ StartEncoder(s)
           \/ StartTransport(s) \/ ToolExited(s) \/ StopSeen(s) \/ Reconcile(s)
  <2>1. UNCHANGED <<disk, modules, at, res>> /\ pc[s] # "boot"
    BY <1>4 DEF Discover, KeepDefault, SetDefault, RouteDone, StartEncoder, StartTransport,
       ToolExited, StopSeen, Reconcile, server
  <2>2. pending'[s].mods = pending[s].mods /\ pending'[s].moved = pending[s].moved
    BY <1>4 DEF Discover, KeepDefault, RouteDone, StartEncoder, StartTransport, ToolExited,
       StopSeen, Reconcile, workers, Untracked
  <2>3. /\ pc'[s] \in Routing => pc[s] \in Routing
        /\ pc'[s] \in Clearing => pc[s] \in Clearing
        /\ pc[s] = "mixDefault" => Settled(s)
        /\ pc'[s] # "mixDefault"
    BY <1>4 DEF Discover, KeepDefault, RouteDone, StartEncoder, StartTransport, ToolExited,
       StopSeen, Reconcile, Polling, Routing, Clearing
  <2> QED BY <1>1, <1>2, <2>1, <2>2, <2>3, QuietBooks
<1>5. CASE Refresh(s) \/ Forget(s) \/ MoveFails(s) \/ WorkerRaises(s)
  <2>1. UNCHANGED <<disk, modules, at, pending>> /\ pc[s] # "boot"
    BY <1>5 DEF Refresh, Forget, MoveFails, WorkerRaises, RaisingPCs, Raise, Polling, server, workers
  <2>2. /\ res'[s].mix = res[s].mix /\ res'[s].mods = res[s].mods
        /\ res'[s].moved = res[s].moved
    <3>1. CASE Forget(s)
      <4>1. res[s] \in Resources /\ res' = [res EXCEPT ![s].procs = @ \ kids[s]]
        BY <3>1 DEF Forget
      <4> QED BY <4>1 DEF Resources
    <3>2. CASE Refresh(s) \/ MoveFails(s) \/ WorkerRaises(s)
      BY <3>2 DEF Refresh, MoveFails, WorkerRaises, Raise
    <3> QED BY <1>5, <3>1, <3>2
  <2>3. /\ pc'[s] \in Routing => pc[s] \in Routing
        /\ pc'[s] \in Clearing => pc[s] \in Clearing
        /\ pc[s] = "mixDefault" => Settled(s)
        /\ pc'[s] # "mixDefault"
    BY <1>5 DEF Refresh, Forget, MoveFails, WorkerRaises, Raise, Polling, Routing, Clearing
  <2> QED BY <1>1, <1>2, <2>1, <2>2, <2>3, QuietBooks
<1>6. CASE Track(s)
  <2>1. PICK r \in Resources :
          /\ disk' = Record(s, wstate[s], r) /\ res'[s] = r
          /\ r.mix = res[s].mix /\ res[s].mods \cup pending[s].mods \subseteq r.mods
          /\ res[s].moved \cup pending[s].moved \subseteq r.moved
    BY <1>6, TrackWrites
  <2>2. /\ pending'[s].mods = {} /\ pending'[s].moved = {} /\ pc' = pc
        /\ pc[s] \in TrackingPCs /\ UNCHANGED <<modules, at>>
    BY <1>6 DEF Track, Nothing, server
  <2> QED BY <1>1, <1>2, <2>1, <2>2, WriteBooks DEF TrackingPCs, Routing, Clearing
<1>7. CASE Announce(s) \/ WriteFinal(s)
  <2>1. /\ \E st \in States : disk' = Record(s, st, res[s])
        /\ res'[s] = res[s] /\ res[s] \in Resources
        /\ UNCHANGED <<modules, at, pending>>
        /\ (pc[s] = "announce" /\ pc'[s] = "wait") \/ (pc[s] = "final" /\ pc'[s] = "exiting")
    BY <1>7 DEF Announce, WriteFinal, server, States, ActiveStates
  <2> QED BY <1>1, <1>2, <2>1, WriteBooks DEF Routing, Clearing
<1>8. CASE CreateMix(s) \/ RouteMove(s) \/ RouteLoopback(s)
  <2>1. Told(s)
    BY <1>2, <1>8 DEF CreateMix, RouteMove, RouteLoopback
  <2> QED BY <1>1, <1>8, <2>1, MayMakeMix, MayRoute
<1>9. CASE TermChildren(s) \/ Cleanup(s) \/ Exit(s)
  <2>1. /\ modules' \subseteq modules /\ \A i \in Inputs : at'[i] = Mix => at[i] = Mix
        /\ UNCHANGED <<disk, res, pending, cfg>>
    BY <1>9, CleanupRemoves DEF TermChildren, Exit, server, workers
  <2>2. \/ pc[s] \in {"term"} \cup CleanupPCs /\ pc'[s] \in CleanupPCs \cup {"final"}
        \/ pc[s] = "exiting" /\ pc'[s] = "done"
    BY <1>9 DEF TermChildren, Exit, Cleanup, List, Restore, RestoreDone, UnloadTracked,
       UnloadDone, RestoreDefault, AfterCleanup, CleanupPCs
  <2>3. Unnoticed
    BY <1>1, <2>1, <2>2 DEF Unnoticed, Sole
  <2> QED BY <2>3, UnnoticedBooks
<1> QED BY <1>3, <1>4, <1>5, <1>6, <1>7, <1>8, <1>9 DEF WorkerActs, WorkerStep

-----------------------------------------------------------------------------
(* What a command knows while it cleans up.                                *)

\* Stop signals the worker session.json still names, and read there whether it
\* made the Mix; the sweep finds every module; Start spawns a worker only with
\* none left, and Stop leaves one only if session.json names no Mix.
CommandOf(c) ==
  /\ pc[c] = "signal" => disk.sess = own[c]
  /\ pc[c] \in {"signal", "dying", "reap"} \cup CleanupPCs => res[c].mix = disk.res.mix
  /\ pc[c] = "sweep" => modules \subseteq todo[c].mods
  /\ pc[c] = "preflight" => modules = {}
  /\ pc[c] = "writeStopped" => modules = {} \/ disk.res.mix = FALSE

Commands == \A c \in Clients : CommandOf(c)

\* A step that is not this command's.
Besides(c) ==
  /\ pc'[c] = pc[c] /\ own'[c] = own[c] /\ res'[c] = res[c] /\ todo'[c] = todo[c]
  /\ pc[c] = "signal" => disk'.sess = disk.sess
  /\ pc[c] # "idle" => disk'.res.mix = disk.res.mix
  /\ modules' \subseteq modules

\* What happens beside a command changes nothing of what it knows.
LEMMA BesidesCommand ==
  ASSUME NEW c \in Clients, CommandOf(c), Besides(c) \/ pc'[c] \in {"idle", "guard", "read", "await"}
  PROVE  CommandOf(c)'
  BY DEF CommandOf, Besides, CleanupPCs

\* A worker says the same about the Mix for as long as someone may stop it.
LEMMA WorkerWritesMix ==
  ASSUME Ground, Books, NEW s \in Sessions, WorkerActs(s), ~Starting(s), pc[s] # "boot"
  PROVE  disk'.sess = s /\ disk.sess = s /\ disk'.res.mix = disk.res.mix
<1> USE ActorParts, FieldTypes, MoreTypes DEF Goto, Ground
<1>1. Told(s) /\ pc[s] \notin {"discover", "plan", "mix", "mixDefault", "route", "announce"}
  BY DEF WorkerActs, Engaged, Working, Serialized, WorkingIsWritten, Told, Starting
<1>2. disk.sess = s /\ disk.res.mix = res[s].mix
  BY <1>1 DEF Books, BookOf, Recorded, Told
<1>3. CASE Track(s)
  BY <1>2, <1>3, TrackWrites DEF Record
<1>4. CASE WriteFinal(s)
  BY <1>2, <1>4 DEF WriteFinal, Record
<1>5. CASE \/ Boot(s) \/ Discover(s) \/ Plan(s) \/ CreateMix(s) \/ Announce(s) \/ KeepDefault(s)
  BY <1>1, <1>5 DEF Boot, Discover, Plan, CreateMix, Announce, KeepDefault
<1>6. CASE \/ RouteMove(s) \/ RouteLoopback(s) \/ RouteDone(s) \/ MoveFails(s) \/ WorkerRaises(s)
           \/ StartEncoder(s) \/ StartTransport(s) \/ ToolExited(s) \/ Reconcile(s)
  BY <1>2, <1>6 DEF RouteMove, RouteLoopback, RouteDone, MoveFails, WorkerRaises, Raise,
     StartEncoder, StartTransport, ToolExited, Reconcile
<1>7. CASE \/ Refresh(s) \/ Forget(s) \/ StopSeen(s) \/ TermChildren(s) \/ Cleanup(s) \/ Exit(s)
  BY <1>2, <1>7 DEF Refresh, Forget, StopSeen, TermChildren, Exit, Cleanup, List, Restore,
     RestoreDone, UnloadTracked, UnloadDone, RestoreDefault
<1> QED BY <1>3, <1>4, <1>5, <1>6, <1>7 DEF WorkerActs, WorkerStep

\* A worker's step neither.
LEMMA WorkerCommands ==
  ASSUME Ground, Awaited, Books, Commands, NEW s \in Sessions, WorkerActs(s)
  PROVE  Commands'
<1> USE ActorParts DEF Ground
<1> SUFFICES ASSUME NEW c \in Clients PROVE CommandOf(c)'
  BY DEF Commands
<1>1. /\ pc'[c] = pc[c] /\ own'[c] = own[c] /\ res'[c] = res[c] /\ todo'[c] = todo[c]
  BY WorkerKeepsClients DEF WorkerActs, ActsAlone, clients
<1>2. pc[c] \notin Alone
  BY DEF Serialized, AloneAtWork, WorkerActs
<1>3. CASE pc[c] \in {"signal", "dying"}
  <2>1. own[c] = s /\ ~Starting(s) /\ pc[s] # "boot"
    BY <1>3, StartingWaits DEF Serialized, AttachedToOne, Attached, WorkerActs, Awaited
  <2>2. disk'.sess = disk.sess /\ disk'.res.mix = disk.res.mix
    BY <2>1, WorkerWritesMix
  <2> QED BY <1>1, <1>3, <2>2 DEF Commands, CommandOf, CleanupPCs
<1>4. CASE pc[c] \notin {"signal", "dying"}
  BY <1>1, <1>2, <1>4 DEF CommandOf, Alone
<1> QED BY <1>3, <1>4

\* Stop's signal: the handler writes what the worker has tracked.
LEMMA SignalBooks ==
  ASSUME Ground, Awaited, Books, Commands, NEW c \in Clients, Signal(c)
  PROVE  Books' /\ CommandOf(c)'
<1> USE ActorParts, FieldTypes, MoreTypes DEF Ground
<1>1. PICK s \in Sessions : s = own[c] /\ Alive(s) /\ pc[c] = "signal"
  BY DEF Signal, Alive
<1>2. PICK x : InFlight(s, x) /\ pc' = [pc EXCEPT ![c] = "dying", ![s] = x]
  BY <1>1 DEF Signal
<1>3. /\ UNCHANGED <<server, res, cfg>> /\ disk' = Record(s, "stopping", res[s])
      /\ UNCHANGED <<modules, at>>
  BY <1>1 DEF Signal, HandleStop, server
<1>4. /\ pc'[c] = "dying" /\ \A t \in Sessions : pc'[t] = IF t = s THEN x ELSE pc[t]
  BY <1>1, <1>2
<1>5. ~Starting(s) /\ pc[s] # "boot" /\ Told(s)
  BY <1>1, StartingWaits DEF ClientStep, Awaited, Commands, CommandOf, Told
<1>6. \A t \in Sessions \ {s} : ~Engaged(t)
  BY <1>1 DEF Serialized, AttachedToOne, Attached
<1>7. /\ pending'[s] \in {pending[s], Nothing}
      /\ x = pc[s] => pending'[s] = pending[s]
      /\ \A t \in Sessions \ {s} : pending'[t] = pending[t]
  BY <1>2 DEF InFlight, LostCall, RoutingPCs
<1>8. x = pc[s] \/ x \in {"term", "restore"}
  BY <1>2, InFlightMoves
<1>9. Sole(s) /\ res'[s] = res[s] /\ res[s] \in Resources
  BY <1>3, <1>4, <1>6, <1>7 DEF Sole
<1>10. /\ pending'[s].mods \subseteq pending[s].mods /\ pending'[s].moved \subseteq pending[s].moved
       /\ pc'[s] \in Routing => pc[s] \in Routing /\ pending'[s] = pending[s]
       /\ pc'[s] \notin Clearing
  BY <1>4, <1>5, <1>7, <1>8 DEF Nothing, Routing, Clearing, Starting
<1>11. Books'
  BY <1>3, <1>5, <1>9, <1>10, WriteBooks
<1>12. disk'.res.mix = disk.res.mix
  BY <1>3, <1>5 DEF Record, Books, BookOf, Recorded, Starting
<1>13. CommandOf(c)'
  BY <1>1, <1>3, <1>4, <1>12 DEF Commands, CommandOf, CleanupPCs
<1> QED BY <1>11, <1>13

\* A command's step keeps the books, and what it knows.
LEMMA ClientBooks ==
  ASSUME Patient, Ground, Awaited, Books, Commands, NEW c \in Clients, ClientStep(c) \/ Refuse(c)
  PROVE  Books' /\ CommandOf(c)'
<1> USE ActorParts, FieldTypes, MoreTypes DEF Goto, Ground
<1>1. CommandOf(c)
  BY DEF Commands
<1>2. CASE Spawn(c)
  <2>1. PICK s \in Sessions, k \in Configs :
          /\ pc[s] = "none" /\ pc' = [pc EXCEPT ![c] = "await", ![s] = "boot"]
          /\ cfg' = [cfg EXCEPT ![s] = k]
    BY <1>2 DEF Spawn
  <2>2. /\ modules = {} /\ UNCHANGED <<modules, at, disk, pending, res>>
    BY <1>1, <1>2 DEF Spawn, CommandOf, server
  <2>3. \A t \in Sessions : /\ pc'[t] = IF t = s THEN "boot" ELSE pc[t]
                            /\ cfg'[t] = IF t = s THEN k ELSE cfg[t]
    BY <2>1
  <2>4. Unnoticed
    BY <2>1, <2>2, <2>3 DEF Unnoticed
  <2>5. pc'[c] = "await"
    BY <2>1
  <2> QED BY <2>4, <2>5, UnnoticedBooks, <1>1, BesidesCommand
<1>3. ASSUME UNCHANGED <<disk, pending, cfg, modules, at>>,
             \A s \in Sessions : pc'[s] = pc[s] /\ res'[s] = res[s]
      PROVE  Books'
  <2>1. Unnoticed
    BY <1>3 DEF Unnoticed
  <2> QED BY <2>1, UnnoticedBooks
<1>4. CASE Guard(c) \/ Started(c) \/ ReadState(c) \/ Refuse(c)
  <2>1. Books'
    BY <1>3, <1>4 DEF Guard, Started, ReadState, Refuse, Release, server, workers
  <2>2. CASE Guard(c) \/ ReadState(c)
    <3>1. /\ pc'[c] \in {"list", "reap"} \/ (pc'[c] = "signal" /\ own'[c] = disk.sess)
          /\ res'[c] = disk.res /\ disk' = disk
      BY <2>2 DEF Guard, ReadState
    <3> QED BY <2>1, <3>1 DEF CommandOf, CleanupPCs
  <2>3. CASE Started(c) \/ Refuse(c)
    <3>1. pc'[c] = "idle"
      BY <2>3 DEF Started, Refuse, Release
    <3> QED BY <1>1, <2>1, <3>1, BesidesCommand
  <2> QED BY <1>4, <2>1, <2>2, <2>3
<1>5. CASE WorkerGone(c) \/ Reap(c) \/ SweepList(c) \/ SweepDone(c)
  <2>1. Books'
    BY <1>3, <1>5 DEF WorkerGone, Reap, SweepList, SweepDone, server, workers
  <2>2. CASE WorkerGone(c) \/ Reap(c)
    <3>1. /\ pc[c] \in {"signal", "dying", "reap"} /\ pc'[c] \in {"reap", "list"}
          /\ UNCHANGED <<res, disk>>
      BY <2>2 DEF WorkerGone, Reap
    <3> QED BY <1>1, <2>1, <3>1 DEF CommandOf, CleanupPCs
  <2>3. CASE SweepList(c)
    <3>1. todo'[c].mods = modules /\ pc'[c] = "sweep" /\ modules' = modules
      BY <2>3, CommandCallsSucceed DEF SweepList, NoCalls, server
    <3> QED BY <2>1, <3>1 DEF CommandOf, CleanupPCs
  <2>4. CASE SweepDone(c)
    <3>1. /\ pc[c] = "sweep" /\ todo[c].mods = {} /\ pc'[c] \in {"preflight", "writeStopped"}
          /\ modules' = modules
      BY <2>4 DEF SweepDone, server
    <3>2. modules' = {}
      BY <1>1, <3>1 DEF CommandOf
    <3> QED BY <2>1, <3>1, <3>2 DEF CommandOf, CleanupPCs
  <2> QED BY <1>5, <2>1, <2>2, <2>3, <2>4
<1>6. CASE Cleanup(c) \/ Sweep(c)
  <2>1. /\ modules' \subseteq modules /\ \A i \in Inputs : at'[i] = Mix => at[i] = Mix
        /\ UNCHANGED <<disk, res, pending, cfg>>
    BY <1>6, CleanupRemoves
  <2>2. \A s \in Sessions : pc'[s] = pc[s]
    BY <1>6 DEF Cleanup, Sweep, List, Restore, RestoreDone, UnloadTracked, UnloadDone,
       RestoreDefault
  <2>3. Books'
    <3>1. Unnoticed
      BY <2>1, <2>2 DEF Unnoticed
    <3> QED BY <3>1, UnnoticedBooks
  <2>4. CASE Sweep(c)
    <3>1. PICK m \in todo[c].mods : /\ modules' = modules \ {m}
                                    /\ todo' = [todo EXCEPT ![c].mods = @ \ {m}]
      BY <2>4, UnloadNextModules, CommandCallsSucceed DEF Sweep
    <3>2. todo'[c].mods = todo[c].mods \ {m}
      BY <3>1 DEF Todo
    <3>3. pc[c] = "sweep" /\ pc'[c] = "sweep"
      BY <2>4 DEF Sweep
    <3>4. modules' \subseteq todo'[c].mods
      BY <1>1, <3>1, <3>2, <3>3 DEF CommandOf
    <3> QED BY <2>3, <3>3, <3>4 DEF CommandOf, CleanupPCs
  <2>5. CASE Cleanup(c)
    <3>1. /\ pc[c] \in CleanupPCs
          /\ pc'[c] \in CleanupPCs \cup {"sweepList"} \/ (pc'[c] = "writeStopped" /\ ~res[c].mix)
      BY <2>5 DEF Cleanup, List, Restore, RestoreDone, UnloadTracked, UnloadDone,
         RestoreDefault, AfterCleanup, CleanupPCs
    <3>2. disk.res.mix \in BOOLEAN
      BY DEF SessionFile, Resources
    <3>3. res[c].mix = disk.res.mix
      BY <1>1, <3>1 DEF CommandOf
    <3>4. pc'[c] = "writeStopped" => disk'.res.mix = FALSE
      BY <2>1, <3>1, <3>2, <3>3 DEF CleanupPCs
    <3>5. pc'[c] \in CleanupPCs \cup {"sweepList", "writeStopped"} /\ res'[c].mix = disk'.res.mix
      BY <2>1, <3>1, <3>3
    <3> QED BY <2>3, <3>4, <3>5 DEF CommandOf, CleanupPCs
  <2> QED BY <1>6, <2>4, <2>5
<1>7. CASE WriteStopped(c)
  <2>1. /\ disk' = StoppedState /\ pc[c] = "writeStopped" /\ pc' = [pc EXCEPT ![c] = "idle"]
        /\ UNCHANGED <<modules, at, res, pending, cfg>>
    BY <1>7 DEF WriteStopped, Release, server, workers
  <2>2. /\ disk'.sess = NoOne /\ disk'.res.mix = FALSE
        /\ \A s \in Sessions : pc'[s] = pc[s] /\ s # NoOne
    BY <2>1 DEF StoppedState, EmptyResources, Actors
  <2>3. \A s \in Sessions : pc[s] \in {"none", "exiting", "done", "dead"}
    BY <2>1 DEF Serialized, AloneAtWork, Alone, Engaged, Alive
  <2>4. \A m \in modules : /\ m.kind = "null" /\ disk.res.mix = FALSE
                           /\ pc[m.owner] = "dead" /\ pending[m.owner] # Nothing
                           /\ m.owner \in Sessions
    BY <1>1, <2>1, <2>3 DEF CommandOf, Books, Holdings, Reported, Backed, TypeOK, ServerTypeOK,
       Module
  <2>5. Holdings'
    BY <2>1, <2>2, <2>4 DEF Holdings, Owned, Reported, Backed, Blank
  <2>6. \A s \in Sessions : BookOf(s)'
    BY <2>1, <2>2, <2>3 DEF Books, BookOf, Recorded, Told, OnePending, AllButPending, Routing,
       Window, Clear, Clearing
  <2>7. CommandOf(c)'
    BY <1>1, <2>1, BesidesCommand
  <2> QED BY <2>5, <2>6, <2>7 DEF Books
<1>8. CASE Signal(c)
  BY <1>8, SignalBooks
<1> QED BY <1>2, <1>4, <1>5, <1>6, <1>7, <1>8 DEF ClientStep

\* Meanwhile the other commands are idle.
LEMMA OthersIdle ==
  ASSUME Ground, NEW c \in Clients, ClientStep(c) \/ Refuse(c), NEW d \in Clients \ {c}
  PROVE  pc[d] = "idle" /\ pc'[d] = "idle"
<1> USE ActorParts, FieldTypes DEF Goto, Ground
<1>1. pc[c] # "idle"
  BY DEF ClientStep, Refuse, Guard, Cleanup, List, Restore, RestoreDone, UnloadTracked, UnloadDone,
     RestoreDefault, SweepList, Sweep, SweepDone, Spawn, Started, ReadState, Signal, WorkerGone,
     Reap, WriteStopped
<1>2. pc[d] = "idle"
  BY <1>1 DEF Serialized, BusyHoldsLock
<1>3. pc'[d] = pc[d]
  <2>1. CASE Spawn(c)
    BY <2>1 DEF Spawn
  <2>2. CASE Signal(c)
    BY <2>2 DEF Signal, Alive
  <2>3. CASE ~Spawn(c) /\ ~Signal(c)
    BY <2>3 DEF ClientStep, Refuse, Guard, Cleanup, List, Restore, RestoreDone, UnloadTracked,
       UnloadDone, RestoreDefault, SweepList, Sweep, SweepDone, Started, ReadState, WorkerGone,
       Reap, WriteStopped, Release
  <2> QED BY <2>1, <2>2, <2>3
<1> QED BY <1>2, <1>3

\* A command's step keeps what all commands know.
LEMMA ClientCommands ==
  ASSUME Patient, Ground, Awaited, Books, Commands, NEW c \in Clients, ClientStep(c) \/ Refuse(c)
  PROVE  Commands'
<1>1. ASSUME NEW d \in Clients \ {c} PROVE CommandOf(d)'
  BY OthersIdle DEF CommandOf, CleanupPCs
<1> QED BY <1>1, ClientBooks DEF Commands

\* What happens outside writes nothing.
LEMMA OutsideBooks ==
  ASSUME Patient, Ground, Books, Commands, Outside, \A s \in Sessions : ~WorkerRaises(s)
  PROVE  Books' /\ Commands'
<1> USE ActorParts, FieldTypes DEF Goto, Ground
<1>1. /\ UNCHANGED <<disk, pending, cfg, modules, res, todo, own>>
      /\ \A i \in Inputs : at'[i] = Mix => at[i] = Mix
      /\ \A s \in Sessions : pc'[s] \in {pc[s], "dead"} \/ (pc[s] = "boot" /\ pc'[s] = "done")
      /\ \A c \in Clients : \/ pc'[c] \in {pc[c], "idle", "guard", "read"}
                            \/ pc[c] = "dying" /\ pc'[c] = "reap"
  <2>1. CASE Surroundings \/ ToolExits
    <3>1. UNCHANGED <<disk, pending, cfg, modules, res, todo, own, pc>>
      BY <2>1 DEF Surroundings, StreamCloses, StreamOpens, UserMoves, UserChoosesDefault,
         ToolExits, clients, workers, server
    <3>2. at \in [Inputs -> Sinks \cup {Mix, NotYet, Gone}] /\ home \in [Inputs -> Sinks]
      BY DEF TypeOK, ServerTypeOK
    <3>3. \A i \in Inputs : at'[i] = Mix => at[i] = Mix
      BY <2>1, <3>2, Mix \notin Sinks DEF Surroundings, StreamCloses, StreamOpens, UserMoves,
         UserChoosesDefault, ToolExits, server, Mix, Gone
    <3> QED BY <3>1, <3>3
  <2>2. CASE \E s \in Sessions : BootFails(s) \/ WorkerKilled(s)
    BY <2>2 DEF BootFails, WorkerKilled, clients, workers, server
  <2>3. \A s \in Sessions : ~InterruptForeground(s) /\ \A k \in Configs : ~RunForeground(s, k)
    BY DEF InterruptForeground, RunForeground, NoBypass, Patient, Serialized
  <2>4. CASE \E c \in Clients, o \in {"start", "stop"} : Begin(c, o)
    BY <2>4 DEF Begin, workers, server
  <2>5. \A c \in Clients : ~Abandon(c)
    BY DEF Abandon, Patient, NoBypass
  <2>6. CASE \E c \in Clients : ClientKilled(c)
    BY <2>6 DEF ClientKilled, Release, workers, server
  <2>7. ASSUME NEW c \in Clients, KillWorker(c)
        PROVE  /\ UNCHANGED <<disk, pending, cfg, modules, res, todo, own, at>>
               /\ \A s \in Sessions : pc'[s] \in {pc[s], "dead"}
               /\ \A d \in Clients : \/ pc'[d] \in {pc[d], "idle", "guard", "read"}
                                     \/ pc[d] = "dying" /\ pc'[d] = "reap"
    <3>1. /\ own[c] \in Sessions /\ pc[c] = "dying"
          /\ pc' = [pc EXCEPT ![c] = "reap", ![own[c]] = "dead"]
      BY <2>7 DEF KillWorker, Alive
    <3>2. \A t \in Sessions : pc'[t] = IF t = own[c] THEN "dead" ELSE pc[t]
      BY <3>1
    <3>3. \A d \in Clients : pc'[d] = IF d = c THEN "reap" ELSE pc[d]
      BY <3>1
    <3> QED BY <2>7, <3>1, <3>2, <3>3 DEF KillWorker, clients, workers, server
  <2> QED BY <2>1, <2>2, <2>3, <2>4, <2>5, <2>6, <2>7 DEF Outside
<1>2. Unnoticed
  BY <1>1 DEF Unnoticed
<1>3. Commands'
  BY <1>1 DEF Commands, CommandOf, CleanupPCs
<1> QED BY <1>2, <1>3, UnnoticedBooks

-----------------------------------------------------------------------------
(* The books are kept, and what that shows.                                *)

\* Whatever is killed or lost, session.json misses one effect at a time, and
\* the commands act on what it says.
LEMMA BooksAreKept == ASSUME Patient PROVE Spec => [](Books /\ Commands)
<1>1. Init => Books /\ Commands
  <2>1. Init => Holdings
    BY DEF Init, ServerInit, Holdings, Owned, Reported, Backed, Blank, StoppedState,
       EmptyResources
  <2>2. ASSUME Init, NEW s \in Sessions PROVE BookOf(s)
    BY <2>2 DEF Init, ServerInit, BookOf, Recorded, Told, Alive, OnePending, Nothing,
       AllButPending, Routing, Window, Clear, Clearing, StoppedState, Actors
  <2>3. Init => Commands
    BY ActorParts DEF Init, Commands, CommandOf, CleanupPCs
  <2> QED BY <2>1, <2>2, <2>3 DEF Books
<1>2. ASSUME Ground, Books, Commands, UNCHANGED vars PROVE Books' /\ Commands'
  <2>1. Unnoticed
    BY <1>2 DEF vars, server, workers, Unnoticed
  <2>2. Commands'
    BY <1>2 DEF vars, server, clients, Commands, CommandOf
  <2> QED BY <1>2, <2>1, <2>2, UnnoticedBooks DEF Ground
<1>3. ASSUME Ground, Books, Commands, NEW s \in Sessions, Exit(s) PROVE Books' /\ Commands'
  <2>1. /\ UNCHANGED <<server, clients, workers, res, todo, disk>>
        /\ pc[s] = "exiting" /\ \A t \in Sessions : pc'[t] = IF t = s THEN "done" ELSE pc[t]
        /\ \A c \in Clients : pc'[c] = pc[c]
    BY <1>3, ActorParts, FieldTypes DEF Exit, Goto, Ground
  <2>2. Unnoticed
    BY <2>1 DEF server, workers, Unnoticed
  <2>3. Commands'
    BY <1>3, <2>1 DEF server, clients, Commands, CommandOf
  <2> QED BY <1>3, <2>2, <2>3, UnnoticedBooks DEF Ground
<1>4. ASSUME Ground, Awaited, Books, Commands, Next PROVE Books' /\ Commands'
  <2>1. CASE \E s \in Sessions : WorkerStep(s) \/ WorkerRaises(s)
    <3>1. PICK s \in Sessions : WorkerStep(s) \/ WorkerRaises(s)
      BY <2>1
    <3>2. CASE ~Exit(s)
      <4>1. WorkerActs(s)
        BY <1>4, <3>1, <3>2, WorkerActsOrExits DEF Ground
      <4> QED BY <1>4, <4>1, WorkerBooks, WorkerCommands
    <3> QED BY <1>3, <1>4, <3>2
  <2>2. CASE \E c \in Clients : ClientStep(c) \/ Refuse(c)
    BY <1>4, <2>2, ClientBooks, ClientCommands
  <2>3. CASE Outside /\ \A s \in Sessions : ~WorkerRaises(s)
    BY <1>4, <2>3, OutsideBooks
  <2> QED BY <1>4, <2>1, <2>2, <2>3 DEF Next
<1>5. Ground /\ Awaited /\ Books /\ Commands /\ [Next]_vars => (Books /\ Commands)'
  BY <1>2, <1>4
<1> QED BY <1>1, <1>5, GroundAlways, StartsAreAwaited, PTL DEF Spec

\* _write_state marks the capture before any loopback is loaded and Stop, if its
\* own calls succeed, writes "stopped" only after the last one is gone, so a routed microphone is always
\* one the privacy indicator and the lock policy read in session.json.
THEOREM CaptureIsReportedAlways == ASSUME Patient PROVE Spec => []CaptureIsReported
<1>1. Books => CaptureIsReported
  BY DEF Books, Holdings, Reported, CaptureIsReported
<1> QED BY <1>1, BooksAreKept, PTL

\* _track_module, _track_move and _track_process write after every single effect:
\* session.json never misses more than one module, one moved stream and one
\* pipeline of its Session, at whatever moment the worker is killed.
THEOREM CrashWindowAlways == ASSUME Patient PROVE Spec => []CrashWindow
<1>1. ASSUME TypeOK, Children, Books, NEW s \in Sessions, disk.sess = s
      PROVE  /\ \A m, n \in ModulesOf(s) \ disk.res.mods : m = n
             /\ \A i, j \in Inputs : Stray(i) /\ Stray(j) => i = j
             /\ \A p, q \in LiveOf(s) \ disk.res.procs : p.epoch = q.epoch
  BY <1>1 DEF Books, BookOf, Window, Children, OwnEpoch, LiveOf
<1>2. TypeOK /\ Children /\ Books => CrashWindow
  BY <1>1 DEF CrashWindow
<1> QED BY <1>2, BooksAreKept, TypeCorrect, ChildrenAreKnown, PTL

\* With no worker killed and as long as its own pactl calls succeed, stop_session
\* writes "stopped" only when its cleanup and its sweep have left nothing behind
\* of what the worker's cleanup did not take down, calls of which may fail or end
\* with Stop's signal; so "stopped" in session.json means that no module, no
\* process and no stream on the Mix is left.
THEOREM StoppedIsSilentAlways ==
  ASSUME Patient, NoKill PROVE Spec => []StoppedIsSilent
<1>1. ASSUME Ground, NobodyDead, Books PROVE StoppedIsSilent
  <2> SUFFICES ASSUME disk.sess = NoOne
               PROVE  modules = {} /\ live = {} /\ \A i \in Inputs : at[i] # Mix
    BY DEF StoppedIsSilent
  <2>1. \A s \in Sessions : Engaged(s) => pc[s] = "boot"
    BY <1>1 DEF Ground, Serialized, WorkingIsWritten, Working, Actors
  <2>2. modules = {}
    <3> SUFFICES ASSUME NEW m \in modules PROVE FALSE
      OBVIOUS
    <3>1. m.owner \in Sessions
      BY <1>1 DEF Ground, TypeOK, ServerTypeOK, Module
    <3>2. pc[m.owner] = "mixDefault"
      BY <1>1, <3>1 DEF Books, Holdings, Backed, Blank, NobodyDead
    <3> QED BY <2>1, <3>1, <3>2 DEF Engaged, Alive
  <2>3. live = {}
    BY <1>1, <2>1, NoneLive DEF Ground, Quiet
  <2> QED BY <1>1, <2>2, <2>3 DEF Ground, MixNeeded, MixExists
<1>2. Ground /\ Written /\ Books => StoppedIsSilent
  BY <1>1 DEF Written
<1>3. NoBypass
  BY DEF Patient
<1> QED BY <1>2, <1>3, BooksAreKept, GroundAlways, RecordsAreWritten, PTL

-----------------------------------------------------------------------------
(* What session.json knows of the first pipeline, and Stop after it.       *)

\* Before its ssh runs a pipeline is not in self.children.
Young == {"none", "boot", "discover", "plan", "mix", "mixDefault", "route", "encoder", "transport"}
Childless(s) == pc[s] \in Young => kids[s] = {}

\* The worker forgets processes in memory only.
PidsKept(s) == Told(s) => res[s].procs \subseteq disk.res.procs

\* The first pipeline is tracked before the route is announced; a worker that
\* dies later leaves it in session.json.
Filed(s) ==
  epoch[s] = 1 =>
    /\ pc[s] = "announce" => LiveOf(s) \subseteq res[s].procs \cup pending[s].procs
    /\ pc[s] \in {"wait", "reconcile", "term"} => LiveOf(s) \subseteq res[s].procs
    /\ pc[s] = "dead" /\ NothingUnrecorded(s) /\ disk.sess = s =>
         LiveOf(s) \subseteq disk.res.procs

\* The only Session so far, in its first pipeline, has left nothing unrecorded.
Only(s) == /\ epoch[s] = 1 /\ \A t \in Sessions \ {s} : pc[t] = "none"
           /\ pc[s] = "dead" => NothingUnrecorded(s)

\* Stop reaps what it read, and then cleans up without that pipeline.
ReadOf(c) ==
  /\ pc[c] = "guard" => op[c] = "start"
  /\ pc[c] = "writeStopped" => op[c] = "stop"
  /\ \A s \in Sessions : Only(s) =>
       /\ pc[c] \in {"signal", "dying", "reap"} => LiveOf(s) \subseteq res[c].procs
       /\ op[c] = "stop" /\ pc[c] \in CleanupPCs \cup {"sweepList", "sweep", "writeStopped"} =>
            LiveOf(s) = {}

ReapedIsGone == \A s \in Sessions : Only(s) /\ disk.sess = NoOne => LiveOf(s) = {}
EpochsRun    == \A p \in live : p.epoch > 0

PipelineOf(s) == Childless(s) /\ PidsKept(s) /\ Filed(s)
Pipelines     == /\ \A s \in Sessions : PipelineOf(s)
                 /\ \A c \in Clients : ReadOf(c)
                 /\ ReapedIsGone /\ EpochsRun

\* A step that is not this worker's, but may end it.
Left(s) ==
  /\ LiveOf(s)' \subseteq LiveOf(s) /\ kids'[s] = kids[s] /\ epoch'[s] = epoch[s]
  /\ pending'[s] = pending[s] /\ res'[s] = res[s]
  /\ disk' = disk \/ disk'.sess # s
  /\ \/ pc'[s] \in {pc[s], "dead"} \/ (pc[s] = "none" /\ pc'[s] = "boot")
     \/ (pc[s] \in {"boot", "exiting"} /\ pc'[s] = "done")

\* A worker that is left keeps account of its first pipeline.
LEMMA LeftPipeline ==
  ASSUME TypeOK, Children, NEW s \in Sessions, PipelineOf(s), Left(s)
  PROVE  PipelineOf(s)' /\ (epoch'[s] = epoch[s] /\ (pc[s] = "dead" => pc'[s] = "dead"))
<1> USE FieldTypes DEF PipelineOf, Left
<1>1. Childless(s)' /\ PidsKept(s)' /\ (pc[s] = "dead" => pc'[s] = "dead")
  BY DEF Childless, Young, PidsKept, Told, Alive
<1>2. CASE pc'[s] \in {"boot", "done"} \/ pc'[s] = pc[s]
  <2>1. Filed(s)'
    BY <1>2 DEF Filed, NothingUnrecorded, Settled
  <2> QED BY <1>1, <2>1
<1>3. CASE pc'[s] = "dead" /\ pc[s] # "dead"
  <2> SUFFICES ASSUME epoch[s] = 1, NothingUnrecorded(s)', disk'.sess = s
               PROVE  LiveOf(s)' \subseteq disk'.res.procs
    BY <1>1, <1>3 DEF Filed
  <2>1. disk' = disk /\ pending[s] = Nothing /\ kids[s] # {}
    BY <1>3 DEF NothingUnrecorded, Settled
  <2>2. CASE pc[s] \in Quiet
    BY <2>2 DEF Children, QuietIsSilent
  <2>3. CASE pc[s] = "transport"
    BY <2>1, <2>3 DEF Childless, Young
  <2>4. CASE pc[s] \in Held
    <3>1. res[s].procs \subseteq disk.res.procs
      BY <2>1, <2>4 DEF PidsKept, Told, Alive, Held
    <3>2. LiveOf(s) \subseteq res[s].procs
      BY <2>1, <2>4 DEF Filed, Held, Nothing
    <3> QED BY <2>1, <3>1, <3>2
  <2> QED BY <1>3, <2>2, <2>3, <2>4 DEF TypeOK, WorkerPCs, CleanupPCs, Quiet, Held
<1> QED BY <1>2, <1>3

\* How a worker's step changes what runs.
LEMMA WorkerRuns ==
  ASSUME TypeOK, NEW s \in Sessions, WorkerStep(s) \/ WorkerRaises(s)
  PROVE  /\ \A t \in Sessions \ {s} : kids'[t] = kids[t] /\ epoch'[t] = epoch[t]
         /\ disk' = disk \/ (disk'.res = res'[s] /\ disk'.sess = s)
         /\ pc'[s] # "none"
         /\ \/ live' \subseteq live /\ epoch'[s] = epoch[s]
            \/ StartEncoder(s) \/ StartTransport(s)
<1> USE ActorParts, FieldTypes, MoreTypes DEF Goto
<1>1. CASE Boot(s) \/ Plan(s) \/ Track(s) \/ Announce(s) \/ WriteFinal(s)
  BY <1>1 DEF Boot, Plan, Track, TrackingPCs, Announce, WriteFinal, Record
<1>2. CASE \/ Discover(s) \/ CreateMix(s) \/ KeepDefault(s) \/ RouteMove(s) \/ RouteLoopback(s)
           \/ RouteDone(s) \/ MoveFails(s) \/ WorkerRaises(s)
  BY <1>2 DEF Discover, CreateMix, KeepDefault, RouteMove, RouteLoopback, RouteDone, MoveFails,
     WorkerRaises, Raise, workers
<1>3. CASE StartEncoder(s) \/ StartTransport(s)
  BY <1>3 DEF StartEncoder, StartTransport
<1>4. CASE \/ ToolExited(s) \/ Reconcile(s) \/ Refresh(s) \/ Forget(s) \/ StopSeen(s)
           \/ TermChildren(s) \/ Exit(s)
  BY <1>4 DEF ToolExited, Reconcile, Refresh, Forget, StopSeen, TermChildren, Exit, workers
<1>5. CASE Cleanup(s)
  BY <1>5 DEF Cleanup, List, Restore, RestoreDone, UnloadTracked, UnloadDone, RestoreDefault,
     AfterCleanup, workers
<1> QED BY <1>1, <1>2, <1>3, <1>4, <1>5 DEF WorkerStep

\* A worker's own step keeps account of its first pipeline.
LEMMA WorkerPipeline ==
  ASSUME Ground, NEW s \in Sessions, WorkerActs(s), PipelineOf(s) PROVE PipelineOf(s)'
<1> USE ActorParts, FieldTypes, MoreTypes DEF Goto, Ground
<1> DEFINE SameProcs == res'[s].procs = res[s].procs /\ pending'[s].procs = pending[s].procs
           SameKids  == kids'[s] = kids[s] /\ epoch'[s] = epoch[s]
<1>1. pc[s] # "boot" => Told(s)
  BY DEF WorkerActs, Engaged, Working, Serialized, WorkingIsWritten, Told
<1>2. /\ disk' = disk \/ (disk'.res = res'[s] /\ disk'.sess = s)
  BY WorkerRuns DEF WorkerActs
<1>3. ASSUME SameProcs, SameKids, LiveOf(s)' \subseteq LiveOf(s), pc[s] # "boot",
             pc'[s] \notin Young \/ pc[s] \in Young, pc'[s] # "dead",
             pc'[s] = "announce" => pc[s] \in Quiet \cup {"announce"},
             pc'[s] \in {"wait", "reconcile", "term"} =>
               \/ pc[s] \in {"wait", "reconcile", "term"}
               \/ LiveOf(s)' = {}
               \/ pc[s] = "announce" /\ pending[s] = Nothing
      PROVE  PipelineOf(s)'
  <2>1. Childless(s)'
    BY <1>3 DEF PipelineOf, Childless
  <2>2. PidsKept(s)'
    BY <1>1, <1>2, <1>3 DEF PipelineOf, PidsKept, Told
  <2>3. Filed(s)'
    <3>1. pc[s] \in Quiet => LiveOf(s) = {}
      BY DEF Children, QuietIsSilent
    <3>2. ASSUME epoch'[s] = 1, pc'[s] = "announce"
          PROVE  LiveOf(s)' \subseteq res'[s].procs \cup pending'[s].procs
      BY <1>3, <3>1, <3>2 DEF PipelineOf, Filed
    <3>3. ASSUME epoch'[s] = 1, pc'[s] \in {"wait", "reconcile", "term"}
          PROVE  LiveOf(s)' \subseteq res'[s].procs
      BY <1>3, <3>3 DEF PipelineOf, Filed, Nothing
    <3> QED BY <1>3, <3>2, <3>3 DEF Filed
  <2> QED BY <2>1, <2>2, <2>3 DEF PipelineOf
<1>4. CASE Boot(s)
  <2>1. /\ pc'[s] = "discover" /\ pc[s] = "boot" /\ kids' = kids
        /\ disk'.res.procs = res'[s].procs
    BY <1>4 DEF Boot, Record
  <2> QED BY <2>1 DEF PipelineOf, Childless, Young, PidsKept, Filed
<1>5. CASE \/ Discover(s) \/ KeepDefault(s) \/ RouteDone(s) \/ ToolExited(s) \/ StopSeen(s)
           \/ Reconcile(s) \/ Refresh(s) \/ TermChildren(s) \/ RouteMove(s) \/ RouteLoopback(s)
  <2>1. SameKids /\ LiveOf(s)' \subseteq LiveOf(s) /\ res' = res
    BY <1>5 DEF Discover, KeepDefault, RouteDone, ToolExited, StopSeen, Reconcile, Refresh,
       TermChildren, RouteMove, RouteLoopback, workers, LiveOf
  <2>2. pending'[s].procs = pending[s].procs
    BY <1>5 DEF Discover, KeepDefault, RouteDone, ToolExited, StopSeen, Reconcile, Refresh,
       TermChildren, RouteMove, RouteLoopback, workers, Untracked
  <2>3. \/ pc[s] \in Young /\ pc'[s] \in Young /\ pc[s] # "boot"
        \/ pc[s] \in {"wait", "reconcile"} /\ pc'[s] \in {"wait", "reconcile", "term", "refresh"}
        \/ pc[s] = "term" /\ pc'[s] = "list"
    BY <1>5 DEF Discover, KeepDefault, RouteDone, ToolExited, StopSeen, Reconcile, Refresh,
       TermChildren, RouteMove, RouteLoopback, Polling, Young
  <2> HIDE DEF SameKids
  <2> QED BY <1>3, <2>1, <2>2, <2>3 DEF Young
<1>6. CASE Plan(s) \/ CreateMix(s) \/ Cleanup(s) \/ WriteFinal(s) \/ Exit(s)
  <2>1. SameKids /\ LiveOf(s)' \subseteq LiveOf(s)
    BY <1>6 DEF Plan, CreateMix, Cleanup, WriteFinal, Exit, List, Restore, RestoreDone,
       UnloadTracked, UnloadDone, RestoreDefault, workers, LiveOf
  <2>2. SameProcs
    BY <1>6 DEF Plan, CreateMix, Cleanup, WriteFinal, Exit, List, Restore, RestoreDone,
       UnloadTracked, UnloadDone, RestoreDefault, workers, Untracked, Resources
  <2>3. \/ pc[s] \in {"plan", "mix"} /\ pc'[s] \in {"announce", "mix", "mixDefault"}
        \/ pc[s] \in CleanupPCs \cup {"final", "exiting"} /\ pc'[s] \in Quiet \ Young
    BY <1>6 DEF Plan, CreateMix, Cleanup, WriteFinal, Exit, List, Restore, RestoreDone,
       UnloadTracked, UnloadDone, RestoreDefault, AfterCleanup, CleanupPCs, Quiet, Young
  <2> HIDE DEF SameKids, SameProcs
  <2> QED BY <1>3, <2>1, <2>2, <2>3 DEF Young, CleanupPCs, Quiet
<1>7. CASE MoveFails(s) \/ WorkerRaises(s)
  <2>1. /\ SameKids /\ SameProcs /\ pc'[s] = "term" /\ pc[s] \in RaisingPCs \cup {"wait"}
        /\ live' = IF pc[s] = "transport" THEN live \ Pipeline(s) ELSE live
    BY <1>7 DEF MoveFails, WorkerRaises, Raise, Polling, RaisingPCs
  <2>2. pc[s] \notin {"wait", "reconcile"} => LiveOf(s)' = {}
    BY <2>1, LiveIsPipeline DEF RaisingPCs, Children, QuietIsSilent, Quiet, LiveOf
  <2>3. LiveOf(s)' \subseteq LiveOf(s)
    BY <2>1 DEF LiveOf
  <2> HIDE DEF SameKids, SameProcs
  <2> QED BY <1>3, <2>1, <2>2, <2>3 DEF RaisingPCs, Young
<1>8. CASE Announce(s)
  <2>1. SameKids /\ SameProcs /\ LiveOf(s)' = LiveOf(s)
    BY <1>8 DEF Announce, LiveOf
  <2>2. pc[s] = "announce" /\ pc'[s] = "wait" /\ pending[s] = Nothing
    BY <1>8 DEF Announce, Settled
  <2> HIDE DEF SameKids, SameProcs
  <2> QED BY <1>3, <2>1, <2>2 DEF Young
<1>9. CASE Forget(s)
  <2>1. /\ pc[s] = "refresh" /\ pc'[s] \in {"term", "encoder"} /\ kids'[s] = {}
        /\ LiveOf(s)' = {} /\ disk' = disk
    BY <1>9 DEF Forget, LiveOf, Children, QuietIsSilent, Quiet
  <2>2. res'[s].procs \subseteq res[s].procs
    BY <1>9 DEF Forget, Resources
  <2> QED BY <1>1, <2>1, <2>2 DEF PipelineOf, Childless, PidsKept, Told, Filed
<1>10. CASE StartEncoder(s)
  <2>1. /\ pc[s] = "encoder" /\ pc'[s] = "transport" /\ kids' = kids
        /\ UNCHANGED <<disk, res>>
    BY <1>10 DEF StartEncoder
  <2> QED BY <1>1, <2>1 DEF PipelineOf, Childless, Young, PidsKept, Told, Filed
<1>11. CASE StartTransport(s)
  <2>1. /\ pc[s] = "transport" /\ pc'[s] = (IF epoch[s] > 1 THEN "wait" ELSE "announce")
        /\ UNCHANGED <<disk, res, epoch>> /\ live' \subseteq live \cup Pipeline(s)
    BY <1>11 DEF StartTransport
  <2>2. pending'[s].procs = Pipeline(s)
    BY <1>11 DEF StartTransport, Untracked
  <2>3. LiveOf(s)' \subseteq Pipeline(s)
    BY <2>1, LiveIsPipeline DEF LiveOf, Children
  <2> QED BY <1>1, <2>1, <2>2, <2>3 DEF PipelineOf, Childless, Young, PidsKept, Told, Filed
<1>12. CASE Track(s)
  <2>1. /\ disk'.res = res'[s] /\ disk'.sess = s /\ pc' = pc /\ SameKids /\ LiveOf(s)' = LiveOf(s)
        /\ pc[s] \in TrackingPCs
    BY <1>12, TrackWrites DEF Track, Record, LiveOf
  <2>2. /\ res[s].procs \subseteq res'[s].procs
        /\ res[s].procs \cup pending[s].procs \subseteq res'[s].procs \cup pending'[s].procs
    BY <1>12 DEF Track, Resources, Nothing
  <2> QED BY <2>1, <2>2 DEF PipelineOf, Childless, PidsKept, Filed, TrackingPCs
<1> QED BY <1>4, <1>5, <1>6, <1>7, <1>8, <1>9, <1>10, <1>11, <1>12 DEF WorkerActs, WorkerStep

\* A worker's step keeps account of the pipelines and of what Stop read.
LEMMA WorkerPipelines ==
  ASSUME Ground, Awaited, Pipelines, NEW s \in Sessions, WorkerActs(s) PROVE Pipelines'
<1> USE ActorParts, FieldTypes, MoreTypes DEF Ground
<1>1. /\ \A t \in Sessions \ {s} : kids'[t] = kids[t] /\ epoch'[t] = epoch[t]
      /\ disk' = disk \/ (disk'.res = res'[s] /\ disk'.sess = s)
      /\ pc'[s] # "none"
      /\ \/ live' \subseteq live /\ epoch'[s] = epoch[s]
         \/ StartEncoder(s) \/ StartTransport(s)
  BY WorkerRuns DEF WorkerActs
<1>2. /\ live' \subseteq live \cup {p \in Proc : p.owner = s /\ p.epoch > 0}
      /\ Starting(s)' \/ epoch'[s] # 1 \/ (live' \subseteq live /\ epoch'[s] = epoch[s])
  <2>1. CASE StartEncoder(s)
    <3>1. /\ live' = live \cup {[owner |-> s, tool |-> "ffmpeg", epoch |-> epoch[s] + 1]}
          /\ epoch[s] < MaxEpochs /\ epoch'[s] = epoch[s] + 1 /\ pc'[s] = "transport"
      BY <2>1 DEF StartEncoder, Goto
    <3>2. [owner |-> s, tool |-> "ffmpeg", epoch |-> epoch[s] + 1] \in Proc
      BY <3>1 DEF Proc, Tools
    <3> QED BY <3>1, <3>2 DEF Starting
  <2>2. CASE StartTransport(s)
    <3>1. /\ live' \subseteq live \cup Pipeline(s) /\ epoch[s] > 0 /\ epoch'[s] = epoch[s]
          /\ pc[s] = "transport" /\ (epoch[s] > 1 \/ pc'[s] = "announce")
      BY <2>2 DEF StartTransport, Goto, Awaited, EpochsCounted
    <3>2. Pipeline(s) \subseteq {p \in Proc : p.owner = s /\ p.epoch > 0}
      BY <3>1 DEF Pipeline, Proc
    <3> QED BY <3>1, <3>2 DEF Starting
  <2> QED BY <1>1, <2>1, <2>2
<1>3. EpochsRun'
  BY <1>2 DEF Pipelines, EpochsRun
<1>4. ASSUME NEW t \in Sessions PROVE PipelineOf(t)'
  <2>1. CASE t = s
    BY <2>1, WorkerPipeline DEF Pipelines
  <2>2. CASE t # s
    <3>1. LiveOf(t)' \subseteq LiveOf(t)
      BY <1>2, <2>2 DEF LiveOf
    <3>2. Left(t)
      BY <1>1, <2>2, <3>1, OthersRest DEF Left
    <3> QED BY <3>2, LeftPipeline DEF Pipelines
  <2> QED BY <2>1, <2>2
<1>5. disk'.sess = s \/ (disk'.sess = disk.sess /\ Working(s))
  <2>1. pc[s] = "boot" => Boot(s)
    BY DEF WorkerActs, WorkerStep, WorkerRaises, RaisingPCs, Polling, Discover, Plan, CreateMix,
       KeepDefault, Track, TrackingPCs, RouteMove, RouteLoopback, RouteDone, MoveFails,
       StartEncoder, StartTransport, Announce, ToolExited, Reconcile, Refresh, Forget, StopSeen,
       TermChildren, Cleanup, List, Restore, RestoreDone, UnloadTracked, UnloadDone,
       RestoreDefault, WriteFinal, Exit, Goto
  <2> QED BY <1>1, <2>1 DEF WorkerActs, Working, Boot, Record
<1>6. ReapedIsGone'
  BY <1>5 DEF ReapedIsGone, Serialized, WorkingIsWritten, Actors
<1>7. ASSUME NEW c \in Clients PROVE ReadOf(c)'
  <2>1. pc'[c] = pc[c] /\ own'[c] = own[c] /\ res'[c] = res[c] /\ op'[c] = op[c]
    BY WorkerKeepsClients DEF WorkerActs, ActsAlone, clients
  <2>2. pc[c] \notin Alone
    BY DEF Serialized, AloneAtWork, WorkerActs
  <2>3. ASSUME NEW t \in Sessions, Only(t)', pc[c] \in {"signal", "dying"}
        PROVE  LiveOf(t)' \subseteq res'[c].procs
    <3>1. t = s
      BY <1>1, <2>3 DEF Only
    <3>2. ~Starting(s)'
      <4>1. \A d \in Clients : pc'[d] = "await" => d = c
        BY <2>3 DEF WorkerActs, ActsAlone, Serialized, BusyHoldsLock
      <4>2. pc'[c] # "await" /\ StartIsAwaited'
        BY <2>1, <2>3, WorkerAwaited DEF Awaited
      <4> QED BY <4>1, <4>2 DEF StartIsAwaited
    <3>3. live' \subseteq live /\ Only(s)
      BY <1>2, <2>3, <3>1, <3>2, OthersRest DEF Only, WorkerActs, Engaged, Alive
    <3> QED BY <2>1, <2>3, <3>1, <3>3 DEF Pipelines, ReadOf, LiveOf
  <2> QED BY <2>1, <2>2, <2>3 DEF Pipelines, ReadOf, Alone, CleanupPCs
<1> QED BY <1>3, <1>4, <1>6, <1>7 DEF Pipelines

\* A step that is no worker's.
LEMMA LeftPipelines ==
  ASSUME TypeOK, Children, Pipelines, live' \subseteq live, \A s \in Sessions : Left(s)
  PROVE  /\ \A s \in Sessions : PipelineOf(s)' /\ (Only(s)' => Only(s))
         /\ EpochsRun' /\ (disk'.sess = disk.sess => ReapedIsGone')
<1>1. \A s \in Sessions : PipelineOf(s)'
  BY LeftPipeline DEF Pipelines
<1>2. \A s \in Sessions : Only(s)' => Only(s)
  BY DEF Only, Left, NothingUnrecorded, Settled
<1>3. EpochsRun'
  BY DEF Pipelines, EpochsRun
<1>4. \A s \in Sessions : LiveOf(s)' \subseteq LiveOf(s)
  BY DEF LiveOf
<1> QED BY <1>1, <1>2, <1>3, <1>4 DEF Pipelines, ReapedIsGone

\* What Stop reads names the first pipeline, if it runs.
LEMMA ReadNamesPipeline ==
  ASSUME Ground, Pipelines, NEW c \in Clients, NEW s \in Sessions, Only(s), ~Starting(s),
         pc[s] # "boot"
  PROVE  LiveOf(s) \subseteq disk.res.procs
<1> USE FieldTypes DEF Ground
<1>1. CASE pc[s] \in Quiet
  BY <1>1 DEF Children, QuietIsSilent
<1>2. CASE pc[s] \in {"wait", "reconcile", "term"}
  <2>1. Told(s)
    BY <1>2 DEF Serialized, WorkingIsWritten, Working, Engaged, Alive, Told
  <2> QED BY <1>2, <2>1 DEF Only, Pipelines, PipelineOf, PidsKept, Filed
<1>3. CASE pc[s] = "dead"
  <2>1. CASE disk.sess = s
    BY <1>3, <2>1 DEF Only, Pipelines, PipelineOf, Filed
  <2>2. CASE disk.sess = NoOne
    BY <2>2 DEF Pipelines, ReapedIsGone
  <2>3. disk.sess \in {s, NoOne}
    BY MoreTypes DEF Only, Serialized, BootIsUnwritten, SessionFile
  <2> QED BY <2>1, <2>2, <2>3
<1>4. CASE pc[s] \in {"announce", "transport"}
  BY <1>4 DEF Starting, Only
<1> QED BY <1>1, <1>2, <1>3, <1>4 DEF TypeOK, WorkerPCs, CleanupPCs, Quiet

\* Stop's signal ends no process by itself and finds the pipeline recorded.
LEMMA SignalPipelines ==
  ASSUME Ground, Awaited, Pipelines, Commands, NEW c \in Clients, Signal(c)
  PROVE  /\ \A s \in Sessions : PipelineOf(s)'
         /\ EpochsRun' /\ ReapedIsGone' /\ ReadOf(c)'
<1> USE ActorParts, FieldTypes, MoreTypes DEF Ground
<1>1. PICK s \in Sessions : s = own[c] /\ Alive(s) /\ pc[c] = "signal"
  BY DEF Signal, Alive
<1>2. PICK x : InFlight(s, x) /\ pc' = [pc EXCEPT ![c] = "dying", ![s] = x]
  BY <1>1 DEF Signal
<1>3. /\ UNCHANGED <<res, live, epoch, kids, op>> /\ disk' = Record(s, "stopping", res[s])
  BY <1>1 DEF Signal, HandleStop, clients
<1>4. /\ pc'[c] = "dying" /\ \A t \in Sessions : pc'[t] = IF t = s THEN x ELSE pc[t]
  BY <1>1, <1>2
<1>5. ~Starting(s) /\ pc[s] # "boot" /\ disk.sess = s
  BY <1>1, StartingWaits DEF ClientStep, Awaited, Commands, CommandOf
<1>6. \A t \in Sessions \ {s} : pending'[t] = pending[t]
  BY <1>2 DEF InFlight, LostCall
<1>7. \/ x = pc[s]
      \/ pc[s] \in RoutingPCs /\ x = "term"
      \/ pc[s] = "list" /\ x = "restore"
  BY <1>2, InFlightMoves
<1>8. /\ disk'.sess = s /\ disk'.res = res[s] /\ s # NoOne
      /\ \A t \in Sessions : LiveOf(t)' = LiveOf(t)
  BY <1>3 DEF Record, LiveOf, Actors
<1>9. ASSUME NEW t \in Sessions \ {s} PROVE PipelineOf(t)'
  <2>1. Left(t)
    BY <1>3, <1>4, <1>6, <1>8 DEF Left
  <2> QED BY <2>1, LeftPipeline DEF Pipelines
<1>10. PipelineOf(s)'
  <2>1. Childless(s)'
    BY <1>3, <1>4, <1>7 DEF Pipelines, PipelineOf, Childless, Young
  <2>2. PidsKept(s)'
    BY <1>3, <1>8 DEF PidsKept
  <2>3. pc[s] \in RoutingPCs \ {"reconcile"} => LiveOf(s) = {}
    BY DEF Children, QuietIsSilent, Quiet, RoutingPCs
  <2>4. x \notin {"announce", "dead"}
    BY <1>1, <1>5, <1>7 DEF Starting, Alive
  <2>5. Filed(s)'
    BY <1>3, <1>4, <1>7, <1>8, <2>3, <2>4 DEF Pipelines, PipelineOf, Filed
  <2> QED BY <2>1, <2>2, <2>5 DEF PipelineOf
<1>11. EpochsRun' /\ ReapedIsGone'
  BY <1>3, <1>8 DEF Pipelines, EpochsRun, ReapedIsGone
<1>12. ASSUME NEW t \in Sessions, Only(t)' PROVE LiveOf(t)' \subseteq res'[c].procs
  <2>1. t = s
    BY <1>1, <1>4, <1>7, <1>12 DEF Only, Alive
  <2>2. Only(s)
    BY <1>1, <1>3, <1>4, <1>12, <2>1 DEF Only, Alive
  <2> QED BY <1>1, <1>3, <1>8, <2>1, <2>2 DEF Pipelines, ReadOf
<1>13. ReadOf(c)'
  BY <1>4, <1>12 DEF ReadOf, CleanupPCs
<1> QED BY <1>9, <1>10, <1>11, <1>13

\* A command's step.
LEMMA ClientLeaves ==
  ASSUME Ground, NEW c \in Clients, ClientStep(c) \/ Refuse(c), ~Signal(c)
  PROVE  live' \subseteq live /\ \A s \in Sessions : Left(s)
<1> USE ActorParts, FieldTypes DEF Goto, Ground
<1>1. CASE Spawn(c)
  <2>1. PICK s \in Sessions : pc[s] = "none" /\ pc' = [pc EXCEPT ![c] = "await", ![s] = "boot"]
    BY <1>1 DEF Spawn
  <2>2. UNCHANGED <<live, kids, epoch, pending, res, disk>>
    BY <1>1 DEF Spawn
  <2>3. \A t \in Sessions : pc'[t] = IF t = s THEN "boot" ELSE pc[t]
    BY <2>1
  <2> QED BY <2>1, <2>2, <2>3 DEF Left, LiveOf
<1>2. CASE \/ Guard(c) \/ Cleanup(c) \/ SweepList(c) \/ Sweep(c) \/ SweepDone(c) \/ Started(c)
           \/ ReadState(c) \/ WorkerGone(c) \/ Reap(c) \/ WriteStopped(c) \/ Refuse(c)
  <2>1. live' \subseteq live /\ UNCHANGED <<kids, epoch, pending>>
    BY <1>2 DEF Guard, Cleanup, List, Restore, RestoreDone, UnloadTracked, UnloadDone,
       RestoreDefault, SweepList, Sweep, SweepDone, Started, ReadState, WorkerGone, Reap,
       WriteStopped, Refuse, workers
  <2>2. \A s \in Sessions : pc'[s] = pc[s] /\ res'[s] = res[s]
    BY <1>2 DEF Guard, Cleanup, List, Restore, RestoreDone, UnloadTracked, UnloadDone,
       RestoreDefault, SweepList, Sweep, SweepDone, Started, ReadState, WorkerGone, Reap,
       WriteStopped, Refuse, Release
  <2>3. disk' = disk \/ disk'.sess = NoOne
    BY <1>2 DEF Guard, Cleanup, List, Restore, RestoreDone, UnloadTracked, UnloadDone,
       RestoreDefault, SweepList, Sweep, SweepDone, Started, ReadState, WorkerGone, Reap,
       WriteStopped, Refuse, StoppedState
  <2> QED BY <2>1, <2>2, <2>3 DEF Left, LiveOf, Actors
<1> QED BY <1>1, <1>2 DEF ClientStep

\* Another step of a command keeps what it has read.
LEMMA ClientReads ==
  ASSUME Ground, Awaited, Pipelines, NEW c \in Clients, ClientStep(c) \/ Refuse(c), ~Signal(c)
  PROVE  ReadOf(c)'
<1> USE ActorParts, FieldTypes, MoreTypes DEF Goto, Ground
<1>1. ReadOf(c) /\ live' \subseteq live /\ \A s \in Sessions : Only(s)' => Only(s)
  BY ClientLeaves, LeftPipelines DEF Pipelines
<1>2. \A s \in Sessions : LiveOf(s)' \subseteq LiveOf(s)
  BY <1>1 DEF LiveOf
<1>3. CASE Spawn(c) \/ Started(c) \/ Refuse(c) \/ WriteStopped(c)
  <2>1. pc'[c] \in {"await", "idle"}
    BY <1>3 DEF Spawn, Started, Refuse, WriteStopped, Release
  <2> QED BY <2>1 DEF ReadOf, CleanupPCs
<1>4. CASE Guard(c)
  <2>1. pc'[c] = "list" /\ op' = op /\ op[c] = "start"
    BY <1>1, <1>4 DEF Guard, clients, ReadOf
  <2> QED BY <2>1 DEF ReadOf, CleanupPCs
<1>5. CASE ReadState(c)
  <2>1. pc'[c] \in {"signal", "reap"} /\ res'[c].procs = disk.res.procs
    BY <1>5 DEF ReadState
  <2>2. \A s \in Sessions : ~Starting(s) /\ pc[s] # "boot"
    BY <1>5, StartingWaits DEF ClientStep, Awaited
  <2>3. \A s \in Sessions : Only(s) => LiveOf(s) \subseteq disk.res.procs
    BY <2>2, ReadNamesPipeline
  <2> QED BY <1>1, <1>2, <2>1, <2>3 DEF ReadOf, CleanupPCs
<1>6. CASE WorkerGone(c)
  <2>1. pc'[c] = "reap" /\ pc[c] \in {"signal", "dying"} /\ res' = res
    BY <1>6 DEF WorkerGone
  <2> QED BY <1>1, <1>2, <2>1 DEF ReadOf, CleanupPCs
<1>7. CASE Reap(c)
  <2>1. pc'[c] = "list" /\ pc[c] = "reap" /\ live' = live \ res[c].procs
    BY <1>7 DEF Reap
  <2>2. \A s \in Sessions : Only(s) => LiveOf(s)' = {}
    BY <1>1, <2>1 DEF ReadOf, LiveOf
  <2> QED BY <1>1, <2>1, <2>2 DEF ReadOf, CleanupPCs
<1>8. CASE Cleanup(c) \/ SweepList(c) \/ Sweep(c) \/ SweepDone(c)
  <2>1. /\ pc[c] \in CleanupPCs \cup {"sweepList", "sweep"}
        /\ pc'[c] \in CleanupPCs \cup {"sweepList", "sweep", "preflight", "writeStopped"}
        /\ op' = op /\ (pc'[c] = "writeStopped" => op[c] # "start")
    BY <1>8 DEF Cleanup, List, Restore, RestoreDone, UnloadTracked, UnloadDone, RestoreDefault,
       AfterCleanup, SweepList, Sweep, SweepDone, CleanupPCs, clients
  <2>2. op[c] \in {"start", "stop"}
    OBVIOUS
  <2> QED BY <1>1, <1>2, <2>1, <2>2 DEF ReadOf, CleanupPCs
<1> QED BY <1>3, <1>4, <1>5, <1>6, <1>7, <1>8 DEF ClientStep

\* A command's step keeps account of the pipelines.
LEMMA ClientPipelines ==
  ASSUME Ground, Awaited, Pipelines, Commands, NEW c \in Clients, ClientStep(c) \/ Refuse(c)
  PROVE  Pipelines'
<1> USE ActorParts, FieldTypes DEF Goto, Ground
<1>1. /\ \A s \in Sessions : PipelineOf(s)'
      /\ EpochsRun' /\ ReapedIsGone' /\ ReadOf(c)'
  <2>1. CASE Signal(c)
    BY <2>1, SignalPipelines
  <2>2. CASE ~Signal(c)
    <3>1. /\ \A s \in Sessions : PipelineOf(s)' /\ (Only(s)' => Only(s))
          /\ EpochsRun' /\ (disk'.sess = disk.sess => ReapedIsGone')
      BY <2>2, ClientLeaves, LeftPipelines
    <3>2. ReapedIsGone'
      <4>1. CASE WriteStopped(c)
        <5>1. pc[c] = "writeStopped" /\ live' = live
          BY <4>1 DEF WriteStopped
        <5>2. \A s \in Sessions : Only(s) => LiveOf(s) = {}
          BY <5>1 DEF Pipelines, ReadOf
        <5> QED BY <3>1, <5>1, <5>2 DEF ReapedIsGone, LiveOf
      <4>2. CASE ~WriteStopped(c)
        <5>1. disk' = disk
          BY <2>2, <4>2 DEF ClientStep, Guard, Cleanup, List, Restore, RestoreDone,
             UnloadTracked, UnloadDone, RestoreDefault, SweepList, Sweep, SweepDone, Spawn,
             Started, ReadState, WorkerGone, Reap, Refuse
        <5> QED BY <3>1, <5>1
      <4> QED BY <4>1, <4>2
    <3> QED BY <2>2, <3>1, <3>2, ClientReads
  <2> QED BY <2>1, <2>2
<1>2. ASSUME NEW d \in Clients \ {c} PROVE ReadOf(d)'
  <2>1. pc'[d] = "idle"
    BY OthersIdle
  <2> QED BY <2>1 DEF ReadOf, CleanupPCs
<1> QED BY <1>1, <1>2 DEF Pipelines

\* What happens outside.
LEMMA OutsidePipelines ==
  ASSUME Patient, Ground, Pipelines, Outside, \A s \in Sessions : ~WorkerRaises(s)
  PROVE  Pipelines'
<1> USE ActorParts, FieldTypes DEF Goto, Ground
<1>1. /\ live' \subseteq live /\ UNCHANGED <<kids, epoch, pending, res, disk>>
      /\ \A s \in Sessions : pc'[s] \in {pc[s], "dead"} \/ (pc[s] = "boot" /\ pc'[s] = "done")
      /\ \A c \in Clients : \/ pc'[c] = pc[c] /\ op'[c] = op[c]
                            \/ pc'[c] \in {"idle", "read"}
                            \/ pc'[c] = "guard" /\ op'[c] = "start"
                            \/ pc[c] = "dying" /\ pc'[c] = "reap"
  <2>1. CASE Surroundings \/ ToolExits
    BY <2>1 DEF Surroundings, ToolExits, clients, workers
  <2>2. CASE \E s \in Sessions : BootFails(s) \/ WorkerKilled(s)
    BY <2>2 DEF BootFails, WorkerKilled, clients, workers
  <2>3. \A s \in Sessions : ~InterruptForeground(s) /\ \A k \in Configs : ~RunForeground(s, k)
    BY DEF InterruptForeground, RunForeground, NoBypass, Patient, Serialized
  <2>4. ASSUME NEW c \in Clients, NEW o \in {"start", "stop"}, Begin(c, o)
        PROVE  /\ UNCHANGED <<live, kids, epoch, pending, res, disk>>
               /\ \A s \in Sessions : pc'[s] = pc[s]
               /\ \A d \in Clients \ {c} : pc'[d] = pc[d] /\ op'[d] = op[d]
               /\ pc'[c] = "read" \/ (pc'[c] = "guard" /\ op'[c] = "start")
    BY <2>4, MoreTypes DEF Begin, workers
  <2>5. \A c \in Clients : ~Abandon(c)
    BY DEF Abandon, Patient, NoBypass
  <2>6. CASE \E c \in Clients : ClientKilled(c)
    BY <2>6 DEF ClientKilled, Release, workers
  <2>7. ASSUME NEW c \in Clients, KillWorker(c)
        PROVE  /\ UNCHANGED <<live, kids, epoch, pending, res, disk, op>>
               /\ \A s \in Sessions : pc'[s] \in {pc[s], "dead"}
               /\ \A d \in Clients : pc'[d] = pc[d] \/ (pc[d] = "dying" /\ pc'[d] = "reap")
    <3>1. /\ own[c] \in Sessions /\ pc[c] = "dying"
          /\ pc' = [pc EXCEPT ![c] = "reap", ![own[c]] = "dead"]
      BY <2>7 DEF KillWorker, Alive
    <3>2. \A t \in Sessions : pc'[t] = IF t = own[c] THEN "dead" ELSE pc[t]
      BY <3>1
    <3>3. \A d \in Clients : pc'[d] = IF d = c THEN "reap" ELSE pc[d]
      BY <3>1
    <3> QED BY <2>7, <3>1, <3>2, <3>3 DEF KillWorker, clients, workers
  <2>8. CASE \E c \in Clients, o \in {"start", "stop"} : Begin(c, o)
    BY <2>4, <2>8
  <2>9. CASE \E c \in Clients : KillWorker(c)
    BY <2>7, <2>9
  <2> QED BY <2>1, <2>2, <2>3, <2>5, <2>6, <2>8, <2>9 DEF Outside
<1>2. \A s \in Sessions : LiveOf(s)' \subseteq LiveOf(s)
  BY <1>1 DEF LiveOf
<1>3. \A s \in Sessions : Left(s)
  BY <1>1, <1>2 DEF Left
<1>4. /\ \A s \in Sessions : PipelineOf(s)' /\ (Only(s)' => Only(s))
      /\ EpochsRun' /\ ReapedIsGone'
  BY <1>1, <1>3, LeftPipelines
<1>5. ASSUME NEW c \in Clients PROVE ReadOf(c)'
  BY <1>1, <1>2, <1>4 DEF Pipelines, ReadOf, CleanupPCs
<1> QED BY <1>4, <1>5 DEF Pipelines

\* So the first pipeline stays accounted for.
LEMMA PipelinesAreFiled == ASSUME Patient PROVE Spec => []Pipelines
<1>1. Init => Pipelines
  BY ActorParts DEF Init, Pipelines, PipelineOf, Childless, PidsKept, Told, Alive, Filed, ReadOf,
     ReapedIsGone, EpochsRun, LiveOf, CleanupPCs
<1>2. ASSUME Ground, Pipelines, UNCHANGED vars PROVE Pipelines'
  <2>1. \A s \in Sessions : LiveOf(s)' \subseteq LiveOf(s)
    BY <1>2 DEF vars, LiveOf
  <2>2. \A s \in Sessions : Left(s)
    BY <1>2, <2>1 DEF vars, workers, Left
  <2>3. \A c \in Clients : ReadOf(c)'
    BY <1>2, <2>1 DEF vars, workers, clients, Pipelines, ReadOf, Only, NothingUnrecorded, Settled
  <2> QED BY <1>2, <2>2, <2>3, LeftPipelines DEF vars, Ground, Pipelines
<1>3. ASSUME Ground, Pipelines, NEW s \in Sessions, Exit(s) PROVE Pipelines'
  <2>1. /\ UNCHANGED <<clients, workers, res, disk, live>>
        /\ pc[s] = "exiting" /\ \A t \in Sessions : pc'[t] = IF t = s THEN "done" ELSE pc[t]
        /\ \A c \in Clients : pc'[c] = pc[c]
    BY <1>3, ActorParts, FieldTypes DEF Exit, Goto, Ground
  <2>2. \A t \in Sessions : Left(t)
    BY <2>1 DEF workers, Left, LiveOf
  <2>3. /\ \A t \in Sessions : PipelineOf(t)' /\ (Only(t)' => Only(t))
        /\ EpochsRun' /\ ReapedIsGone'
    BY <1>3, <2>1, <2>2, LeftPipelines DEF Ground
  <2>4. \A c \in Clients : ReadOf(c)'
    BY <1>3, <2>1, <2>3 DEF clients, Pipelines, ReadOf, LiveOf
  <2> QED BY <2>3, <2>4 DEF Pipelines
<1>4. ASSUME Ground, Awaited, Commands, Pipelines, Next PROVE Pipelines'
  <2>1. CASE \E s \in Sessions : WorkerStep(s) \/ WorkerRaises(s)
    <3>1. PICK s \in Sessions : WorkerStep(s) \/ WorkerRaises(s)
      BY <2>1
    <3>2. CASE ~Exit(s)
      <4>1. WorkerActs(s)
        BY <1>4, <3>1, <3>2, WorkerActsOrExits DEF Ground
      <4> QED BY <1>4, <4>1, WorkerPipelines
    <3> QED BY <1>3, <1>4, <3>2
  <2>2. CASE \E c \in Clients : ClientStep(c) \/ Refuse(c)
    BY <1>4, <2>2, ClientPipelines
  <2>3. CASE Outside /\ \A s \in Sessions : ~WorkerRaises(s)
    BY <1>4, <2>3, OutsidePipelines
  <2> QED BY <1>4, <2>1, <2>2, <2>3 DEF Next
<1>5. Ground /\ Awaited /\ Commands /\ Pipelines /\ [Next]_vars => Pipelines'
  BY <1>2, <1>4
<1> QED BY <1>1, <1>5, GroundAlways, StartsAreAwaited, BooksAreKept, PTL DEF Spec

\* Stop after a crash: when a worker is killed with nothing unrecorded, at any
\* moment, cleanup_resources and the sweep with what Stop read in session.json,
\* if their calls succeed, leave no module and no stream on the Mix, and terminate_processes leaves no
\* process of the first pipeline of the only Session.
THEOREM StopCleansAfterCrashAlways == ASSUME Patient PROVE Spec => []StopCleansAfterCrash
<1>1. ASSUME Ground, Books, Pipelines PROVE StopCleansAfterCrash
  <2> SUFFICES ASSUME disk.sess = NoOne, \A s \in Sessions : NothingUnrecorded(s)
               PROVE  /\ modules = {} /\ \A i \in Inputs : at[i] # Mix
                      /\ \A p \in live : Superseded(p)
    BY DEF StopCleansAfterCrash
  <2>1. modules = {}
    <3> SUFFICES ASSUME NEW m \in modules PROVE FALSE
      OBVIOUS
    <3>1. m.owner \in Sessions
      BY <1>1 DEF Ground, TypeOK, ServerTypeOK, Module
    <3>2. pending[m.owner] # Nothing
      BY <1>1, <3>1 DEF Books, Holdings, Backed, Blank
    <3> QED BY <3>1, <3>2 DEF NothingUnrecorded, Settled
  <2>2. \A i \in Inputs : at[i] # Mix
    BY <1>1, <2>1 DEF Ground, MixNeeded, MixExists
  <2>3. ASSUME NEW p \in live, ~Superseded(p) PROVE FALSE
    <3>1. p.owner \in Sessions /\ p.epoch \in Nat /\ p.epoch = epoch[p.owner] /\ p.epoch > 0
      BY <1>1, MoreTypes DEF Ground, TypeOK, Proc, Children, OwnEpoch, Pipelines, EpochsRun
    <3>2. Only(p.owner)
      BY <2>3, <3>1 DEF Superseded, Only
    <3> QED BY <1>1, <3>1, <3>2 DEF Pipelines, ReapedIsGone, LiveOf
  <2> QED BY <2>1, <2>2, <2>3
<1>2. Ground /\ Books /\ Pipelines => StopCleansAfterCrash
  BY <1>1
<1> QED BY <1>2, GroundAlways, BooksAreKept, PipelinesAreFiled, PTL
=============================================================================
