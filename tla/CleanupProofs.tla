--------------------------- MODULE CleanupProofs ---------------------------
(***************************************************************************)
(* Proofs about what a worker keeps account of and takes down, whatever    *)
(* happens outside: its ffmpeg and ssh processes, its modules, the Mix.    *)
(***************************************************************************)
EXTENDS SessionProofs

USE ServerAssumption, SessionAssumption

-----------------------------------------------------------------------------
(* The processes of a worker.                                              *)

\* A worker that has no process, or that holds the ones it has in
\* self.children. Between the two, in "transport", an ffmpeg runs that is not
\* a child yet, and a worker that was killed leaves what it had.
Quiet == {"none", "boot", "discover", "plan", "mix", "mixDefault", "route", "encoder",
          "refresh", "list", "restore", "unload", "default", "final", "exiting", "done"}
Held  == {"announce", "wait", "reconcile", "term"}

OwnEpoch      == \A p \in live : p.epoch = epoch[p.owner]
QuietIsSilent == \A s \in Sessions : pc[s] \in Quiet => LiveOf(s) = {}
HeldIsKnown   == \A s \in Sessions : pc[s] \in Held => LiveOf(s) \subseteq kids[s]

Children == OwnEpoch /\ QuietIsSilent /\ HeldIsKnown

\* A step that starts no process and after which every worker is still quiet,
\* or still holds its children, or is dead.
ProcsStay ==
  /\ live' \subseteq live /\ kids' = kids /\ epoch' = epoch
  /\ \A s \in Sessions : \/ pc'[s] = pc[s] \/ pc'[s] = "dead"
                         \/ pc[s] \in Quiet /\ pc'[s] \in Quiet \cup Held
                         \/ pc[s] \in Held /\ pc'[s] \in Held

\* Such a step keeps account of the children.
LEMMA StayChildren ==
  ASSUME TypeOK, Children, ProcsStay PROVE Children'
<1>1. \A s \in Sessions : LiveOf(s)' \subseteq LiveOf(s)
  BY DEF ProcsStay, LiveOf
<1>2. OwnEpoch'
  BY DEF Children, OwnEpoch, ProcsStay
<1>3. QuietIsSilent'
  BY <1>1 DEF Children, QuietIsSilent, ProcsStay, Quiet, Held
<1>4. HeldIsKnown'
  BY <1>1 DEF Children, QuietIsSilent, HeldIsKnown, ProcsStay, Quiet, Held
<1> QED BY <1>2, <1>3, <1>4 DEF Children

\* Where every actor is after one of them moves.
LEMMA Moves ==
  ASSUME TypeOK, NEW a \in Actors, NEW x, pc' = [pc EXCEPT ![a] = x]
  PROVE  \A b \in Actors : pc'[b] = IF b = a THEN x ELSE pc[b]
  BY DEF TypeOK

\* A worker is no command.
LEMMA ActorParts ==
  /\ \A s \in Sessions : s \in Actors /\ s \notin Clients
  /\ \A c \in Clients : c \in Actors /\ c \notin Sessions
  BY DEF Actors

\* Every process is one that its owner's pipeline is made of.
LEMMA LiveIsPipeline ==
  ASSUME TypeOK, OwnEpoch, NEW s \in Sessions PROVE LiveOf(s) \subseteq Pipeline(s)
<1> SUFFICES ASSUME NEW p \in LiveOf(s) PROVE p \in Pipeline(s)
  OBVIOUS
<1>1. p \in Proc /\ p.owner = s /\ p.epoch = epoch[s]
  BY DEF LiveOf, TypeOK, OwnEpoch
<1>2. p = [owner |-> s, tool |-> p.tool, epoch |-> epoch[s]] /\ p.tool \in Tools
  BY <1>1 DEF Proc
<1> QED BY <1>2 DEF Pipeline

\* A worker's steps keep the account of its processes.
LEMMA WorkerChildren ==
  ASSUME TypeOK, Children, NEW s \in Sessions, WorkerStep(s) \/ WorkerRaises(s)
  PROVE  Children'
<1> USE ActorParts DEF Goto
<1>1. CASE \/ Boot(s) \/ Discover(s) \/ Plan(s) \/ CreateMix(s) \/ KeepDefault(s)
           \/ RouteDone(s) \/ Announce(s) \/ WriteFinal(s) \/ Exit(s)
  <2>1. UNCHANGED <<live, kids, epoch>>
    BY <1>1 DEF Boot, Discover, Plan, CreateMix, KeepDefault, RouteDone, Announce,
       WriteFinal, Exit, workers
  <2>2. \E x : /\ pc' = [pc EXCEPT ![s] = x]
               /\ \/ pc[s] \in Quiet /\ x \in Quiet \cup Held
                  \/ pc[s] \in Held /\ x \in Held
    BY <1>1 DEF Boot, Discover, Plan, CreateMix, KeepDefault, RouteDone, Announce,
       WriteFinal, Exit, Quiet, Held
  <2> QED BY <2>1, <2>2, Moves, StayChildren DEF ProcsStay
<1>2. CASE Track(s) \/ RouteMove(s) \/ RouteLoopback(s)
  BY <1>2, StayChildren DEF Track, RouteMove, RouteLoopback, ProcsStay
<1>3. CASE ToolExited(s) \/ Reconcile(s) \/ StopSeen(s)
  <2>1. UNCHANGED <<live, kids, epoch>>
    BY <1>3 DEF ToolExited, Reconcile, StopSeen, workers
  <2>2. \E x : pc' = [pc EXCEPT ![s] = x] /\ pc[s] \in Held /\ x \in Held
    BY <1>3 DEF ToolExited, Reconcile, StopSeen, Held
  <2> QED BY <2>1, <2>2, Moves, StayChildren DEF ProcsStay
<1>4. CASE Cleanup(s)
  <2>1. UNCHANGED <<live, kids, epoch>>
    BY <1>4 DEF Cleanup, List, Restore, RestoreDone, UnloadTracked, UnloadDone,
       RestoreDefault, workers
  <2>2. \E x : pc' = [pc EXCEPT ![s] = x] /\ pc[s] \in Quiet /\ x \in Quiet
    BY <1>4 DEF Cleanup, List, Restore, RestoreDone, UnloadTracked, UnloadDone,
       RestoreDefault, AfterCleanup, Quiet, TypeOK
  <2> QED BY <2>1, <2>2, Moves, StayChildren DEF ProcsStay
<1>5. CASE MoveFails(s) \/ WorkerRaises(s)
  <2>1. /\ Raise(s)
        /\ pc[s] \in Quiet \cup Held \cup {"transport"}
    BY <1>5 DEF MoveFails, WorkerRaises, RaisingPCs, Polling, Quiet, Held
  <2>2. pc' = [pc EXCEPT ![s] = "term"] /\ UNCHANGED <<kids, epoch>>
    BY <2>1 DEF Raise
  <2>3. CASE pc[s] # "transport"
    BY <2>1, <2>2, <2>3, Moves, StayChildren DEF Raise, ProcsStay, Held, Quiet
  <2>4. CASE pc[s] = "transport"
    <3>1. live' = live \ Pipeline(s)
      BY <2>1, <2>4 DEF Raise
    <3>2. LiveOf(s)' = {}
      BY <3>1, LiveIsPipeline DEF LiveOf, Children
    <3>3. \A t \in Sessions : LiveOf(t)' \subseteq LiveOf(t)
      BY <3>1 DEF LiveOf
    <3> QED BY <2>2, <3>1, <3>2, <3>3, Moves
            DEF Children, OwnEpoch, QuietIsSilent, HeldIsKnown, Held, Quiet
  <2> QED BY <2>3, <2>4
<1>6. CASE StartEncoder(s)
  <2> DEFINE p == [owner |-> s, tool |-> "ffmpeg", epoch |-> epoch[s] + 1]
  <2>1. /\ pc[s] = "encoder" /\ pc' = [pc EXCEPT ![s] = "transport"]
        /\ epoch' = [epoch EXCEPT ![s] = epoch[s] + 1]
        /\ live' = live \cup {p} /\ kids' = kids
    BY <1>6 DEF StartEncoder
  <2>2. LiveOf(s) = {}
    BY <2>1 DEF Children, QuietIsSilent, Quiet
  <2>3. \A q \in live : q \in Proc /\ q.owner \in Sessions /\ q.owner # s
    BY <2>2 DEF LiveOf, TypeOK, Proc
  <2>4. epoch'[s] = p.epoch /\ \A t \in Sessions \ {s} : epoch'[t] = epoch[t]
    BY <2>1 DEF TypeOK
  <2>5. OwnEpoch'
    BY <2>1, <2>3, <2>4 DEF Children, OwnEpoch
  <2>6. \A t \in Sessions \ {s} : LiveOf(t)' = LiveOf(t) /\ kids'[t] = kids[t]
    BY <2>1 DEF LiveOf
  <2>7. \A t \in Sessions : pc'[t] = IF t = s THEN "transport" ELSE pc[t]
    BY <2>1, Moves
  <2> HIDE DEF p
  <2>8. QuietIsSilent' /\ HeldIsKnown'
    BY <2>6, <2>7 DEF Children, QuietIsSilent, HeldIsKnown, Quiet, Held
  <2> QED BY <2>5, <2>8 DEF Children
<1>7. CASE StartTransport(s)
  <2>1. PICK x \in {"wait", "announce"} : pc' = [pc EXCEPT ![s] = x]
    BY <1>7 DEF StartTransport
  <2>2. /\ live' = live \cup {p \in Pipeline(s) : p.tool = "ssh"} /\ epoch' = epoch
        /\ kids' = [kids EXCEPT ![s] = Pipeline(s)]
    BY <1>7 DEF StartTransport
  <2>3. \A p \in Pipeline(s) : p.owner = s /\ p.epoch = epoch[s]
    BY DEF Pipeline
  <2>4. OwnEpoch'
    BY <2>2, <2>3 DEF Children, OwnEpoch
  <2>5. LiveOf(s)' \subseteq Pipeline(s) /\ kids'[s] = Pipeline(s)
    BY <2>2, LiveIsPipeline DEF Children, LiveOf, TypeOK
  <2>6. \A t \in Sessions \ {s} : LiveOf(t)' = LiveOf(t) /\ kids'[t] = kids[t]
    BY <2>2, <2>3 DEF LiveOf, TypeOK
  <2>7. \A t \in Sessions : pc'[t] = IF t = s THEN x ELSE pc[t]
    BY <2>1, Moves
  <2>8. QuietIsSilent' /\ HeldIsKnown'
    BY <2>5, <2>6, <2>7 DEF Children, QuietIsSilent, HeldIsKnown, Quiet, Held
  <2> QED BY <2>4, <2>8 DEF Children
<1>8. CASE Refresh(s) \/ TermChildren(s)
  <2>1. PICK x \in {"refresh", "list"} : pc' = [pc EXCEPT ![s] = x]
    BY <1>8 DEF Refresh, TermChildren
  <2>2. pc[s] \in Held /\ live' = live \ kids[s] /\ UNCHANGED <<kids, epoch>>
    BY <1>8 DEF Refresh, TermChildren, Polling, Held, workers
  <2>3. LiveOf(s)' = {} /\ \A t \in Sessions : LiveOf(t)' \subseteq LiveOf(t)
    BY <2>2 DEF Children, HeldIsKnown, LiveOf
  <2>4. OwnEpoch'
    BY <2>2 DEF Children, OwnEpoch
  <2> QED BY <2>1, <2>2, <2>3, <2>4, Moves
          DEF Children, QuietIsSilent, HeldIsKnown, Quiet, Held
<1>9. CASE Forget(s)
  <2>1. PICK x \in {"term", "encoder"} : pc' = [pc EXCEPT ![s] = x]
    BY <1>9 DEF Forget
  <2>2. /\ pc[s] = "refresh" /\ UNCHANGED <<live, epoch>>
        /\ kids' = [kids EXCEPT ![s] = {}]
    BY <1>9 DEF Forget
  <2>3. LiveOf(s) = {} /\ \A t \in Sessions : LiveOf(t)' = LiveOf(t)
    BY <2>2 DEF Children, QuietIsSilent, Quiet, LiveOf
  <2>4. \A t \in Sessions \ {s} : kids'[t] = kids[t]
    BY <2>2 DEF TypeOK
  <2> QED BY <2>1, <2>2, <2>3, <2>4, Moves
          DEF Children, OwnEpoch, QuietIsSilent, HeldIsKnown, Quiet, Held
<1> QED BY <1>1, <1>2, <1>3, <1>4, <1>5, <1>6, <1>7, <1>8, <1>9 DEF WorkerStep

\* A signal sends a worker that routes to its cleanup, or leaves it where it is.
LEMMA InFlightMoves ==
  ASSUME NEW s \in Sessions, NEW x, InFlight(s, x)
  PROVE  \/ x = pc[s]
         \/ pc[s] \in RoutingPCs /\ x = "term"
         \/ pc[s] = "list" /\ x = "restore"
  BY DEF InFlight, LostCall

\* Commands only end processes.
LEMMA ClientChildren ==
  ASSUME TypeOK, Children, NEW c \in Clients, ClientStep(c) \/ Refuse(c)
  PROVE  Children'
<1> USE ActorParts DEF Goto
<1>1. CASE Spawn(c)
  <2>1. PICK s \in Sessions : pc[s] = "none" /\ pc' = [pc EXCEPT ![c] = "await", ![s] = "boot"]
    BY <1>1 DEF Spawn
  <2>2. UNCHANGED <<live, kids, epoch>>
    BY <1>1 DEF Spawn
  <2>3. \A t \in Sessions : pc'[t] = IF t = s THEN "boot" ELSE pc[t]
    BY <2>1 DEF TypeOK
  <2> QED BY <2>1, <2>2, <2>3, StayChildren DEF ProcsStay, Quiet
<1>2. CASE Signal(c)
  <2>1. PICK x \in WorkerPCs :
          InFlight(own[c], x) /\ pc' = [pc EXCEPT ![c] = "dying", ![own[c]] = x]
    BY <1>2 DEF Signal
  <2>2. own[c] \in Sessions /\ UNCHANGED <<live, kids, epoch>>
    BY <1>2 DEF Signal, Alive
  <2>3. \A t \in Sessions : pc'[t] = IF t = own[c] THEN x ELSE pc[t]
    BY <2>1, <2>2 DEF TypeOK
  <2>4. x = pc[own[c]] \/ (pc[own[c]] \in Quiet \cup Held /\ x = "term")
          \/ (pc[own[c]] \in Quiet /\ x \in Quiet)
    BY <2>1, <2>2, InFlightMoves DEF RoutingPCs, Quiet, Held
  <2> QED BY <2>2, <2>3, <2>4, StayChildren DEF ProcsStay, Held
<1>3. CASE \/ Guard(c) \/ Cleanup(c) \/ SweepList(c) \/ Sweep(c) \/ SweepDone(c) \/ Started(c)
           \/ ReadState(c) \/ WorkerGone(c) \/ Reap(c) \/ WriteStopped(c) \/ Refuse(c)
  <2>1. live' \subseteq live /\ UNCHANGED <<kids, epoch>>
    BY <1>3 DEF Guard, Cleanup, List, Restore, RestoreDone, UnloadTracked, UnloadDone,
       RestoreDefault, SweepList, Sweep, SweepDone, Started, ReadState, WorkerGone, Reap,
       WriteStopped, Refuse, workers
  <2>2. pc' = pc \/ \E x : pc' = [pc EXCEPT ![c] = x]
    BY <1>3 DEF Guard, Cleanup, List, Restore, RestoreDone, UnloadTracked, UnloadDone,
       RestoreDefault, SweepList, Sweep, SweepDone, Started, ReadState, WorkerGone, Reap,
       WriteStopped, Refuse, Release
  <2> QED BY <2>1, <2>2, Moves, StayChildren DEF ProcsStay
<1> QED BY <1>1, <1>2, <1>3 DEF ClientStep

\* What happens outside ends processes, or ends a worker.
LEMMA OutsideChildren ==
  ASSUME TypeOK, Children, Outside PROVE Children'
<1> USE ActorParts DEF Goto
<1>1. CASE Surroundings \/ ToolExits
  BY <1>1, StayChildren DEF Surroundings, ToolExits, ProcsStay, workers
<1>2. ASSUME NEW s \in Sessions, NEW x, pc' = [pc EXCEPT ![s] = x], UNCHANGED <<live, kids, epoch>>,
             \/ x = "dead" \/ x = pc[s] \/ (pc[s] \in Quiet /\ x \in Quiet \cup Held)
             \/ pc[s] \in Held /\ x \in Held
      PROVE  Children'
  BY <1>2, Moves, StayChildren DEF ProcsStay
<1>3. ASSUME NEW s \in Sessions, BootFails(s) \/ WorkerKilled(s) PROVE Children'
  BY <1>2, <1>3 DEF BootFails, WorkerKilled, Quiet, workers
<1>4. ASSUME NEW s \in Sessions, InterruptForeground(s) PROVE Children'
  <2>1. PICK x : InFlight(s, x) /\ pc' = [pc EXCEPT ![s] = x]
    BY <1>4 DEF InterruptForeground
  <2> QED BY <1>2, <1>4, <2>1, InFlightMoves DEF InterruptForeground, RoutingPCs, Quiet, Held
<1>5. ASSUME NEW s \in Sessions, NEW k \in Configs, RunForeground(s, k) PROVE Children'
  BY <1>2, <1>5 DEF RunForeground, Quiet
<1>6. ASSUME NEW c \in Clients, NEW x, pc' = [pc EXCEPT ![c] = x], UNCHANGED <<live, kids, epoch>>
      PROVE  Children'
  BY <1>6, Moves, StayChildren DEF ProcsStay
<1>7. ASSUME NEW c \in Clients, NEW o \in {"start", "stop"}, Begin(c, o) PROVE Children'
  BY <1>6, <1>7 DEF Begin, workers
<1>8. ASSUME NEW c \in Clients, Abandon(c) \/ ClientKilled(c) PROVE Children'
  BY <1>6, <1>8 DEF Abandon, ClientKilled, Release, workers
<1>9. ASSUME NEW c \in Clients, KillWorker(c) PROVE Children'
  <2>1. own[c] \in Sessions /\ pc' = [pc EXCEPT ![c] = "reap", ![own[c]] = "dead"]
    BY <1>9 DEF KillWorker, Alive
  <2>2. \A t \in Sessions : pc'[t] = IF t = own[c] THEN "dead" ELSE pc[t]
    BY <2>1 DEF TypeOK
  <2> QED BY <1>9, <2>2, StayChildren DEF KillWorker, ProcsStay, workers
<1>10. ASSUME NEW s \in Sessions, WorkerRaises(s) PROVE Children'
  BY <1>10, WorkerChildren
<1> QED BY <1>1, <1>3, <1>4, <1>5, <1>7, <1>8, <1>9, <1>10 DEF Outside

\* A process that runs belongs to the last pipeline its worker started, and a
\* worker that is not starting one or dead knows it or has none.
THEOREM ChildrenAreKnown == Spec => []Children
<1>1. Init => Children
  BY DEF Init, Children, OwnEpoch, QuietIsSilent, HeldIsKnown, LiveOf
<1>2. TypeOK /\ Children /\ UNCHANGED vars => Children'
  BY DEF vars, workers, Children, OwnEpoch, QuietIsSilent, HeldIsKnown, LiveOf
<1>3. TypeOK /\ Children /\ [Next]_vars => Children'
  BY <1>2, WorkerChildren, ClientChildren, OutsideChildren DEF Next
<1> QED BY <1>1, <1>3, TypeCorrect, PTL DEF Spec

-----------------------------------------------------------------------------
(* The modules of a worker.                                                *)

Unrouted == {"none", "boot", "discover", "plan", "mix"}
Routing  == {"mixDefault", "route", "encoder", "transport", "announce", "wait", "reconcile",
             "refresh"}

\* SIGTERM has not ended a call of this worker's.
Kept(s) == "lostCall" \in Happens => ~stopReq[s]

\* The loopbacks a worker plans are its own, and route microphones only when
\* its configuration names some.
OwnLoads(s) ==
  pc[s] \in {"plan", "mix", "mixDefault", "route", "reconcile"} =>
    \A m \in todo[s].mods : /\ m.owner = s /\ m.kind # "null"
                            /\ m.kind = "input" => cfg[s].caps # {}

\* Before it creates the Mix it has done nothing.
NothingYet(s) ==
  pc[s] \in Unrouted => /\ res[s].mods = {} /\ res[s].moved = {} /\ res[s].mix = FALSE
                        /\ ModulesOf(s) = {}

\* An effect waits to be recorded only where a write follows it.
PendingIsTracked(s) == pc[s] \notin TrackingPCs \cup {"dead"} => pending[s] = Nothing

\* A local Session only waits for its end; any other one routes with the Mix.
MixMade(s) ==
  /\ pc[s] \in {"mix", "mixDefault", "route", "encoder", "transport", "reconcile", "refresh"} =>
       cfg[s].dest # "local"
  /\ pc[s] \in Routing /\ cfg[s].dest # "local" => res[s].mix

\* Its modules are among the ones it tracks, to its end. Unless a call of its
\* cleanup fails they are the ones its listing found, and then none.
Ending == {"list", "restore", "unload", "default", "final", "exiting", "done"}

Ledger(s) ==
  /\ pc[s] \in Routing \cup {"term"} \cup Ending =>
       ModulesOf(s) \subseteq res[s].mods \cup pending[s].mods
  /\ pc[s] \in Routing \cup {"term", "list"} => (ModulesOf(s) # {} => res[s].mix)
  /\ ~CallMayFail(s) =>
       /\ pc[s] \in {"restore", "unload"} => ModulesOf(s) \subseteq todo[s].mods
       /\ pc[s] \in {"default", "final", "exiting", "done"} => ModulesOf(s) = {}

Account(s) == /\ OwnLoads(s) /\ NothingYet(s) /\ PendingIsTracked(s) /\ MixMade(s)
              /\ Kept(s) => Ledger(s)

Accounts == \A s \in Sessions : Account(s)

\* A step that is not this worker's, but may end it.
Bystander(s) ==
  /\ pc'[s] \in {pc[s], "dead"}
  /\ res'[s] = res[s] /\ todo'[s] = todo[s] /\ pending'[s] = pending[s]
  /\ cfg'[s] = cfg[s] /\ stopReq'[s] = stopReq[s]
  /\ ModulesOf(s)' \subseteq ModulesOf(s)

\* A worker that is left alone keeps its account.
LEMMA BystanderAccount ==
  ASSUME NEW s \in Sessions, Account(s), Bystander(s) PROVE Account(s)'
<1> USE DEF Bystander, Unrouted, Routing, TrackingPCs
<1>1. OwnLoads(s)' /\ NothingYet(s)' /\ PendingIsTracked(s)' /\ MixMade(s)'
  BY DEF Account, OwnLoads, NothingYet, PendingIsTracked, MixMade
<1>2. (Kept(s) => Ledger(s))'
  BY DEF Account, Kept, Ledger, Ending, CallMayFail
<1> QED BY <1>1, <1>2 DEF Account

\* The types the arguments about one worker use.
LEMMA FieldTypes ==
  ASSUME TypeOK
  PROVE  /\ pc \in [Actors -> ClientPCs \cup WorkerPCs]
         /\ res \in [Actors -> Resources] /\ todo \in [Actors -> Todo]
         /\ pending \in [Sessions -> Untracked] /\ cfg \in [Sessions -> ConfigType]
         /\ stopReq \in [Sessions -> BOOLEAN]
         /\ modules \in SUBSET Module
  BY DEF TypeOK, ServerTypeOK

\* One unload takes one planned module away, or none if it may fail.
LEMMA UnloadNextModules ==
  ASSUME TypeOK, NEW a \in Actors, UnloadNext(a)
  PROVE  \E m \in todo[a].mods :
           /\ UnloadsNext(a, m)
           /\ todo' = [todo EXCEPT ![a].mods = @ \ {m}]
           /\ \/ modules' = modules \ {m}
              \/ CallMayFail(a) /\ modules' = modules
<1>1. PICK m \in todo[a].mods :
        /\ UnloadsNext(a, m) /\ todo' = [todo EXCEPT ![a].mods = @ \ {m}]
        /\ \/ IF m \in modules THEN Unload(m) ELSE UNCHANGED server
           \/ CallMayFail(a) /\ UNCHANGED server
  BY DEF UnloadNext
<1>2. modules' = modules \ {m} \/ (CallMayFail(a) /\ modules' = modules)
  BY <1>1 DEF Unload, server
<1> QED BY <1>1, <1>2

\* The loads and unloads of a worker's step are its own.
ActsAlone(s) ==
  /\ \A a \in Actors \ {s} : pc'[a] = pc[a] /\ res'[a] = res[a] /\ todo'[a] = todo[a]
  /\ \A t \in Sessions \ {s} : pending'[t] = pending[t]
  /\ UNCHANGED <<cfg, stopReq>>
  /\ \A m \in modules' : m \in modules \/ m.owner = s

\* A worker that loads only modules of its own changes no other worker.
LEMMA WorkerActsAlone ==
  ASSUME TypeOK, NEW s \in Sessions, OwnLoads(s), WorkerStep(s) \/ WorkerRaises(s)
  PROVE  ActsAlone(s)
<1> USE ActorParts, FieldTypes DEF Goto, ActsAlone
<1>1. CASE Boot(s) \/ Discover(s) \/ Plan(s) \/ KeepDefault(s) \/ Track(s)
  BY <1>1 DEF Boot, Discover, Plan, KeepDefault, SetDefault, Track, server, workers
<1>2. CASE CreateMix(s)
  BY <1>2 DEF CreateMix, LoadNullSink, NullSink, server
<1>3. CASE RouteMove(s)
  BY <1>3 DEF RouteMove, MoveInput
<1>4. CASE RouteLoopback(s)
  BY <1>4 DEF RouteLoopback, LoadLoopback, OwnLoads
<1>5. CASE \/ RouteDone(s) \/ MoveFails(s) \/ StartEncoder(s) \/ StartTransport(s) \/ Announce(s)
           \/ ToolExited(s) \/ Reconcile(s) \/ WorkerRaises(s)
  BY <1>5 DEF RouteDone, MoveFails, WorkerRaises, Raise, StartEncoder, StartTransport, Announce,
     ToolExited, Reconcile, server, workers
<1>6. CASE \/ Refresh(s) \/ Forget(s) \/ StopSeen(s) \/ TermChildren(s) \/ WriteFinal(s) \/ Exit(s)
  BY <1>6 DEF Refresh, Forget, StopSeen, TermChildren, WriteFinal, Exit, server, workers
<1>7. CASE Cleanup(s)
  <2>1. CASE UnloadTracked(s)
    BY <2>1, UnloadNextModules DEF UnloadTracked, workers
  <2>2. CASE List(s) \/ Restore(s) \/ RestoreDone(s) \/ UnloadDone(s) \/ RestoreDefault(s)
    BY <2>2 DEF List, Restore, RestoreDone, UnloadDone, RestoreDefault, SetDefault, MoveInput,
       server, workers
  <2> QED BY <1>7, <2>1, <2>2 DEF Cleanup
<1> QED BY <1>1, <1>2, <1>3, <1>4, <1>5, <1>6, <1>7 DEF WorkerStep

\* So the other workers are left alone.
LEMMA ActsAloneOthers ==
  ASSUME NEW s \in Sessions, ActsAlone(s), NEW t \in Sessions \ {s} PROVE Bystander(t)
  BY ActorParts DEF ActsAlone, Bystander, ModulesOf

\* A worker's own step keeps its account: before it routes,
LEMMA PlanAccount ==
  ASSUME TypeOK, NEW s \in Sessions, Account(s),
         Boot(s) \/ Discover(s) \/ Plan(s) \/ CreateMix(s)
  PROVE  Account(s)'
<1> USE ActorParts, FieldTypes DEF Goto, Account, OwnLoads, NothingYet, PendingIsTracked, MixMade,
        Kept, Ledger, Ending, ModulesOf, Unrouted, Routing, TrackingPCs, Resources
<1>1. CASE Boot(s)
  BY <1>1 DEF Boot, server
<1>2. CASE Discover(s)
  <2> DEFINE moves == IF cfg[s].play THEN {m \in Move : at[m.input] = m.from} ELSE {}
             loads == {InputLoopback(s, d) : d \in cfg[s].caps}
                        \cup {CopyLoopback(s, k) : k \in CopySinks(s, moves)}
  <2>1. \A m \in loads : m.owner = s /\ m.kind # "null" /\ (m.kind = "input" => cfg[s].caps # {})
    <3> DEFINE ks == CopySinks(s, moves)
    <3> HIDE DEF moves, ks
    <3>1. \A m \in {InputLoopback(s, d) : d \in cfg[s].caps} \cup {CopyLoopback(s, k) : k \in ks} :
             m.owner = s /\ m.kind # "null" /\ (m.kind = "input" => cfg[s].caps # {})
      BY DEF InputLoopback, CopyLoopback
    <3> QED BY <3>1 DEF ks
  <2>2. todo' = [todo EXCEPT ![s] =
                   IF cfg[s].dest = "local" THEN NoCalls
                   ELSE [moves |-> moves, mods |-> loads, dflt |-> FALSE]]
    BY <1>2 DEF Discover
  <2> HIDE DEF moves, loads
  <2>3. \A m \in todo'[s].mods : m.owner = s /\ m.kind # "null" /\ (m.kind = "input" => cfg[s].caps # {})
    BY <2>1, <2>2 DEF NoCalls
  <2> QED BY <1>2, <2>3 DEF Discover, server, workers
<1>3. CASE Plan(s)
  BY <1>3 DEF Plan, server
<1>4. CASE CreateMix(s)
  <2>1. /\ pc[s] = "mix" /\ pc'[s] = "mixDefault"
        /\ res'[s] = [res[s] EXCEPT !.mix = TRUE] /\ todo'[s] = todo[s] /\ cfg' = cfg
    BY <1>4 DEF CreateMix
  <2>2. ModulesOf(s)' \subseteq pending'[s].mods
    BY <1>4 DEF CreateMix, LoadNullSink, NullSink, server, Untracked
  <2> QED BY <2>1, <2>2
<1> QED BY <1>1, <1>2, <1>3, <1>4

\* while it routes,
LEMMA RouteAccount ==
  ASSUME TypeOK, NEW s \in Sessions, Account(s),
         \/ KeepDefault(s) \/ Track(s) \/ RouteMove(s) \/ RouteLoopback(s) \/ RouteDone(s)
         \/ StartEncoder(s) \/ StartTransport(s) \/ Announce(s)
  PROVE  Account(s)'
<1> USE ActorParts, FieldTypes DEF Goto, Account, OwnLoads, NothingYet, PendingIsTracked, MixMade,
        Kept, Ledger, Ending, ModulesOf, Unrouted, Routing, TrackingPCs, Resources, Settled, Nothing
<1>1. CASE KeepDefault(s)
  BY <1>1 DEF KeepDefault, SetDefault, server, workers
<1>2. CASE Track(s)
  <2>1. /\ pc' = pc /\ todo' = todo /\ cfg' = cfg /\ stopReq' = stopReq /\ modules' = modules
        /\ pc[s] \in TrackingPCs /\ pending'[s].mods = {}
        /\ res'[s].mods = res[s].mods \cup pending[s].mods /\ res'[s].mix = res[s].mix
    BY <1>2 DEF Track, server, Untracked
  <2> QED BY <2>1
<1>3. CASE RouteMove(s)
  <2>1. PICK m \in todo[s].moves :
          /\ todo' = [todo EXCEPT ![s].moves = @ \ {m}]
          /\ pending' = [pending EXCEPT ![s].moved = {m}]
    BY <1>3 DEF RouteMove
  <2>2. /\ UNCHANGED <<pc, res, cfg, stopReq, modules>> /\ pc[s] \in {"route", "reconcile"}
    BY <1>3 DEF RouteMove, MoveInput
  <2>3. pending'[s].mods = pending[s].mods /\ todo'[s].mods = todo[s].mods
    BY <2>1 DEF Untracked, Todo
  <2> QED BY <2>2, <2>3
<1>4. CASE RouteLoopback(s)
  <2>1. PICK m \in todo[s].mods :
          /\ modules' = modules \cup {m}
          /\ todo' = [todo EXCEPT ![s].mods = @ \ {m}]
          /\ pending' = [pending EXCEPT ![s].mods = {m}]
    BY <1>4 DEF RouteLoopback, LoadLoopback
  <2>2. /\ pc' = pc /\ res' = res /\ cfg' = cfg /\ stopReq' = stopReq /\ pc[s] \in {"route", "reconcile"}
        /\ pending[s] = Nothing
    BY <1>4 DEF RouteLoopback
  <2>3. pending'[s].mods = {m} /\ todo'[s].mods = todo[s].mods \ {m}
    BY <2>1 DEF Untracked, Todo
  <2>4. OwnLoads(s)'
    BY <2>2, <2>3
  <2>5. m.owner = s /\ ModulesOf(s)' \subseteq ModulesOf(s) \cup {m}
    BY <2>1, <2>2
  <2>6. cfg[s].dest # "local" /\ res[s].mix
    BY <2>2
  <2>7. (Kept(s) => Ledger(s))'
    BY <2>2, <2>3, <2>5, <2>6
  <2>8. NothingYet(s)' /\ PendingIsTracked(s)' /\ MixMade(s)'
    BY <2>2
  <2> QED BY <2>4, <2>7, <2>8
<1>5. CASE RouteDone(s) \/ StartEncoder(s) \/ Announce(s)
  BY <1>5 DEF RouteDone, StartEncoder, Announce, server, workers
<1>6. CASE StartTransport(s)
  BY <1>6 DEF StartTransport, server, Untracked
<1> QED BY <1>1, <1>2, <1>3, <1>4, <1>5, <1>6

\* while it waits,
LEMMA WaitAccount ==
  ASSUME TypeOK, NEW s \in Sessions, Account(s),
         \/ MoveFails(s) \/ WorkerRaises(s) \/ ToolExited(s) \/ Reconcile(s) \/ Refresh(s)
         \/ Forget(s) \/ StopSeen(s) \/ TermChildren(s)
  PROVE  Account(s)'
<1> USE ActorParts, FieldTypes DEF Goto, Account, OwnLoads, NothingYet, PendingIsTracked, MixMade,
        Kept, Ledger, Ending, ModulesOf, Unrouted, Routing, TrackingPCs, Resources, Settled, Nothing
<1>1. CASE MoveFails(s) \/ WorkerRaises(s)
  <2>1. /\ pc[s] \in Unrouted \cup Routing /\ pc'[s] = "term" /\ pending[s] = Nothing
        /\ UNCHANGED <<res, todo, cfg, stopReq, pending, modules>>
    BY <1>1 DEF MoveFails, WorkerRaises, Raise, RaisingPCs, Polling, server
  <2> QED BY <2>1
<1>2. CASE ToolExited(s) \/ StopSeen(s) \/ Refresh(s) \/ TermChildren(s)
  BY <1>2 DEF ToolExited, StopSeen, Refresh, TermChildren, Polling, server, workers
<1>3. CASE Forget(s)
  BY <1>3 DEF Forget, server
<1>4. CASE Reconcile(s)
  <2>1. PICK ks : todo'[s].mods = {CopyLoopback(s, k) : k \in ks}
    BY <1>4 DEF Reconcile
  <2>2. \A m \in todo'[s].mods : m.owner = s /\ m.kind = "copy"
    BY <2>1 DEF CopyLoopback
  <2> QED BY <1>4, <2>2 DEF Reconcile, Polling, server, workers
<1> QED BY <1>1, <1>2, <1>3, <1>4

\* and while it cleans up.
LEMMA CleanupAccount ==
  ASSUME TypeOK, NEW s \in Sessions, Account(s), Cleanup(s) \/ WriteFinal(s) \/ Exit(s)
  PROVE  Account(s)'
<1> USE ActorParts, FieldTypes DEF Goto, Account, OwnLoads, NothingYet, PendingIsTracked, MixMade,
        Kept, Ledger, Ending, ModulesOf, Unrouted, Routing, TrackingPCs, Todo
<1> USE DEF CallMayFail
<1>1. CASE List(s)
  <2>1. PICK found \in Listings(s) : todo' = [todo EXCEPT ![s] = found]
    BY <1>1 DEF List
  <2>2. ~CallMayFail(s) => todo'[s].mods = {m \in res[s].mods \cap modules : res[s].mix}
    BY <2>1, ListingsBounds DEF Listing
  <2> QED BY <1>1, <2>2 DEF List, Nothing, server, workers
<1>2. CASE Restore(s)
  BY <1>2 DEF Restore, MoveInput, server, workers
<1>3. CASE RestoreDone(s) \/ UnloadDone(s)
  BY <1>3 DEF RestoreDone, UnloadDone, server, workers
<1>4. CASE UnloadTracked(s)
  <2>1. PICK m \in todo[s].mods :
           /\ modules' = modules \ {m} \/ (CallMayFail(s) /\ modules' = modules)
           /\ todo' = [todo EXCEPT ![s].mods = @ \ {m}]
    BY <1>4, UnloadNextModules DEF UnloadTracked
  <2>2. todo'[s].mods = todo[s].mods \ {m}
    BY <2>1
  <2>3. pc[s] = "unload" /\ UNCHANGED <<pc, res, pending, cfg, stopReq>>
    BY <1>4 DEF UnloadTracked, workers
  <2> QED BY <2>1, <2>2, <2>3
<1>5. CASE RestoreDefault(s)
  BY <1>5 DEF RestoreDefault, AfterCleanup, SetDefault, server, workers
<1>6. CASE WriteFinal(s) \/ Exit(s)
  BY <1>6 DEF WriteFinal, Exit, server, workers
<1> QED BY <1>1, <1>2, <1>3, <1>4, <1>5, <1>6 DEF Cleanup

\* The steps of a worker between its start and its last write. All that is left
\* to one after that is to exit.
WorkerActs(s) == Engaged(s) /\ ActsAlone(s) /\ (WorkerStep(s) \/ WorkerRaises(s))

\* What a worker does, but for its exit, it does while it is engaged.
LEMMA WorkerActsOrExits ==
  ASSUME TypeOK, Accounts, NEW s \in Sessions, WorkerStep(s) \/ WorkerRaises(s), ~Exit(s)
  PROVE  WorkerActs(s)
<1>1. ActsAlone(s)
  BY WorkerActsAlone DEF Accounts, Account
<1>2. pc[s] \notin {"none", "exiting", "done", "dead"}
  BY DEF WorkerStep, WorkerRaises, RaisingPCs, Polling, Boot, Discover, Plan, CreateMix,
     KeepDefault, Track, TrackingPCs, RouteMove, RouteLoopback, RouteDone, MoveFails, StartEncoder,
     StartTransport, Announce, ToolExited, Reconcile, Refresh, Forget, StopSeen, TermChildren,
     Cleanup, List, Restore, RestoreDone, UnloadTracked, UnloadDone, RestoreDefault, WriteFinal,
     Goto
<1> QED BY <1>1, <1>2 DEF WorkerActs, Engaged, Alive

\* The four lemmas above put together.
LEMMA WorkerAccounts ==
  ASSUME TypeOK, Accounts, NEW s \in Sessions, WorkerStep(s) \/ WorkerRaises(s)
  PROVE  Accounts'
<1>1. Account(s)'
  BY PlanAccount, RouteAccount, WaitAccount, CleanupAccount DEF WorkerStep, Accounts
<1>2. ActsAlone(s)
  BY WorkerActsAlone DEF Accounts, Account
<1>3. ASSUME NEW t \in Sessions \ {s} PROVE Account(t)'
  BY <1>2, ActsAloneOthers, BystanderAccount DEF Accounts
<1> QED BY <1>1, <1>3 DEF Accounts

\* A step that is no worker's.
AllBystand == \A s \in Sessions : Bystander(s)

\* A step that leaves all workers alone keeps all accounts.
LEMMA AllBystandAccounts == ASSUME Accounts, AllBystand PROVE Accounts'
  BY BystanderAccount DEF Accounts, AllBystand

\* A signal: the worker handles it, and may lose the call in flight.
LEMMA SignalledAccount ==
  ASSUME TypeOK, NEW s \in Sessions, Account(s), NEW x, InFlight(s, x), HandleStop(s),
         pc'[s] = x, UNCHANGED <<modules, res, cfg>>
  PROVE  Account(s)'
<1> USE ActorParts, FieldTypes DEF Account, OwnLoads, NothingYet, PendingIsTracked, MixMade,
        Kept, ModulesOf, Unrouted, Routing, TrackingPCs
<1>1. stopReq'[s]
  BY DEF HandleStop
<1>2. CASE x = pc[s] /\ UNCHANGED <<pending, fail, todo>>
  BY <1>1, <1>2 DEF Ledger, Ending, CallMayFail
<1>3. CASE "lostCall" \in Happens /\ LostCall(s, x)
  <2>1. ~Kept(s)'
    BY <1>1, <1>3
  <2>2. \/ pc[s] \in RoutingPCs /\ x = "term" /\ pending'[s] = Nothing
        \/ pc[s] \in CleanupPCs /\ x \in CleanupPCs /\ pending'[s] = pending[s]
    BY <1>3 DEF LostCall, CleanupPCs
  <2> QED BY <2>1, <2>2 DEF RoutingPCs, CleanupPCs
<1> QED BY <1>2, <1>3 DEF InFlight

\* A command unloads, restores and signals; it takes nothing off an account.
LEMMA ClientAccounts ==
  ASSUME TypeOK, Accounts, NEW c \in Clients, ClientStep(c) \/ Refuse(c)
  PROVE  Accounts'
<1> USE ActorParts, FieldTypes DEF Goto
<1>1. CASE Cleanup(c) \/ Sweep(c)
  <2>1. CASE UnloadTracked(c) \/ Sweep(c)
    <3>1. modules' \subseteq modules
      BY <2>1, UnloadNextModules DEF UnloadTracked, Sweep
    <3>2. \E m : todo' = [todo EXCEPT ![c].mods = @ \ {m}]
      BY <2>1 DEF UnloadTracked, Sweep, UnloadNext
    <3> QED BY <2>1, <3>1, <3>2, AllBystandAccounts
            DEF UnloadTracked, Sweep, AllBystand, Bystander, ModulesOf, workers
  <2>2. CASE List(c) \/ Restore(c) \/ RestoreDone(c) \/ UnloadDone(c) \/ RestoreDefault(c)
    BY <2>2, AllBystandAccounts DEF List, Restore, MoveInput, RestoreDone, UnloadDone,
       RestoreDefault, SetDefault, AllBystand, Bystander, ModulesOf, server, workers
  <2> QED BY <1>1, <2>1, <2>2 DEF Cleanup
<1>2. CASE Guard(c) \/ SweepList(c) \/ SweepDone(c) \/ ReadState(c) \/ WorkerGone(c) \/ Reap(c)
  BY <1>2, AllBystandAccounts DEF Guard, SweepList, SweepDone, ReadState, WorkerGone, Reap,
     AllBystand, Bystander, ModulesOf, server, workers
<1>3. CASE Started(c) \/ WriteStopped(c) \/ Refuse(c)
  BY <1>3, AllBystandAccounts DEF Started, WriteStopped, Refuse, Release,
     AllBystand, Bystander, ModulesOf, server, workers
<1>4. CASE Spawn(c)
  <2>1. PICK s \in Sessions, k \in Configs :
          /\ pc[s] = "none" /\ pc' = [pc EXCEPT ![c] = "await", ![s] = "boot"]
          /\ cfg' = [cfg EXCEPT ![s] = k]
    BY <1>4 DEF Spawn
  <2>2. UNCHANGED <<modules, res, todo, pending, stopReq>>
    BY <1>4 DEF Spawn, server
  <2>3. \A t \in Sessions : pc'[t] = IF t = s THEN "boot" ELSE pc[t]
    BY <2>1
  <2>4. \A t \in Sessions \ {s} : Bystander(t)
    BY <2>1, <2>2, <2>3 DEF Bystander, ModulesOf
  <2>5. Account(s)'
    BY <2>1, <2>2, <2>3 DEF Accounts, Account, OwnLoads, NothingYet, PendingIsTracked, MixMade,
       Kept, Ledger, Ending, ModulesOf, Unrouted, Routing, TrackingPCs
  <2> QED BY <2>4, <2>5, BystanderAccount DEF Accounts
<1>5. CASE Signal(c)
  <2> PICK s \in Sessions : s = own[c]
    BY <1>5 DEF Signal, Alive
  <2>1. PICK x \in WorkerPCs :
          InFlight(s, x) /\ pc' = [pc EXCEPT ![c] = "dying", ![s] = x]
    BY <1>5 DEF Signal
  <2>2. HandleStop(s) /\ UNCHANGED <<modules, res, cfg>>
    BY <1>5 DEF Signal, server
  <2>3. \A t \in Sessions : pc'[t] = IF t = s THEN x ELSE pc[t]
    BY <2>1
  <2>4. Account(s)'
    BY <2>1, <2>2, <2>3, SignalledAccount DEF Accounts
  <2>5. \A t \in Sessions \ {s} :
          todo'[t] = todo[t] /\ pending'[t] = pending[t] /\ stopReq'[t] = stopReq[t]
    BY <2>1, <2>2 DEF InFlight, LostCall, HandleStop
  <2>6. \A t \in Sessions \ {s} : Bystander(t)
    BY <2>2, <2>3, <2>5 DEF Bystander, ModulesOf
  <2> QED BY <2>4, <2>6, BystanderAccount DEF Accounts
<1> QED BY <1>1, <1>2, <1>3, <1>4, <1>5 DEF ClientStep

\* Neither does what happens outside; a worker that is killed keeps none.
LEMMA OutsideAccounts ==
  ASSUME TypeOK, Accounts, Outside PROVE Accounts'
<1> USE ActorParts, FieldTypes DEF Goto
<1>1. CASE Surroundings \/ ToolExits
  BY <1>1, AllBystandAccounts DEF Surroundings, StreamCloses, StreamOpens, UserMoves,
     UserChoosesDefault, ToolExits, AllBystand, Bystander, ModulesOf, server, workers
<1>2. ASSUME NEW s \in Sessions, BootFails(s) PROVE Accounts'
  <2>1. /\ pc[s] = "boot" /\ UNCHANGED <<modules, res, todo, pending, cfg, stopReq>>
        /\ \A t \in Sessions : pc'[t] = IF t = s THEN "done" ELSE pc[t]
    BY <1>2 DEF BootFails, server, workers
  <2>2. Account(s)'
    BY <2>1 DEF Accounts, Account, OwnLoads, NothingYet, PendingIsTracked, MixMade,
       Kept, Ledger, Ending, ModulesOf, Unrouted, Routing, TrackingPCs
  <2>3. \A t \in Sessions \ {s} : Bystander(t)
    BY <2>1 DEF Bystander, ModulesOf
  <2> QED BY <2>2, <2>3, BystanderAccount DEF Accounts
<1>3. ASSUME NEW s \in Sessions, WorkerKilled(s) PROVE Accounts'
  BY <1>3, AllBystandAccounts DEF WorkerKilled, AllBystand, Bystander, ModulesOf, server, workers
<1>4. ASSUME NEW s \in Sessions, InterruptForeground(s) PROVE Accounts'
  <2>1. PICK x \in WorkerPCs : InFlight(s, x) /\ pc' = [pc EXCEPT ![s] = x]
    BY <1>4 DEF InterruptForeground
  <2>2. HandleStop(s) /\ UNCHANGED <<modules, res, cfg>>
    BY <1>4 DEF InterruptForeground, server
  <2>3. \A t \in Sessions : pc'[t] = IF t = s THEN x ELSE pc[t]
    BY <2>1
  <2>4. Account(s)'
    BY <2>1, <2>2, <2>3, SignalledAccount DEF Accounts
  <2>5. \A t \in Sessions \ {s} :
          todo'[t] = todo[t] /\ pending'[t] = pending[t] /\ stopReq'[t] = stopReq[t]
    BY <2>1, <2>2 DEF InFlight, LostCall, HandleStop
  <2>6. \A t \in Sessions \ {s} : Bystander(t)
    BY <2>2, <2>3, <2>5 DEF Bystander, ModulesOf
  <2> QED BY <2>4, <2>6, BystanderAccount DEF Accounts
<1>5. ASSUME NEW s \in Sessions, NEW k \in Configs, RunForeground(s, k) PROVE Accounts'
  <2>1. /\ pc[s] = "none" /\ UNCHANGED <<modules, res, todo, pending, stopReq>>
        /\ \A t \in Sessions : pc'[t] = IF t = s THEN "boot" ELSE pc[t]
        /\ \A t \in Sessions \ {s} : cfg'[t] = cfg[t]
    BY <1>5 DEF RunForeground, server
  <2>2. Account(s)'
    BY <2>1 DEF Accounts, Account, OwnLoads, NothingYet, PendingIsTracked, MixMade,
       Kept, Ledger, Ending, ModulesOf, Unrouted, Routing, TrackingPCs
  <2>3. \A t \in Sessions \ {s} : Bystander(t)
    BY <2>1 DEF Bystander, ModulesOf
  <2> QED BY <2>2, <2>3, BystanderAccount DEF Accounts
<1>6. ASSUME NEW c \in Clients, NEW o \in {"start", "stop"}, Begin(c, o) PROVE Accounts'
  BY <1>6, AllBystandAccounts DEF Begin, AllBystand, Bystander, ModulesOf, server, workers
<1>7. ASSUME NEW c \in Clients, Abandon(c) \/ ClientKilled(c) PROVE Accounts'
  BY <1>7, AllBystandAccounts DEF Abandon, ClientKilled, Release, AllBystand, Bystander,
     ModulesOf, server, workers
<1>8. ASSUME NEW c \in Clients, KillWorker(c) PROVE Accounts'
  <2>1. own[c] \in Sessions /\ pc' = [pc EXCEPT ![c] = "reap", ![own[c]] = "dead"]
    BY <1>8 DEF KillWorker, Alive
  <2>2. \A t \in Sessions : pc'[t] = IF t = own[c] THEN "dead" ELSE pc[t]
    BY <2>1
  <2> QED BY <1>8, <2>2, AllBystandAccounts
          DEF KillWorker, AllBystand, Bystander, ModulesOf, server, workers
<1>9. ASSUME NEW s \in Sessions, WorkerRaises(s) PROVE Accounts'
  BY <1>9, WorkerAccounts
<1> QED BY <1>1, <1>2, <1>3, <1>4, <1>5, <1>6, <1>7, <1>8, <1>9 DEF Outside

\* As long as no call of its own was lost to a signal, a worker keeps account
\* of every module it has loaded, whoever else is at work or killed, and also
\* of those that are left when calls of its cleanup fail.
THEOREM AccountsAreKept == Spec => []Accounts
<1>1. Init => Accounts
  BY DEF Init, ServerInit, Accounts, Account, OwnLoads, NothingYet, PendingIsTracked, MixMade,
     Kept, Ledger, Ending, ModulesOf, Unrouted, Routing, TrackingPCs, Actors, EmptyResources, Nothing
<1>2. Accounts /\ UNCHANGED vars => Accounts'
  BY AllBystandAccounts DEF vars, server, workers, AllBystand, Bystander, ModulesOf
<1>3. TypeOK /\ Accounts /\ [Next]_vars => Accounts'
  BY <1>2, WorkerAccounts, ClientAccounts, OutsideAccounts DEF Next
<1> QED BY <1>1, <1>3, TypeCorrect, PTL DEF Spec

\* As long as the calls of its cleanup succeed, a Session that ends by itself
\* leaves no module, no ffmpeg and no ssh behind, whatever else failed, exited
\* or was killed around it, a foreground Session too.
THEOREM EndsCleanAlways ==
  ASSUME "cleanupFails" \notin Happens PROVE Spec => []EndsClean
<1>1. Children /\ Accounts => EndsClean
  BY DEF Children, QuietIsSilent, Quiet, Accounts, Account, Kept, Ledger, CallMayFail, EndsClean
<1> QED BY <1>1, ChildrenAreKnown, AccountsAreKept, PTL

\* A worker that has not begun or has ended is in session.json as it is.
Rest   == {"none", "boot", "exiting", "done"}
AtRest == \A s \in Sessions : pc[s] \in Rest /\ disk.sess = s => disk.res = res[s]

\* A write of session.json tells the resources of the worker it names.
TellsOwn == disk'.sess \in Sessions => disk'.res = res'[disk'.sess]

\* A step without one leaves the worker it names at work or as it was.
Unwritten ==
  /\ disk' = disk
  /\ \A s \in Sessions : pc'[s] \in Rest => pc[s] \in Rest /\ res'[s] = res[s]

\* Every step of a worker is one or the other,
LEMMA WorkerAtRest ==
  ASSUME TypeOK, NEW s \in Sessions, WorkerStep(s) \/ WorkerRaises(s)
  PROVE  TellsOwn \/ Unwritten
<1> USE ActorParts, FieldTypes DEF Goto, TellsOwn, Unwritten, Rest
<1>1. CASE Boot(s) \/ Plan(s) \/ Track(s) \/ Announce(s) \/ WriteFinal(s)
  <2>1. \E st, r : /\ disk' = Record(s, st, r)
                   /\ \/ res' = [res EXCEPT ![s] = r]
                      \/ res' = res /\ r = res[s]
    BY <1>1 DEF Boot, Plan, Track, Announce, WriteFinal
  <2> QED BY <2>1 DEF Record
<1>2. CASE \/ Discover(s) \/ CreateMix(s) \/ KeepDefault(s) \/ RouteMove(s) \/ RouteLoopback(s)
           \/ RouteDone(s) \/ StartEncoder(s) \/ Forget(s)
  BY <1>2 DEF Discover, CreateMix, KeepDefault, RouteMove, RouteLoopback, RouteDone,
     StartEncoder, Forget, workers
<1>3. CASE \/ StartTransport(s) \/ MoveFails(s) \/ WorkerRaises(s) \/ ToolExited(s) \/ Reconcile(s)
           \/ Refresh(s) \/ StopSeen(s) \/ TermChildren(s) \/ Cleanup(s) \/ Exit(s)
  BY <1>3 DEF StartTransport, MoveFails, WorkerRaises, Raise, ToolExited, Reconcile, Refresh,
     StopSeen, TermChildren, Cleanup, List, Restore, RestoreDone, UnloadTracked, UnloadDone,
     RestoreDefault, AfterCleanup, Exit, workers
<1> QED BY <1>1, <1>2, <1>3 DEF WorkerStep

\* and every other step.
LEMMA OthersAtRest ==
  ASSUME TypeOK,
         \/ \E c \in Clients : ClientStep(c) \/ Refuse(c)
         \/ Outside /\ \A s \in Sessions : ~WorkerRaises(s)
  PROVE  TellsOwn \/ Unwritten
<1> USE ActorParts, FieldTypes DEF Goto, TellsOwn, Unwritten, Rest
<1>1. ASSUME NEW s \in Sessions, HandleStop(s), res' = res PROVE TellsOwn
  BY <1>1 DEF HandleStop, Record
<1>2. ASSUME NEW c \in Clients, Signal(c) PROVE TellsOwn
  BY <1>1, <1>2 DEF Signal, Alive
<1>3. ASSUME NEW c \in Clients, WriteStopped(c) PROVE TellsOwn
  BY <1>3 DEF WriteStopped, StoppedState, NoOne
<1>4. ASSUME NEW c \in Clients,
             \/ Guard(c) \/ Cleanup(c) \/ SweepList(c) \/ Sweep(c) \/ SweepDone(c) \/ Started(c)
             \/ ReadState(c) \/ WorkerGone(c) \/ Reap(c) \/ Refuse(c)
      PROVE  Unwritten
  BY <1>4 DEF Guard, Cleanup, List, Restore, RestoreDone, UnloadTracked, UnloadDone,
     RestoreDefault, SweepList, Sweep, SweepDone, Started, ReadState, WorkerGone, Reap,
     Refuse, Release, workers
<1>5. ASSUME NEW c \in Clients, Spawn(c) PROVE Unwritten
  BY <1>5 DEF Spawn
<1>6. ASSUME NEW s \in Sessions, InterruptForeground(s) PROVE TellsOwn
  BY <1>1, <1>6 DEF InterruptForeground
<1>7. ASSUME Surroundings \/ ToolExits PROVE Unwritten
  BY <1>7 DEF Surroundings, ToolExits, workers
<1>8. ASSUME NEW s \in Sessions, BootFails(s) \/ WorkerKilled(s) \/ \E k \in Configs : RunForeground(s, k)
      PROVE  Unwritten
  BY <1>8 DEF BootFails, WorkerKilled, RunForeground
<1>9. ASSUME NEW c \in Clients, (\E o \in {"start", "stop"} : Begin(c, o)) \/ Abandon(c) \/ ClientKilled(c)
      PROVE  Unwritten
  BY <1>9 DEF Begin, Abandon, ClientKilled, Release
<1>10. ASSUME NEW c \in Clients, KillWorker(c) PROVE Unwritten
  BY <1>10 DEF KillWorker
<1> QED BY <1>2, <1>3, <1>4, <1>5, <1>6, <1>7, <1>8, <1>9, <1>10 DEF ClientStep, Outside

LEMMA WorkersAtRest == Spec => []AtRest
<1>1. Init => AtRest
  BY DEF Init, AtRest, StoppedState, NoOne, Actors
<1>2. TypeOK /\ Next => TellsOwn \/ Unwritten
  BY WorkerAtRest, OthersAtRest DEF Next, Outside
<1>3. AtRest /\ (TellsOwn \/ Unwritten) => AtRest'
  BY DEF AtRest, TellsOwn, Unwritten
<1>4. AtRest /\ UNCHANGED vars => AtRest'
  BY DEF vars, AtRest
<1>5. TypeOK /\ AtRest /\ [Next]_vars => AtRest'
  BY <1>2, <1>3, <1>4
<1> QED BY <1>1, <1>5, TypeCorrect, PTL DEF Spec

\* What a Session that ended by itself left, as calls of its cleanup failed, is
\* named in session.json for the next command, whatever else happens.
THEOREM LeftIsNamedAlways == Spec => []LeftIsNamed
<1>1. Accounts /\ AtRest => LeftIsNamed
  <2> SUFFICES ASSUME Accounts, AtRest, NEW s \in Sessions, pc[s] \in {"exiting", "done"},
                      ~stopReq[s], disk.sess = s
               PROVE  ModulesOf(s) \subseteq disk.res.mods
    BY DEF LeftIsNamed
  <2>1. Ledger(s) /\ PendingIsTracked(s)
    BY DEF Accounts, Account, Kept
  <2>2. pending[s].mods = {}
    BY <2>1 DEF PendingIsTracked, TrackingPCs, Nothing
  <2>3. disk.res = res[s]
    BY DEF AtRest, Rest
  <2> QED BY <2>1, <2>2, <2>3 DEF Ledger, Ending
<1> QED BY <1>1, AccountsAreKept, WorkersAtRest, PTL

-----------------------------------------------------------------------------
(* What plays to the Mix.                                                  *)

\* Streams play to the Mix, and it is the default sink, only while it exists.
MixNeeded ==
  /\ dflt = Mix => MixExists(modules)
  /\ \A i \in Inputs : at[i] = Mix => MixExists(modules)

\* unload-module moves what still plays to the Mix when its last null sink goes.
LEMMA UnloadMixNeeded ==
  ASSUME TypeOK, MixNeeded, NEW m, Unload(m) PROVE MixNeeded'
<1> USE DEF MixNeeded
<1>1. CASE m.kind = "null" /\ ~MixExists(modules \ {m})
  <2>1. PICK k \in Sinks : dflt' = k /\ at' = [i \in Inputs |-> IF at[i] = Mix THEN k ELSE at[i]]
    BY <1>1 DEF Unload, TypeOK, ServerTypeOK
  <2> QED BY <2>1
<1>2. CASE m.kind = "null" /\ MixExists(modules \ {m})
  BY <1>2 DEF Unload
<1>3. CASE m.kind # "null"
  BY <1>3 DEF Unload, MixExists
<1> QED BY <1>1, <1>2, <1>3

\* Every step leaves streams and the default on a Mix that exists.
LEMMA NextMixNeeded ==
  ASSUME TypeOK, MixNeeded, [Next]_vars PROVE MixNeeded'
<1> USE DEF MixNeeded
<1>1. CASE UNCHANGED server
  BY <1>1 DEF server
<1>2. ASSUME NEW a \in Actors, UnloadNext(a) PROVE MixNeeded'
  BY <1>1, <1>2, UnloadMixNeeded DEF UnloadNext
<1>3. ASSUME NEW a \in Actors, Cleanup(a) PROVE MixNeeded'
  <2>1. CASE Restore(a)
    <3>1. UNCHANGED server \/ \E i, k : k \in Sinks /\ MoveInput(i, k)
      BY <2>1 DEF Restore
    <3> QED BY <1>1, <3>1 DEF MoveInput, TypeOK, ServerTypeOK
  <2>2. CASE RestoreDefault(a)
    BY <1>1, <2>2 DEF RestoreDefault, SetDefault
  <2>3. CASE UnloadTracked(a)
    BY <1>2, <2>3 DEF UnloadTracked
  <2>4. CASE List(a) \/ RestoreDone(a) \/ UnloadDone(a)
    BY <1>1, <2>4 DEF List, RestoreDone, UnloadDone
  <2> QED BY <1>3, <2>1, <2>2, <2>3, <2>4 DEF Cleanup
<1>4. ASSUME NEW s \in Sessions, WorkerStep(s) \/ WorkerRaises(s) PROVE MixNeeded'
  <2>1. CASE CreateMix(s)
    <3>1. UNCHANGED server \/ NullSink(s) \in modules'
      BY <2>1 DEF CreateMix, LoadNullSink
    <3>2. NullSink(s).kind = "null"
      BY DEF NullSink
    <3> QED BY <1>1, <3>1, <3>2 DEF MixExists
  <2>2. CASE KeepDefault(s)
    BY <1>1, <2>2 DEF KeepDefault, SetDefault
  <2>3. CASE RouteMove(s)
    BY <2>3 DEF RouteMove, MoveInput
  <2>4. CASE RouteLoopback(s)
    BY <2>4 DEF RouteLoopback, LoadLoopback, MixExists
  <2>5. CASE Cleanup(s)
    BY <1>3, <2>5, ActorParts
  <2>6. CASE \/ Boot(s) \/ Discover(s) \/ Plan(s) \/ Track(s) \/ RouteDone(s) \/ MoveFails(s)
             \/ StartEncoder(s) \/ StartTransport(s) \/ Announce(s) \/ ToolExited(s)
             \/ Reconcile(s) \/ Refresh(s) \/ Forget(s) \/ StopSeen(s) \/ TermChildren(s)
             \/ WriteFinal(s) \/ Exit(s) \/ WorkerRaises(s)
    BY <1>1, <2>6 DEF Boot, Discover, Plan, Track, RouteDone, MoveFails, WorkerRaises, Raise,
       StartEncoder, StartTransport, Announce, ToolExited, Reconcile, Refresh, Forget, StopSeen,
       TermChildren, WriteFinal, Exit
  <2> QED BY <1>4, <2>1, <2>2, <2>3, <2>4, <2>5, <2>6 DEF WorkerStep
<1>5. ASSUME NEW c \in Clients, ClientStep(c) \/ Refuse(c) PROVE MixNeeded'
  <2>1. CASE Sweep(c)
    BY <1>2, <2>1, ActorParts DEF Sweep
  <2>2. CASE Cleanup(c)
    BY <1>3, <2>2, ActorParts
  <2>3. CASE \/ Guard(c) \/ SweepList(c) \/ SweepDone(c) \/ Spawn(c) \/ Started(c) \/ ReadState(c)
             \/ Signal(c) \/ WorkerGone(c) \/ Reap(c) \/ WriteStopped(c) \/ Refuse(c)
    BY <1>1, <2>3 DEF Guard, SweepList, SweepDone, Spawn, Started, ReadState, Signal, WorkerGone,
       Reap, WriteStopped, Refuse
  <2> QED BY <1>5, <2>1, <2>2, <2>3 DEF ClientStep
<1>6. CASE Outside
  <2>1. CASE Surroundings
    BY <2>1 DEF Surroundings, StreamCloses, StreamOpens, UserMoves, UserChoosesDefault,
       TypeOK, ServerTypeOK, Mix, Gone
  <2>2. Outside => Surroundings \/ UNCHANGED server \/ \E s \in Sessions : WorkerRaises(s)
    BY DEF Outside, ToolExits, BootFails, WorkerKilled, InterruptForeground, RunForeground,
       Begin, Abandon, KillWorker, ClientKilled
  <2> QED BY <1>1, <1>4, <1>6, <2>1, <2>2
<1>7. CASE UNCHANGED vars
  BY <1>7 DEF vars, server
<1> QED BY <1>4, <1>5, <1>6, <1>7 DEF Next

\* No stream is left on a Mix that is gone, and the default sink always exists.
THEOREM MixNeededAlways == Spec => []MixNeeded
<1>1. Init => MixNeeded
  BY DEF Init, ServerInit, MixNeeded, Mix, NotYet
<1> QED BY <1>1, NextMixNeeded, TypeCorrect, PTL DEF Spec

-----------------------------------------------------------------------------
(* What session.json remembers of the processes.                           *)

\* No worker is killed, by a crash or by Stop's deadline.
NoKill == {"workerKill", "stopDeadline"} \cap Happens = {}

NobodyDead == \A s \in Sessions : pc[s] # "dead"

\* Records of processes are of pipelines that were started; before its ssh runs
\* a new pipeline is in no record.
OldEpochs ==
  /\ \A p \in disk.res.procs : p.epoch <= epoch[p.owner]
  /\ \A s \in Sessions : \A p \in res[s].procs \cup pending[s].procs : p.epoch <= epoch[p.owner]
  /\ \A s \in Sessions : pc[s] = "transport" =>
       \A p \in disk.res.procs \cup res[s].procs : p.owner = s => p.epoch < epoch[s]

\* A worker still tracks every process of session.json that runs.
ProcsWritten == \A s \in Sessions : Working(s) => disk.res.procs \cap live \subseteq res[s].procs

Written == NobodyDead /\ OldEpochs /\ ProcsWritten

\* With no worker engaged no process runs.
LEMMA NoneLive ==
  ASSUME TypeOK, NobodyDead, Children, \A s \in Sessions : Engaged(s) => pc[s] \in Quiet
  PROVE  live = {}
<1> SUFFICES ASSUME NEW p \in live PROVE FALSE
  OBVIOUS
<1>1. p.owner \in Sessions /\ p \in LiveOf(p.owner)
  BY DEF TypeOK, Proc, LiveOf
<1>2. pc[p.owner] \notin Quiet
  BY <1>1 DEF Children, QuietIsSilent
<1>3. Engaged(p.owner)
  BY <1>1, <1>2 DEF NobodyDead, Engaged, Alive, Quiet
<1> QED BY <1>1, <1>2, <1>3

\* A step that records nothing and starts nothing.
RecordsStay ==
  /\ UNCHANGED <<disk, epoch>> /\ live' \subseteq live
  /\ \A s \in Sessions : res'[s].procs = res[s].procs /\ pending'[s].procs \subseteq pending[s].procs
  /\ \A s \in Sessions : /\ pc'[s] # "dead" /\ (pc'[s] = "transport" => pc[s] = "transport")
                         /\ Working(s)' => Working(s)

\* A step that starts and writes nothing leaves the records consistent.
LEMMA StayWritten == ASSUME Written, RecordsStay PROVE Written'
<1> USE DEF Written, RecordsStay
<1>1. NobodyDead'
  BY DEF NobodyDead
<1>2. OldEpochs'
  BY DEF OldEpochs
<1>3. ProcsWritten'
  BY DEF ProcsWritten
<1> QED BY <1>1, <1>2, <1>3

\* A write of session.json by a worker with nobody beside it.
Writes(s) ==
  /\ disk'.res = res'[s] /\ UNCHANGED <<epoch, live>>
  /\ res'[s].procs \cup pending'[s].procs \subseteq res[s].procs \cup pending[s].procs
  /\ res[s].procs \subseteq res'[s].procs
  /\ \A t \in Sessions \ {s} : /\ res'[t].procs = res[t].procs /\ ~Engaged(t)'
                               /\ pending'[t].procs = pending[t].procs /\ pc'[t] # "dead"
  /\ pc'[s] # "dead"
  /\ pc'[s] = "transport" => pc[s] = "transport" /\ res'[s] = res[s]

\* A worker's write of what it knows leaves them consistent too.
LEMMA WritesWritten == ASSUME Written, NEW s \in Sessions, Writes(s) PROVE Written'
<1> USE DEF Written, Writes
<1>1. NobodyDead'
  BY DEF NobodyDead
<1>2. \A p \in res'[s].procs : p.epoch <= epoch[p.owner]
  BY DEF OldEpochs
<1>3. \A t \in Sessions : \A p \in res'[t].procs \cup pending'[t].procs : p.epoch <= epoch[p.owner]
  BY DEF OldEpochs
<1>4. \A t \in Sessions : pc'[t] = "transport" => t = s
  BY DEF Engaged, Alive
<1>5. pc'[s] = "transport" => \A p \in disk'.res.procs \cup res'[s].procs : p.owner = s => p.epoch < epoch[s]
  BY DEF OldEpochs
<1>6. OldEpochs'
  BY <1>2, <1>3, <1>4, <1>5 DEF OldEpochs
<1>7. ProcsWritten'
  BY DEF ProcsWritten, Working
<1> QED BY <1>1, <1>6, <1>7

\* What TrackedUntilDead says of one step.
StillTracked == \A p \in disk.res.procs : p \in live' => p \in disk'.res.procs

\* It forgets no process that runs on.
LEMMA WritesTracked ==
  ASSUME TypeOK, Children, Written, NEW s \in Sessions, Writes(s),
         \/ Working(s)
         \/ \A t \in Sessions : Engaged(t) => pc[t] \in Quiet
  PROVE  StillTracked
<1>1. CASE Working(s)
  BY <1>1 DEF Written, ProcsWritten, Writes, StillTracked
<1>2. CASE \A t \in Sessions : Engaged(t) => pc[t] \in Quiet
  BY <1>2, NoneLive DEF Written, Writes, StillTracked
<1> QED BY <1>1, <1>2

\* A worker's step keeps the records and forgets no process that runs on.
LEMMA WorkerWritten ==
  ASSUME TypeOK, Serialized, Children, Written, NEW s \in Sessions,
         WorkerStep(s) \/ WorkerRaises(s)
  PROVE  Written' /\ StillTracked
<1> USE ActorParts, FieldTypes DEF Goto
<1>1. \A t \in Sessions : /\ pc[t] # "dead"
                          /\ Engaged(s) /\ Engaged(t) => t = s
  BY AtMostOne DEF OneWorker, Written, NobodyDead
<1>2. RecordsStay => Written' /\ StillTracked
  BY StayWritten DEF RecordsStay, StillTracked
<1>3. CASE \/ Discover(s) \/ CreateMix(s) \/ KeepDefault(s) \/ RouteMove(s) \/ RouteLoopback(s)
           \/ RouteDone(s)
  <2>1. /\ UNCHANGED <<disk, epoch, live>> /\ Working(s)
        /\ \A t \in Sessions : res'[t].procs = res[t].procs /\ pending'[t].procs = pending[t].procs
    <3>1. UNCHANGED <<disk, epoch, live>> /\ Working(s)
      BY <1>3 DEF Discover, CreateMix, KeepDefault, RouteMove, RouteLoopback, RouteDone,
         workers, Working, Engaged, Alive
    <3>2. res' = res \/ res' = [res EXCEPT ![s].mix = TRUE]
      BY <1>3 DEF Discover, CreateMix, KeepDefault, RouteMove, RouteLoopback, RouteDone
    <3>3. \/ pending' = pending
          \/ \E m : pending' = [pending EXCEPT ![s].moved = {m}]
          \/ \E m : pending' = [pending EXCEPT ![s].mods = {m}]
      BY <1>3 DEF Discover, CreateMix, KeepDefault, RouteMove, RouteLoopback, RouteDone, workers
    <3>4. \A t \in Sessions : res'[t].procs = res[t].procs
      BY <3>2 DEF Resources
    <3>5. \A t \in Sessions : pending'[t].procs = pending[t].procs
      BY <3>3 DEF Untracked
    <3> QED BY <3>1, <3>4, <3>5
  <2>2. \A t \in Sessions : pc'[t] = pc[t] \/ (t = s /\ pc'[t] \notin {"dead", "transport"})
    BY <1>3 DEF Discover, CreateMix, KeepDefault, RouteMove, RouteLoopback, RouteDone
  <2>3. RecordsStay
    BY <1>1, <2>1, <2>2 DEF RecordsStay, Working, Engaged, Alive
  <2> QED BY <1>2, <2>3
<1>4. CASE \/ MoveFails(s) \/ WorkerRaises(s) \/ ToolExited(s) \/ Reconcile(s) \/ Refresh(s)
           \/ StopSeen(s) \/ TermChildren(s) \/ Cleanup(s) \/ Exit(s)
  <2>1. /\ UNCHANGED <<disk, epoch>> /\ live' \subseteq live /\ (Working(s) \/ Exit(s))
        /\ res' = res /\ pending' = pending
    BY <1>4 DEF MoveFails, WorkerRaises, RaisingPCs, Polling, Raise, ToolExited, Reconcile, Refresh,
       StopSeen, TermChildren, Cleanup, List, Restore, RestoreDone, UnloadTracked, UnloadDone,
       RestoreDefault, Exit, workers, Working, Engaged, Alive
  <2>2. \A t \in Sessions : \/ pc'[t] = pc[t]
                            \/ t = s /\ pc'[t] \notin {"dead", "transport"} /\ (Exit(s) => pc'[t] = "done")
    BY <1>4 DEF MoveFails, WorkerRaises, Raise, ToolExited, Reconcile, Refresh,
       StopSeen, TermChildren, Cleanup, List, Restore, RestoreDone, UnloadTracked, UnloadDone,
       RestoreDefault, AfterCleanup, Exit
  <2>3. RecordsStay
    BY <1>1, <2>1, <2>2 DEF RecordsStay, Working, Engaged, Alive
  <2> QED BY <1>2, <2>3
<1>5. CASE Boot(s) \/ Plan(s) \/ Track(s) \/ Announce(s) \/ WriteFinal(s)
  <2>1. Engaged(s) /\ (Working(s) \/ pc[s] \in Quiet)
    BY <1>5 DEF Boot, Plan, Track, TrackingPCs, Announce, WriteFinal, Working, Engaged, Alive, Quiet
  <2>2. /\ disk'.res = res'[s] /\ UNCHANGED <<epoch, live>> /\ res[s].procs \subseteq res'[s].procs
        /\ res'[s].procs \cup pending'[s].procs \subseteq res[s].procs \cup pending[s].procs
    <3>1. CASE Track(s)
      <4> DEFINE p == pending[s]
                 first == IF \E q \in p.procs : q.tool = "ffmpeg"
                          THEN {q \in p.procs : q.tool = "ffmpeg"} ELSE p.procs
                 r == [res[s] EXCEPT !.moved = @ \cup p.moved, !.mods = @ \cup p.mods,
                                     !.procs = @ \cup first]
                 rest == [Nothing EXCEPT !.procs = p.procs \ first]
      <4>1. /\ res' = [res EXCEPT ![s] = r] /\ disk' = Record(s, wstate[s], r)
            /\ pending' = [pending EXCEPT ![s] = rest] /\ UNCHANGED <<epoch, live>>
        BY <3>1 DEF Track
      <4>2. first \subseteq p.procs
        OBVIOUS
      <4> HIDE DEF first
      <4>3. r.procs = res[s].procs \cup first /\ rest.procs = p.procs \ first
        BY DEF Resources, Nothing
      <4> HIDE DEF r, rest
      <4>4. res'[s] = r /\ disk'.res = r /\ pending'[s] = rest
        BY <4>1 DEF Record
      <4> QED BY <4>1, <4>2, <4>3, <4>4
    <3>2. CASE Plan(s)
      BY <3>2 DEF Plan, Record, Resources
    <3>3. CASE Boot(s) \/ Announce(s) \/ WriteFinal(s)
      BY <3>3 DEF Boot, Announce, WriteFinal, Record
    <3> QED BY <1>5, <3>1, <3>2, <3>3
  <2>3. \A t \in Sessions \ {s} : pc'[t] = pc[t] /\ res'[t] = res[t] /\ pending'[t] = pending[t]
    BY <1>5 DEF Boot, Plan, Track, Announce, WriteFinal
  <2>4. pc'[s] \notin {"dead", "transport"}
    BY <1>1, <1>5 DEF Boot, Plan, Track, TrackingPCs, Announce, WriteFinal
  <2>5. Writes(s)
    BY <1>1, <2>1, <2>2, <2>3, <2>4 DEF Writes, Engaged, Alive
  <2>6. Working(s) \/ \A t \in Sessions : Engaged(t) => pc[t] \in Quiet
    BY <1>1, <2>1
  <2> QED BY <2>5, <2>6, WritesWritten, WritesTracked
<1>6. CASE StartEncoder(s)
  <2> DEFINE p == [owner |-> s, tool |-> "ffmpeg", epoch |-> epoch[s] + 1]
  <2>1. /\ pc[s] = "encoder" /\ epoch' = [epoch EXCEPT ![s] = epoch[s] + 1]
        /\ live' = live \cup {p} /\ UNCHANGED <<disk, res, pending>>
        /\ \A t \in Sessions : pc'[t] = IF t = s THEN "transport" ELSE pc[t]
    BY <1>6 DEF StartEncoder
  <2>2. epoch \in [Sessions -> 0 .. MaxEpochs] /\ MaxEpochs \in Nat
    BY DEF TypeOK
  <2>3. \A t \in Sessions : epoch[t] \in Nat /\ epoch'[t] = IF t = s THEN epoch[s] + 1 ELSE epoch[t]
    BY <2>1, <2>2
  <2>4. /\ disk.res.procs \subseteq Proc
        /\ \A t \in Sessions : res[t].procs \subseteq Proc /\ pending[t].procs \subseteq Proc
    BY DEF TypeOK, SessionFile, Resources, Untracked
  <2>5. \A q \in Proc : q.owner \in Sessions /\ q.epoch \in Nat
    BY DEF Proc
  <2>6. \A q \in Proc : q.epoch <= epoch[q.owner] => /\ q.epoch <= epoch'[q.owner]
                                                     /\ q.owner = s => q.epoch < epoch'[s]
    BY <2>3, <2>5
  <2>7. \A t \in Sessions : pc'[t] = "transport" => t = s
    BY <1>1, <2>1 DEF Engaged, Alive
  <2>8. OldEpochs'
    BY <2>1, <2>4, <2>6, <2>7 DEF Written, OldEpochs
  <2>9. p \notin disk.res.procs
    BY <2>2 DEF Written, OldEpochs
  <2>10. StillTracked
    BY <2>1 DEF StillTracked
  <2>11. ProcsWritten' /\ NobodyDead'
    BY <1>1, <2>1, <2>9 DEF Written, ProcsWritten, NobodyDead, Working, Engaged, Alive
  <2> QED BY <2>8, <2>10, <2>11 DEF Written
<1>7. CASE StartTransport(s)
  <2>1. /\ pc[s] = "transport" /\ live' \subseteq live \cup Pipeline(s) /\ UNCHANGED <<disk, res, epoch>>
        /\ \A t \in Sessions : pc'[t] = IF t = s THEN pc'[s] ELSE pc[t]
        /\ pc'[s] \in {"wait", "announce"}
        /\ \A t \in Sessions \ {s} : pending'[t] = pending[t]
        /\ pending'[s].procs = Pipeline(s)
    BY <1>7 DEF StartTransport, Untracked
  <2>2. \A q \in Pipeline(s) : q.owner = s /\ q.epoch = epoch[s] /\ epoch[s] \in Nat
    BY DEF Pipeline, TypeOK
  <2>3. \A q \in Pipeline(s) : q \notin disk.res.procs
    BY <2>1, <2>2 DEF Written, OldEpochs
  <2>4. OldEpochs'
    BY <1>1, <2>1, <2>2 DEF Written, OldEpochs, Engaged, Alive
  <2>5. ProcsWritten' /\ NobodyDead'
    BY <1>1, <2>1, <2>3 DEF Written, ProcsWritten, NobodyDead, Working, Engaged, Alive
  <2>6. StillTracked
    BY <2>1 DEF StillTracked
  <2> QED BY <2>4, <2>5, <2>6 DEF Written
<1>8. CASE Forget(s)
  <2>1. live = {} /\ live' = live /\ disk' = disk /\ UNCHANGED <<epoch, pending>>
    BY <1>1, <1>8, NoneLive DEF Forget, Written, Quiet, Engaged, Alive
  <2>2. /\ \A t \in Sessions : res'[t].procs \subseteq res[t].procs
        /\ \A t \in Sessions : pc'[t] = pc[t] \/ (t = s /\ pc'[t] \in {"term", "encoder"})
    BY <1>8 DEF Forget, Resources
  <2>3. \A t \in Sessions : pc'[t] # "transport" /\ pc'[t] # "dead"
    BY <1>1, <1>8, <2>2 DEF Forget, Engaged, Alive
  <2> QED BY <2>1, <2>2, <2>3 DEF Written, NobodyDead, OldEpochs, ProcsWritten, StillTracked
<1> QED BY <1>3, <1>4, <1>5, <1>6, <1>7, <1>8 DEF WorkerStep

\* Neither does a command, which reaps before it writes,
LEMMA ClientWritten ==
  ASSUME TypeOK, Serialized, Children, Written, NEW c \in Clients, ClientStep(c) \/ Refuse(c)
  PROVE  Written' /\ StillTracked
<1> USE ActorParts, FieldTypes DEF Goto
<1>1. \A t \in Sessions : pc[t] # "dead"
  BY DEF Written, NobodyDead
<1>2. RecordsStay => Written' /\ StillTracked
  BY StayWritten DEF RecordsStay, StillTracked
<1>3. CASE \/ Guard(c) \/ Cleanup(c) \/ SweepList(c) \/ Sweep(c) \/ SweepDone(c) \/ Started(c)
           \/ ReadState(c) \/ WorkerGone(c) \/ Reap(c) \/ Refuse(c)
  <2>1. live' \subseteq live /\ UNCHANGED <<disk, epoch, pending>> /\ \A t \in Sessions : res'[t] = res[t]
    BY <1>3 DEF Guard, Cleanup, List, Restore, RestoreDone, UnloadTracked, UnloadDone,
       RestoreDefault, SweepList, Sweep, SweepDone, Started, ReadState, WorkerGone, Reap,
       Refuse, workers
  <2>2. \A t \in Sessions : pc'[t] = pc[t]
    BY <1>3 DEF Guard, Cleanup, List, Restore, RestoreDone, UnloadTracked, UnloadDone,
       RestoreDefault, SweepList, Sweep, SweepDone, Started, ReadState, WorkerGone, Reap,
       Refuse, Release
  <2> QED BY <1>1, <1>2, <2>1, <2>2 DEF RecordsStay, Working, Engaged, Alive
<1>4. CASE Spawn(c)
  <2>1. PICK s \in Sessions : pc[s] = "none" /\ pc' = [pc EXCEPT ![c] = "await", ![s] = "boot"]
    BY <1>4 DEF Spawn
  <2>2. \A t \in Sessions : pc'[t] = IF t = s THEN "boot" ELSE pc[t]
    BY <2>1
  <2> QED BY <1>1, <1>2, <1>4, <2>2 DEF Spawn, RecordsStay, Working, Engaged, Alive
<1>5. CASE WriteStopped(c)
  <2>1. \A t \in Sessions : ~Engaged(t)
    BY <1>5 DEF WriteStopped, Serialized, AloneAtWork, Alone
  <2>2. live = {}
    BY <2>1, NoneLive DEF Written
  <2>3. /\ UNCHANGED <<live, epoch, res, pending>> /\ disk'.res.procs = {}
        /\ \A t \in Sessions : pc'[t] = pc[t]
    BY <1>5 DEF WriteStopped, Release, StoppedState, EmptyResources, workers
  <2> QED BY <2>2, <2>3 DEF Written, NobodyDead, OldEpochs, ProcsWritten, StillTracked
<1>6. CASE Signal(c)
  <2> PICK s \in Sessions : s = own[c]
    BY <1>6 DEF Signal, Alive
  <2>1. PICK x \in WorkerPCs :
          InFlight(s, x) /\ pc' = [pc EXCEPT ![c] = "dying", ![s] = x]
    BY <1>6 DEF Signal
  <2>2. HandleStop(s) /\ UNCHANGED <<live, res, epoch>> /\ Alive(s)
    BY <1>6 DEF Signal
  <2>3. \A t \in Sessions : pc'[t] = IF t = s THEN x ELSE pc[t]
    BY <2>1
  <2>4. \A t \in Sessions : Engaged(t) => t = s
    BY <1>6 DEF Signal, Serialized, AttachedToOne, Attached
  <2>5. disk'.res = res'[s]
    BY <2>2 DEF HandleStop, Record
  <2>6. pending'[s].procs \subseteq pending[s].procs /\ \A t \in Sessions \ {s} : pending'[t] = pending[t]
    BY <2>1 DEF InFlight, LostCall, Nothing
  <2>7. x # "dead" /\ (x = "transport" => pc[s] = "transport")
    BY <1>1, <2>1, InFlightMoves
  <2>8. Writes(s)
    BY <1>1, <2>2, <2>3, <2>4, <2>5, <2>6, <2>7 DEF Writes, Engaged, Alive
  <2>9. Working(s) \/ \A t \in Sessions : Engaged(t) => pc[t] \in Quiet
    BY <2>2, <2>4 DEF Working, Engaged, Quiet
  <2> QED BY <2>8, <2>9, WritesWritten, WritesTracked
<1> QED BY <1>3, <1>4, <1>5, <1>6 DEF ClientStep

\* nor what happens outside, while no worker is killed.
LEMMA OutsideWritten ==
  ASSUME NoBypass, NoKill, TypeOK, Serialized, Children, Written, Outside
  PROVE  Written' /\ StillTracked
<1> USE ActorParts, FieldTypes DEF Goto
<1>1. \A t \in Sessions : pc[t] # "dead"
  BY DEF Written, NobodyDead
<1>2. RecordsStay => Written' /\ StillTracked
  BY StayWritten DEF RecordsStay, StillTracked
<1>3. CASE Surroundings \/ ToolExits
  BY <1>1, <1>2, <1>3 DEF Surroundings, ToolExits, RecordsStay, Working, Engaged, Alive, workers
<1>4. ASSUME NEW s \in Sessions, BootFails(s) PROVE RecordsStay
  <2>1. /\ UNCHANGED <<live, disk, epoch, pending, res>>
        /\ \A t \in Sessions : pc'[t] = IF t = s THEN "done" ELSE pc[t]
    BY <1>4 DEF BootFails, workers
  <2> QED BY <1>1, <2>1 DEF RecordsStay, Working, Engaged, Alive
<1>5. ASSUME NEW s \in Sessions, WorkerRaises(s) PROVE Written' /\ StillTracked
  BY <1>5, WorkerWritten
<1>6. \A s \in Sessions : /\ ~WorkerKilled(s) /\ ~InterruptForeground(s)
                          /\ \A k \in Configs : ~RunForeground(s, k)
  BY DEF WorkerKilled, InterruptForeground, RunForeground, NoBypass, NoKill, Serialized
<1>7. ASSUME NEW c \in Clients, \/ \E o \in {"start", "stop"} : Begin(c, o)
                                \/ Abandon(c) \/ ClientKilled(c)
      PROVE  RecordsStay
  <2>1. /\ UNCHANGED <<live, disk, epoch, pending, res>>
        /\ \A t \in Sessions : pc'[t] = pc[t]
    BY <1>7 DEF Begin, Abandon, ClientKilled, Release, workers
  <2> QED BY <1>1, <2>1 DEF RecordsStay, Working, Engaged, Alive
<1>8. \A c \in Clients : ~KillWorker(c)
  BY DEF KillWorker, NoKill
<1> QED BY <1>2, <1>3, <1>4, <1>5, <1>6, <1>7, <1>8 DEF Outside

\* What session.json and a worker's memory say of processes is consistent.
LEMMA RecordsAreWritten ==
  ASSUME NoBypass, NoKill PROVE Spec => []Written
<1>1. Init => Written
  BY DEF Init, Written, NobodyDead, OldEpochs, ProcsWritten, Working, Engaged, Alive, Actors,
     StoppedState, EmptyResources, Nothing
<1>2. TypeOK /\ Serialized /\ Children /\ Written /\ Next => Written' /\ StillTracked
  BY WorkerWritten, ClientWritten, OutsideWritten DEF Next
<1>3. Written /\ UNCHANGED vars => Written'
  BY DEF vars, workers, Written, NobodyDead, OldEpochs, ProcsWritten, Working, Engaged, Alive
<1>4. TypeOK /\ Serialized /\ Children /\ Written /\ [Next]_vars => Written'
  BY <1>2, <1>3
<1> QED BY <1>1, <1>4, TypeCorrect, WorkersAreSerialized, ChildrenAreKnown, PTL DEF Spec

\* As long as no worker is killed, a process session.json names stays in it
\* until it has exited: also while Stop interrupts the worker between the
\* start of a pipeline and its record, and over every refresh of the pipeline.
THEOREM TrackedUntilDeadAlways ==
  ASSUME NoBypass, NoKill PROVE Spec => TrackedUntilDead
<1>1. TypeOK /\ Serialized /\ Children /\ Written /\ Next => StillTracked
  BY WorkerWritten, ClientWritten, OutsideWritten DEF Next
<1>2. TypeOK /\ Serialized /\ Children /\ Written /\ [Next]_vars
        => [\A p \in disk.res.procs : p \in live' => p \in disk'.res.procs]_vars
  BY <1>1 DEF StillTracked
<1> QED BY <1>2, RecordsAreWritten, TypeCorrect, WorkersAreSerialized, ChildrenAreKnown, PTL
        DEF Spec, TrackedUntilDead
=============================================================================
