--------------------------- MODULE RoutingProofs ---------------------------
(***************************************************************************)
(* Proofs about where streams play and which sink is the default while     *)
(* Sessions come and go, as long as no worker is killed, no pactl call is  *)
(* lost to a signal and none of a worker's cleanup fails. Routing calls    *)
(* and those of commands may fail, tools may exit, commands may be killed  *)
(* or give up waiting, and the user may do as he likes.                    *)
(***************************************************************************)
EXTENDS CleanupProofs

USE ServerAssumption, SessionAssumption

\* Every worker is started by a Start that waits, and ends in its own way with
\* a cleanup whose calls succeed.
Calm == NoBypass /\ NoKill /\ {"lostCall", "cleanupFails"} \cap Happens = {}

Base == /\ TypeOK /\ Serialized /\ Children /\ Accounts
        /\ NobodyDead /\ MixNeeded

\* What is proved of such runs already.
LEMMA BaseAlways == ASSUME Calm PROVE Spec => []Base
<1>1. NoBypass /\ NoKill
  BY DEF Calm
<1>2. Written => NobodyDead
  BY DEF Written
<1> QED BY <1>1, <1>2, TypeCorrect, WorkersAreSerialized, ChildrenAreKnown, AccountsAreKept,
           RecordsAreWritten, MixNeededAlways, PTL DEF Base

\* A worker's cleanup does all that its listing asks for.
LEMMA CallsSucceed ==
  ASSUME Calm, NEW s \in Sessions PROVE ~CallMayFail(s) /\ Listings(s) = {Listing(s)}
  BY DEF Calm, CallMayFail, Listings

\* Where a worker has modules.
HasModules == Routing \cup {"term", "list", "restore", "unload"}

\* Every module belongs to a worker at work.
LEMMA OwnerAtWork ==
  ASSUME Calm, Base, NEW m \in modules
  PROVE  m.owner \in Sessions /\ m \in ModulesOf(m.owner) /\ pc[m.owner] \in HasModules
<1>1. m.owner \in Sessions /\ m \in ModulesOf(m.owner)
  BY DEF Base, TypeOK, ServerTypeOK, Module, ModulesOf
<1>2. Account(m.owner) /\ Kept(m.owner) /\ pc[m.owner] # "dead" /\ pc[m.owner] \in WorkerPCs
  BY <1>1 DEF Base, Accounts, NobodyDead, Kept, Calm, TypeOK
<1> QED BY <1>1, <1>2, CallsSucceed DEF Account, NothingYet, Unrouted, Ledger, HasModules,
                                        Routing, WorkerPCs, CleanupPCs

\* A worker that has none has the server to itself, so there are none at all.
LEMMA NoModules ==
  ASSUME Calm, Base, \A s \in Sessions : Engaged(s) => pc[s] \notin HasModules
  PROVE  /\ modules = {} /\ dflt # Mix
         /\ \A i \in Inputs : at[i] # Mix
<1>1. modules = {}
  BY OwnerAtWork DEF Engaged, Alive, HasModules, Routing
<1> QED BY <1>1 DEF Base, MixNeeded, MixExists

\* While one worker is at work the others have not begun or have ended.
LEMMA OnlyEngaged ==
  ASSUME Base, NEW s \in Sessions, Engaged(s), NEW t \in Sessions \ {s}
  PROVE  pc[t] \in {"none", "exiting", "done"}
<1>1. ~Engaged(t)
  BY AtMostOne DEF Base, OneWorker
<1> QED BY <1>1 DEF Base, NobodyDead, Engaged, Alive

\* The modules of the worker at work are all there are.
LEMMA ModulesAreOwn ==
  ASSUME Calm, Base, NEW s \in Sessions, Engaged(s)
  PROVE  modules = ModulesOf(s)
  BY OwnerAtWork, OnlyEngaged DEF ModulesOf, HasModules, Routing

-----------------------------------------------------------------------------
(* A command finds nothing to do on the server.                            *)

IdleCleanup == \A c \in Clients : pc[c] \in {"restore", "unload", "default", "sweep"} =>
                                    todo[c] = NoCalls

\* A step after which the server and the plans of all workers are the same.
Aside ==
  /\ UNCHANGED server
  /\ \A s \in Sessions :
       /\ res'[s] = res[s] /\ todo'[s] = todo[s] /\ pending'[s] = pending[s]
       /\ \/ pc'[s] = pc[s]
          \/ pc[s] = "none" /\ pc'[s] = "boot"
          \/ pc[s] \in {"boot", "exiting"} /\ pc'[s] = "done"
       /\ cfg'[s] = cfg[s] \/ pc'[s] = "boot"

\* A command finds nothing to restore and nothing to unload.
LEMMA ClientAside ==
  ASSUME Calm, Base, IdleCleanup, NEW c \in Clients, ClientStep(c) \/ Refuse(c)
  PROVE  Aside /\ IdleCleanup'
<1> USE ActorParts, FieldTypes DEF Goto, Base
<1>1. pc[c] \in Alone => modules = {} /\ dflt # Mix /\ \A i \in Inputs : at[i] # Mix
  BY NoModules DEF Serialized, AloneAtWork
<1>2. CASE List(c)
  <2>1. Listing(c) = NoCalls
    <3>1. pc[c] = "list" /\ pc[c] \in Alone
      BY <1>2 DEF List, Alone, CleanupPCs
    <3>2. \A m \in res[c].moved : m.input \in Inputs
      BY DEF Resources, Move
    <3>3. {m \in res[c].moved : res[c].mix /\ at[m.input] = Mix} = {}
      BY <1>1, <3>1, <3>2
    <3>4. {m \in res[c].mods \cap modules : res[c].mix} = {} /\ (res[c].mix /\ dflt = Mix) = FALSE
      BY <1>1, <3>1
    <3> QED BY <3>3, <3>4 DEF Listing, NoCalls
  <2>2. \A found \in Listings(c) : found = NoCalls
    <3> SUFFICES ASSUME NEW found \in Listings(c) PROVE found = NoCalls
      OBVIOUS
    <3>1. found \in Todo
      BY ListingsType
    <3>2. found.moves = {} /\ found.mods = {} /\ ~found.dflt
      BY <2>1, ListingsBounds DEF NoCalls
    <3> QED BY <3>1, <3>2 DEF Todo, NoCalls
  <2>3. todo' = [todo EXCEPT ![c] = NoCalls]
    BY <1>2, <2>2 DEF List
  <2> QED BY <1>2, <2>3 DEF List, Aside, IdleCleanup, workers
<1>3. ~Restore(c) /\ ~UnloadTracked(c) /\ ~Sweep(c)
  BY DEF Restore, UnloadTracked, Sweep, UnloadNext, IdleCleanup, NoCalls
<1>4. CASE RestoreDone(c) \/ UnloadDone(c)
  BY <1>4 DEF RestoreDone, UnloadDone, Aside, IdleCleanup, workers
<1>5. CASE RestoreDefault(c)
  <2>1. UNCHANGED server
    BY <1>5 DEF RestoreDefault, IdleCleanup, NoCalls
  <2> QED BY <1>5, <2>1 DEF RestoreDefault, Aside, IdleCleanup, workers
<1>6. CASE SweepList(c)
  <2>1. [NoCalls EXCEPT !.mods = {}] = NoCalls
    <3>1. NoCalls \in Todo /\ NoCalls.mods = {}
      BY DEF NoCalls, Todo
    <3> QED BY <3>1 DEF Todo
  <2>2. modules = {}
    BY <1>1, <1>6 DEF SweepList, Alone
  <2>3. todo' = [todo EXCEPT ![c] = NoCalls]
    BY <1>6, <2>1, <2>2 DEF SweepList
  <2> QED BY <1>6, <2>3 DEF SweepList, Aside, IdleCleanup, workers
<1>7. CASE Guard(c) \/ SweepDone(c) \/ ReadState(c) \/ WorkerGone(c) \/ Reap(c)
  BY <1>7 DEF Guard, SweepDone, ReadState, WorkerGone, Reap, Aside, IdleCleanup, workers
<1>8. CASE Started(c) \/ WriteStopped(c) \/ Refuse(c)
  BY <1>8 DEF Started, WriteStopped, Refuse, Release, Aside, IdleCleanup, workers
<1>9. CASE Spawn(c)
  <2>1. PICK s \in Sessions, k \in Configs :
          /\ pc[s] = "none" /\ pc' = [pc EXCEPT ![c] = "await", ![s] = "boot"]
          /\ cfg' = [cfg EXCEPT ![s] = k]
    BY <1>9 DEF Spawn
  <2>2. UNCHANGED <<server, res, todo, pending>>
    BY <1>9 DEF Spawn
  <2>3. \A a \in Actors : pc'[a] = IF a = s THEN "boot" ELSE IF a = c THEN "await" ELSE pc[a]
    BY <2>1
  <2> QED BY <2>1, <2>2, <2>3 DEF Aside, IdleCleanup
<1>10. CASE Signal(c)
  <2> PICK s \in Sessions : s = own[c]
    BY <1>10 DEF Signal, Alive
  <2>1. /\ pc' = [pc EXCEPT ![c] = "dying", ![s] = pc[s]]
        /\ UNCHANGED <<server, res, todo, pending, cfg>>
    BY <1>10 DEF Signal, InFlight, Calm
  <2>2. \A a \in Actors : pc'[a] = IF a = c THEN "dying" ELSE pc[a]
    BY <2>1
  <2> QED BY <2>1, <2>2 DEF Aside, IdleCleanup
<1> QED BY <1>2, <1>3, <1>4, <1>5, <1>6, <1>7, <1>8, <1>9, <1>10 DEF ClientStep, Cleanup

\* What is left to consider: steps of the worker at work, and the user's.
LEMMA CalmNext ==
  ASSUME Calm, Base, IdleCleanup, [Next]_vars
  PROVE  /\ IdleCleanup'
         /\ \/ Aside
            \/ Surroundings
            \/ \E s \in Sessions : WorkerActs(s)
<1> USE ActorParts, FieldTypes DEF Goto, Base
<1>1. ASSUME NEW s \in Sessions, WorkerStep(s) \/ WorkerRaises(s)
      PROVE  IdleCleanup' /\ (Aside \/ WorkerActs(s))
  <2>1. ActsAlone(s)
    BY <1>1, WorkerActsAlone DEF Accounts, Account
  <2>2. IdleCleanup'
    BY <2>1 DEF ActsAlone, IdleCleanup
  <2>3. CASE Exit(s)
    <3>1. /\ UNCHANGED <<server, res, todo, pending, cfg>> /\ pc[s] = "exiting"
          /\ \A t \in Sessions : pc'[t] = IF t = s THEN "done" ELSE pc[t]
      BY <2>3 DEF Exit, workers
    <3>2. Aside
      BY <3>1 DEF Aside
    <3> QED BY <2>2, <3>2
  <2>4. CASE ~Exit(s)
    BY <1>1, <2>2, <2>4, WorkerActsOrExits
  <2> QED BY <2>2, <2>3, <2>4
<1>2. ASSUME NEW c \in Clients, ClientStep(c) \/ Refuse(c) PROVE IdleCleanup' /\ Aside
  BY <1>2, ClientAside
<1>3. CASE Surroundings
  BY <1>3 DEF Surroundings, IdleCleanup
<1>4. CASE ToolExits
  BY <1>4 DEF ToolExits, IdleCleanup, Aside, workers
<1>5. ASSUME NEW s \in Sessions, BootFails(s) PROVE IdleCleanup' /\ Aside
  BY <1>5 DEF BootFails, IdleCleanup, Aside, workers
<1>6. \A s \in Sessions : /\ ~WorkerKilled(s) /\ ~InterruptForeground(s)
                          /\ \A k \in Configs : ~RunForeground(s, k)
  BY DEF WorkerKilled, InterruptForeground, RunForeground, NoBypass, NoKill, Calm, Serialized
<1>7. ASSUME NEW c \in Clients, \/ \E o \in {"start", "stop"} : Begin(c, o)
                                \/ Abandon(c) \/ ClientKilled(c)
      PROVE  IdleCleanup' /\ Aside
  BY <1>7 DEF Begin, Abandon, ClientKilled, Release, IdleCleanup, Aside, workers
<1>8. \A c \in Clients : ~KillWorker(c)
  BY DEF KillWorker, NoKill, Calm
<1>9. CASE UNCHANGED vars
  BY <1>9 DEF vars, workers, IdleCleanup, Aside
<1> QED BY <1>1, <1>2, <1>3, <1>4, <1>5, <1>6, <1>7, <1>8, <1>9 DEF Next, Outside

\* Under session.lock a Start or a Stop comes to the server after its worker,
\* which left nothing to restore and nothing to unload.
LEMMA IdleAlways == ASSUME Calm PROVE Spec => []IdleCleanup
<1>1. Init => IdleCleanup
  BY DEF Init, IdleCleanup, Actors
<1>2. Base /\ IdleCleanup /\ [Next]_vars => IdleCleanup'
  BY CalmNext
<1> QED BY <1>1, <1>2, BaseAlways, PTL DEF Spec

-----------------------------------------------------------------------------
(* The Mix and what is connected to it.                                    *)

\* What a worker that has the server to itself finds of the others.
LEMMA OthersRest ==
  ASSUME Base, NEW s \in Sessions, WorkerActs(s), NEW t \in Sessions \ {s}
  PROVE  /\ pc[t] \in {"none", "exiting", "done"} /\ pc'[t] = pc[t]
         /\ res'[t] = res[t] /\ todo'[t] = todo[t] /\ pending'[t] = pending[t] /\ cfg' = cfg
  BY OnlyEngaged, ActorParts DEF WorkerActs, ActsAlone

\* A worker that routes to a Receiver has made the Mix.
MixIsUp(s) == pc[s] \in Routing /\ cfg[s].dest # "local" => NullSink(s) \in modules

MixServes == LoopbackNeedsMix /\ \A s \in Sessions : MixIsUp(s)

\* The Mix serves on while the workers rest.
LEMMA AsideMix == ASSUME MixServes, Aside \/ Surroundings PROVE MixServes'
<1>1. CASE Aside
  <2>1. modules' = modules
    BY <1>1 DEF Aside, server
  <2>2. \A s \in Sessions : pc'[s] \in Routing => pc'[s] = pc[s] /\ cfg'[s] = cfg[s]
    BY <1>1 DEF Aside, Routing
  <2> QED BY <2>1, <2>2 DEF MixServes, MixIsUp, LoopbackNeedsMix, NullSink, MixExists
<1>2. CASE Surroundings
  BY <1>2 DEF Surroundings, StreamCloses, StreamOpens, UserMoves, UserChoosesDefault, workers,
     MixServes, MixIsUp, LoopbackNeedsMix, NullSink, MixExists
<1> QED BY <1>1, <1>2

\* The null sink is the last module a worker unloads.
LEMMA UnloadMix ==
  ASSUME Calm, Base, LoopbackNeedsMix, NEW s \in Sessions, Engaged(s), UnloadTracked(s)
  PROVE  LoopbackNeedsMix'
<1> USE ActorParts, FieldTypes DEF Base
<1>1. PICK m \in todo[s].mods : UnloadsNext(s, m) /\ modules' = modules \ {m}
  BY UnloadNextModules, CallsSucceed DEF UnloadTracked
<1>2. modules \subseteq todo[s].mods
  <2>1. Kept(s) /\ pc[s] = "unload"
    BY DEF UnloadTracked, Kept, Calm
  <2> QED BY <2>1, ModulesAreOwn, CallsSucceed DEF Accounts, Account, Ledger
<1>3. CASE m.kind = "null"
  BY <1>1, <1>2, <1>3 DEF UnloadsNext, LoopbackNeedsMix
<1>4. CASE m.kind # "null"
  BY <1>1, <1>4 DEF LoopbackNeedsMix, MixExists
<1> QED BY <1>3, <1>4

\* A worker's step keeps the Mix for as long as it has a loopback.
LEMMA WorkerMix ==
  ASSUME Calm, Base, MixServes, NEW s \in Sessions, WorkerActs(s)
  PROVE  MixServes'
<1> USE ActorParts, FieldTypes DEF Goto, Base
<1>1. \A t \in Sessions \ {s} : MixIsUp(t)'
  BY OthersRest DEF MixIsUp, Routing
<1>2. NullSink(s).kind = "null" /\ cfg' = cfg /\ Engaged(s)
  BY DEF NullSink, WorkerActs, ActsAlone
<1>3. Account(s) /\ LoopbackNeedsMix /\ MixIsUp(s)
  BY DEF MixServes, Accounts
<1>4. SUFFICES LoopbackNeedsMix' /\ MixIsUp(s)'
  BY <1>1 DEF MixServes
<1>5. CASE UNCHANGED modules /\ (pc'[s] \in Routing => pc[s] \in Routing \/ cfg[s].dest = "local")
  BY <1>2, <1>3, <1>5 DEF MixIsUp, LoopbackNeedsMix, MixExists, NullSink
<1>6. CASE CreateMix(s)
  <2>1. modules = {}
    BY <1>2, <1>3, <1>6, ModulesAreOwn DEF CreateMix, Account, NothingYet, Unrouted
  <2>2. modules' = {NullSink(s)}
    BY <1>6, <2>1 DEF CreateMix, MixExists, LoadNullSink
  <2> QED BY <1>2, <2>2 DEF MixIsUp, LoopbackNeedsMix, MixExists, NullSink
<1>7. CASE RouteLoopback(s)
  <2>1. PICK m \in todo[s].mods : modules' = modules \cup {m}
    BY <1>7 DEF RouteLoopback, LoadLoopback
  <2>2. NullSink(s) \in modules /\ pc' = pc
    BY <1>3, <1>7 DEF RouteLoopback, Account, MixMade, MixIsUp, Routing
  <2> QED BY <1>2, <1>3, <2>1, <2>2 DEF MixIsUp, LoopbackNeedsMix, MixExists, NullSink
<1>8. CASE UnloadTracked(s)
  BY <1>2, <1>3, <1>8, UnloadMix DEF UnloadTracked, MixIsUp, Routing
<1>9. CASE Plan(s)
  BY <1>5, <1>9 DEF Plan, server, Routing
<1>10. CASE Cleanup(s) /\ ~UnloadTracked(s)
  <2>1. UNCHANGED modules /\ pc'[s] \notin Routing
    BY <1>10 DEF Cleanup, List, Restore, RestoreDone, UnloadDone, RestoreDefault, AfterCleanup,
       SetDefault, MoveInput, server, Routing
  <2> QED BY <1>5, <2>1
<1>11. CASE \/ Boot(s) \/ Discover(s) \/ KeepDefault(s) \/ Track(s) \/ RouteMove(s) \/ RouteDone(s)
            \/ StartEncoder(s) \/ StartTransport(s) \/ Announce(s)
  <2>1. UNCHANGED modules /\ (pc'[s] \in Routing => pc[s] \in Routing)
    BY <1>11 DEF Boot, Discover, KeepDefault, Track, RouteMove, RouteDone, StartEncoder,
       StartTransport, Announce, SetDefault, MoveInput, server, Routing
  <2> QED BY <1>5, <2>1
<1>12. CASE \/ MoveFails(s) \/ WorkerRaises(s) \/ ToolExited(s) \/ Reconcile(s) \/ Refresh(s)
            \/ Forget(s) \/ StopSeen(s) \/ TermChildren(s) \/ WriteFinal(s) \/ Exit(s)
  <2>1. UNCHANGED modules /\ (pc'[s] \in Routing => pc[s] \in Routing)
    BY <1>12 DEF MoveFails, WorkerRaises, Raise, ToolExited, Reconcile, Refresh, Forget, StopSeen,
       TermChildren, WriteFinal, Exit, Polling, server, Routing
  <2> QED BY <1>5, <2>1
<1> QED BY <1>6, <1>7, <1>8, <1>9, <1>10, <1>11, <1>12 DEF WorkerActs, WorkerStep

\* A loopback is loaded only after its worker made the Mix and unloaded before
\* it, by the worker's own cleanup, as long as its calls succeed: none is ever left with a free end that the
\* server would attach to the default sink or source.
THEOREM LoopbackNeedsMixAlways == ASSUME Calm PROVE Spec => []LoopbackNeedsMix
<1>1. Init => MixServes
  BY DEF Init, ServerInit, MixServes, LoopbackNeedsMix, MixIsUp, Actors, Routing
<1>2. Base /\ IdleCleanup /\ MixServes /\ [Next]_vars => MixServes'
  BY CalmNext, AsideMix, WorkerMix
<1>3. MixServes => LoopbackNeedsMix
  BY DEF MixServes
<1> QED BY <1>1, <1>2, <1>3, BaseAlways, IdleAlways, PTL DEF Spec

-----------------------------------------------------------------------------
(* Where the streams are.                                                  *)

\* A worker moves streams from hardware sinks, and back to where they came from.
FromSinks(s) ==
  /\ pc[s] \in {"plan", "mix", "mixDefault", "route", "reconcile"} =>
       \A m \in todo[s].moves : m.from \in Sinks
  /\ \A m \in res[s].moved \cup pending[s].moved : m.from \in Sinks
  /\ pc[s] = "restore" => todo[s].moves \subseteq res[s].moved

\* A stream on the Mix is one the worker knows it moved, until it moves it
\* back; none is left there when the modules go.
InMix(s) ==
  \A i \in Inputs : at[i] = Mix =>
    /\ pc[s] \in Routing \cup {"term", "list"} =>
         \E m \in res[s].moved \cup pending[s].moved : m.input = i
    /\ pc[s] = "restore" => \E m \in todo[s].moves : m.input = i
    /\ pc[s] # "unload"

\* Where some worker moved a stream away from.
Origins(i) == {m.from : m \in {n \in UNION {res[s].moved : s \in Sessions} : n.input = i}}

\* Any other stream is where the user put it or some worker took it from.
Placed == \A i \in Inputs : at[i] \in Sinks => at[i] \in {home[i]} \cup Origins(i)

Streams == Placed /\ \A s \in Sessions : FromSinks(s) /\ InMix(s)

\* A stream that stays in place, with nothing forgotten, is still accounted for.
LEMMA StillPlaced ==
  ASSUME Placed, home' = home, \A s \in Sessions : res[s].moved \subseteq res'[s].moved,
         \A i \in Inputs : at'[i] \in Sinks => at'[i] = at[i] \/ at'[i] \in Origins(i)
  PROVE  Placed'
<1>1. \A i : Origins(i) \subseteq Origins(i)'
  BY DEF Origins
<1> QED BY <1>1 DEF Placed

\* While the workers rest only the user moves streams.
LEMMA AsideStreams ==
  ASSUME Calm, Base, Streams, Aside \/ Surroundings PROVE Streams'
<1> USE DEF Base
<1>1. CASE Aside
  <2>1. Placed'
    BY <1>1, StillPlaced DEF Aside, server, Streams
  <2>2. ASSUME NEW s \in Sessions PROVE FromSinks(s)'
    BY <1>1 DEF Aside, Streams, FromSinks
  <2>3. ASSUME NEW s \in Sessions PROVE InMix(s)'
    BY <1>1 DEF Aside, server, Streams, InMix, Routing
  <2> QED BY <2>1, <2>2, <2>3 DEF Streams
<1>2. CASE Surroundings
  <2>1. UNCHANGED <<pc, res, todo, pending>>
    BY <1>2 DEF Surroundings, workers
  <2>2. \A i \in Inputs : at'[i] = Mix => at[i] = Mix
    BY <1>2 DEF Surroundings, StreamCloses, StreamOpens, UserMoves, UserChoosesDefault,
       TypeOK, ServerTypeOK, Gone, Mix
  <2>3. Placed'
    <3>1. \A i : Origins(i)' = Origins(i)
      BY <2>1 DEF Origins
    <3>2. \A i \in Inputs : \/ at'[i] = at[i] /\ home'[i] = home[i]
                            \/ at'[i] = home'[i] \/ at'[i] = Gone
      BY <1>2 DEF Surroundings, StreamCloses, StreamOpens, UserMoves, UserChoosesDefault,
         TypeOK, ServerTypeOK
    <3> QED BY <3>1, <3>2 DEF Streams, Placed
  <2>4. \A s \in Sessions : FromSinks(s)' /\ InMix(s)'
    BY <2>1, <2>2 DEF Streams, FromSinks, InMix
  <2> QED BY <2>3, <2>4 DEF Streams
<1> QED BY <1>1, <1>2

\* A worker that has loaded nothing finds no stream on the Mix.
LEMMA MixIsEmpty ==
  ASSUME Calm, Base, NEW s \in Sessions, Engaged(s), pc[s] \notin HasModules
  PROVE  dflt # Mix /\ \A i \in Inputs : at[i] # Mix
  BY NoModules, OnlyEngaged DEF HasModules, Routing

\* With something on the Mix its worker's resources name the Mix.
LEMMA MixIsTracked ==
  ASSUME Calm, Base, NEW s \in Sessions, Engaged(s),
         pc[s] \in Routing \cup {"term", "list"}, dflt = Mix \/ \E i \in Inputs : at[i] = Mix
  PROVE  res[s].mix
<1>1. modules # {}
  BY DEF Base, MixNeeded, MixExists
<1>2. Kept(s)
  BY DEF Kept, Calm
<1> QED BY <1>1, <1>2, ModulesAreOwn DEF Base, Accounts, Account, Ledger

\* A worker's own step: before it routes,
LEMMA PlanStreams ==
  ASSUME Calm, Base, Streams, NEW s \in Sessions, WorkerActs(s),
         Boot(s) \/ Discover(s) \/ Plan(s) \/ CreateMix(s)
  PROVE  FromSinks(s)' /\ InMix(s)' /\ Placed'
<1> USE ActorParts, FieldTypes DEF Goto, Base
<1>1. at' = at /\ home' = home /\ \A i \in Inputs : at[i] # Mix
  BY MixIsEmpty DEF WorkerActs, HasModules, Routing, Boot, Discover, Plan, CreateMix,
     LoadNullSink, server
<1>2. InMix(s)'
  BY <1>1 DEF InMix
<1>3. res'[s].moved = res[s].moved /\ pending'[s].moved = pending[s].moved
  BY DEF Boot, Discover, Plan, CreateMix, workers, Resources, Untracked
<1>4. Placed'
  BY <1>1, <1>3, OthersRest, StillPlaced DEF Streams
<1>5. CASE Discover(s)
  <2>1. \A m \in todo'[s].moves : m \in Move /\ at[m.input] = m.from
    BY <1>5 DEF Discover, NoCalls
  <2>2. \A m \in todo'[s].moves : m.from \in Sinks
    BY <1>1, <2>1 DEF Move
  <2> QED BY <1>2, <1>3, <1>4, <1>5, <2>2 DEF Discover, Streams, FromSinks
<1>6. CASE Boot(s) \/ Plan(s) \/ CreateMix(s)
  <2>1. todo' = todo /\ (pc'[s] \in {"plan", "mix", "mixDefault", "route", "reconcile"} =>
                           pc[s] \in {"plan", "mix"})
        /\ pc'[s] # "restore"
    BY <1>6 DEF Boot, Plan, CreateMix
  <2> QED BY <1>2, <1>3, <1>4, <2>1 DEF Streams, FromSinks
<1> QED BY <1>5, <1>6

\* while it has nothing to do with streams,
LEMMA QuietStreams ==
  ASSUME Calm, Base, Streams, NEW s \in Sessions, WorkerActs(s),
         UNCHANGED <<at, home>>, todo'[s] = todo[s],
         res'[s].moved = res[s].moved, pending'[s].moved = pending[s].moved,
         pc'[s] \notin {"restore", "unload"},
         pc'[s] \in {"plan", "mix", "mixDefault", "route", "reconcile"} =>
           pc[s] \in {"plan", "mix", "mixDefault", "route", "reconcile"},
         pc'[s] \in Routing \cup {"term", "list"} =>
           pc[s] \in Unrouted \cup Routing \cup {"term", "list"}
  PROVE  FromSinks(s)' /\ InMix(s)' /\ Placed'
<1>1. FromSinks(s)'
  BY DEF Streams, FromSinks
<1>2. Placed'
  BY OthersRest, StillPlaced DEF Streams
<1>3. pc[s] \in Unrouted => \A i \in Inputs : at[i] # Mix
  BY MixIsEmpty DEF Unrouted, HasModules, Routing, WorkerActs
<1>4. CASE pc'[s] \notin Routing \cup {"term", "list"}
  BY <1>1, <1>2, <1>4 DEF InMix
<1>5. CASE pc[s] \in Unrouted
  BY <1>1, <1>2, <1>3, <1>5 DEF InMix
<1>6. CASE pc[s] \in Routing \cup {"term", "list"}
  BY <1>1, <1>2, <1>6 DEF Streams, InMix
<1> QED BY <1>1, <1>2, <1>4, <1>5, <1>6

\* or waits,
LEMMA WaitStreams ==
  ASSUME Calm, Base, Streams, NEW s \in Sessions, WorkerActs(s),
         \/ KeepDefault(s) \/ RouteDone(s) \/ StartEncoder(s) \/ StartTransport(s) \/ Announce(s)
         \/ ToolExited(s) \/ Refresh(s) \/ Forget(s) \/ StopSeen(s) \/ TermChildren(s)
         \/ MoveFails(s) \/ WorkerRaises(s) \/ WriteFinal(s) \/ Exit(s)
  PROVE  FromSinks(s)' /\ InMix(s)' /\ Placed'
<1> USE ActorParts, FieldTypes DEF Goto, Base
<1>1. UNCHANGED <<at, home>> /\ todo'[s] = todo[s]
  BY DEF KeepDefault, SetDefault, RouteDone, StartEncoder, StartTransport, Announce, ToolExited,
     Refresh, Forget, StopSeen, TermChildren, MoveFails, WorkerRaises, Raise, WriteFinal, Exit,
     server
<1>2. res'[s].moved = res[s].moved
  BY DEF KeepDefault, RouteDone, StartEncoder, StartTransport, Announce, ToolExited,
     Refresh, Forget, StopSeen, TermChildren, MoveFails, WorkerRaises, Raise, WriteFinal, Exit,
     Resources
<1>3. pending'[s].moved = pending[s].moved
  BY DEF KeepDefault, RouteDone, StartEncoder, StartTransport, Announce, ToolExited,
     Refresh, Forget, StopSeen, TermChildren, MoveFails, WorkerRaises, Raise, WriteFinal, Exit,
     Untracked, workers
<1>4. /\ pc'[s] \notin {"restore", "unload"}
      /\ pc'[s] \in {"plan", "mix", "mixDefault", "route", "reconcile"} => pc[s] = "mixDefault"
      /\ pc'[s] \in Routing \cup {"term", "list"} =>
           pc[s] \in Unrouted \cup Routing \cup {"term", "list"}
  BY DEF KeepDefault, RouteDone, StartEncoder, StartTransport, Announce, ToolExited,
     Refresh, Forget, StopSeen, TermChildren, MoveFails, WorkerRaises, Raise, WriteFinal, Exit,
     RaisingPCs, Polling, Unrouted, Routing
<1> QED BY <1>1, <1>2, <1>3, <1>4, QuietStreams

\* while it routes,
LEMMA RouteStreams ==
  ASSUME Calm, Base, Streams, NEW s \in Sessions, WorkerActs(s),
         Track(s) \/ RouteMove(s) \/ RouteLoopback(s) \/ Reconcile(s)
  PROVE  FromSinks(s)' /\ InMix(s)' /\ Placed'
<1> USE ActorParts, FieldTypes DEF Goto, Base
<1>1. CASE Track(s)
  <2>1. /\ UNCHANGED <<at, home, pc>> /\ todo'[s] = todo[s] /\ pc[s] \in TrackingPCs
        /\ pending'[s].moved = {}
    BY <1>1 DEF Track, server, Nothing, Untracked
  <2>2. res'[s].moved = res[s].moved \cup pending[s].moved
    BY <1>1 DEF Track, Resources
  <2>3. Placed'
    BY <2>1, <2>2, OthersRest, StillPlaced DEF Streams
  <2>4. FromSinks(s)'
    BY <2>1, <2>2 DEF Streams, FromSinks, TrackingPCs
  <2>5. InMix(s)'
    BY <2>1, <2>2 DEF Streams, InMix, TrackingPCs, Routing
  <2> QED BY <2>3, <2>4, <2>5
<1>2. CASE RouteMove(s)
  <2>1. PICK m \in todo[s].moves :
          /\ at' = [at EXCEPT ![m.input] = Mix]
          /\ todo' = [todo EXCEPT ![s].moves = @ \ {m}]
          /\ pending' = [pending EXCEPT ![s].moved = {m}]
    BY <1>2 DEF RouteMove, MoveInput
  <2>2. /\ UNCHANGED <<pc, res, home>> /\ pc[s] \in {"route", "reconcile"}
        /\ pending[s].moved = {}
    BY <1>2 DEF RouteMove, MoveInput, Settled, Nothing
  <2>3. /\ pending'[s].moved = {m} /\ todo'[s].moves \subseteq todo[s].moves
        /\ m.from \in Sinks /\ m.input \in Inputs
    BY <2>1, <2>2 DEF Untracked, Todo, Streams, FromSinks, Move
  <2>4. \A i \in Inputs : at'[i] = IF i = m.input THEN Mix ELSE at[i]
    BY <2>1, <2>3 DEF TypeOK, ServerTypeOK
  <2>5. Placed'
    BY <2>2, <2>4, StillPlaced DEF Streams
  <2>6. FromSinks(s)'
    BY <2>2, <2>3 DEF Streams, FromSinks
  <2>7. InMix(s)'
    BY <2>2, <2>3, <2>4 DEF Streams, InMix, Routing
  <2> QED BY <2>5, <2>6, <2>7
<1>3. CASE RouteLoopback(s)
  <2>1. PICK m \in todo[s].mods : /\ todo' = [todo EXCEPT ![s].mods = @ \ {m}]
                                  /\ pending' = [pending EXCEPT ![s].mods = {m}]
    BY <1>3 DEF RouteLoopback
  <2>2. pending'[s].moved = pending[s].moved /\ todo'[s].moves = todo[s].moves
    BY <2>1 DEF Untracked, Todo
  <2>3. UNCHANGED <<pc, res, at, home>> /\ pc[s] \in {"route", "reconcile"}
    BY <1>3 DEF RouteLoopback, LoadLoopback
  <2>4. Placed'
    BY <2>3, StillPlaced DEF Streams
  <2>5. FromSinks(s)' /\ InMix(s)'
    BY <2>2, <2>3 DEF Streams, FromSinks, InMix
  <2> QED BY <2>4, <2>5
<1>4. CASE Reconcile(s)
  <2>1. \A m \in todo'[s].moves : m \in Move /\ at[m.input] = m.from /\ m.from # Mix
    BY <1>4 DEF Reconcile
  <2>2. \A m \in todo'[s].moves : m.from \in Sinks
    BY <2>1 DEF Move
  <2>3. /\ UNCHANGED <<res, pending, at, home>>
        /\ pc[s] = "wait" /\ pc'[s] = "reconcile"
    BY <1>4 DEF Reconcile, Polling, server, workers
  <2>4. Placed'
    BY <2>3, StillPlaced DEF Streams
  <2>5. FromSinks(s)'
    BY <2>2, <2>3 DEF Streams, FromSinks
  <2>6. InMix(s)'
    BY <2>3 DEF Streams, InMix, Routing
  <2> QED BY <2>4, <2>5, <2>6
<1> QED BY <1>1, <1>2, <1>3, <1>4

\* and while it cleans up.
LEMMA CleanupStreams ==
  ASSUME Calm, Base, Streams, NEW s \in Sessions, WorkerActs(s), Cleanup(s)
  PROVE  FromSinks(s)' /\ InMix(s)' /\ Placed'
<1> USE ActorParts, FieldTypes DEF Goto, Base
<1>1. res'[s] = res[s] /\ pending'[s] = pending[s] /\ Engaged(s)
  BY DEF Cleanup, List, Restore, RestoreDone, UnloadTracked, UnloadDone, RestoreDefault, workers,
     WorkerActs
<1>2. CASE List(s)
  <2>1. /\ pc[s] = "list" /\ pc'[s] = "restore" /\ UNCHANGED <<at, home>>
        /\ todo'[s].moves = {m \in res[s].moved : res[s].mix /\ at[m.input] = Mix}
    BY <1>2, CallsSucceed DEF List, Listing, server
  <2>2. pending[s].moved = {}
    BY <2>1 DEF Accounts, Account, PendingIsTracked, TrackingPCs, Nothing
  <2>3. \A i \in Inputs : at[i] = Mix => \E m \in res[s].moved : m.input = i /\ m \in todo'[s].moves
    BY <1>1, <2>1, <2>2, MixIsTracked DEF Streams, InMix
  <2>4. FromSinks(s)'
    BY <1>1, <2>1 DEF Streams, FromSinks
  <2>5. InMix(s)'
    BY <2>1, <2>3 DEF InMix, Routing
  <2>6. Placed'
    BY <1>1, <2>1, OthersRest, StillPlaced DEF Streams
  <2> QED BY <2>4, <2>5, <2>6
<1>3. CASE Restore(s)
  <2>1. PICK m \in todo[s].moves :
          /\ todo' = [todo EXCEPT ![s].moves = @ \ {m}]
          /\ IF Playing(m.input) /\ m.from \in Sinks
             THEN MoveInput(m.input, m.from) ELSE UNCHANGED server
    BY <1>3, CallsSucceed DEF Restore
  <2>2. pc[s] = "restore" /\ pc' = pc
    BY <1>3 DEF Restore
  <2>3. /\ m \in res[s].moved /\ m.from \in Sinks /\ m.input \in Inputs
        /\ todo'[s].moves = todo[s].moves \ {m}
    BY <2>1, <2>2 DEF Streams, FromSinks, Todo, Resources, Move
  <2>4. home' = home /\ \A i \in Inputs :
          at'[i] = IF i = m.input /\ Playing(i) THEN m.from ELSE at[i]
    BY <2>1, <2>3 DEF MoveInput, server, TypeOK, ServerTypeOK
  <2>5. m.from \in Origins(m.input)
    BY <2>3 DEF Origins
  <2>6. Placed'
    BY <1>1, <2>4, <2>5, OthersRest, StillPlaced DEF Streams
  <2>7. FromSinks(s)'
    BY <1>1, <2>2, <2>3 DEF Streams, FromSinks
  <2>8. \A i \in Inputs : at'[i] = Mix => at[i] = Mix /\ i # m.input
    BY <2>3, <2>4 DEF Playing
  <2>9. InMix(s)'
    BY <2>2, <2>3, <2>8 DEF Streams, InMix, Routing
  <2> QED BY <2>6, <2>7, <2>9
<1>4. CASE RestoreDone(s)
  <2>1. /\ pc[s] = "restore" /\ pc'[s] = "unload" /\ todo[s].moves = {}
        /\ UNCHANGED <<at, home>>
    BY <1>4 DEF RestoreDone, server
  <2>2. \A i \in Inputs : at[i] # Mix
    BY <2>1 DEF Streams, InMix
  <2>3. Placed'
    BY <1>1, <2>1, OthersRest, StillPlaced DEF Streams
  <2> QED BY <1>1, <2>1, <2>2, <2>3 DEF Streams, FromSinks, InMix
<1>5. CASE UnloadTracked(s)
  <2>1. pc[s] = "unload" /\ pc' = pc /\ \A i \in Inputs : at[i] # Mix
    BY <1>5 DEF UnloadTracked, Streams, InMix
  <2>2. home' = home /\ \A i \in Inputs : at'[i] = at[i]
    BY <1>5, <2>1 DEF UnloadTracked, UnloadNext, Unload, server
  <2>3. Placed'
    BY <1>1, <2>2, OthersRest, StillPlaced DEF Streams
  <2> QED BY <1>1, <2>1, <2>2, <2>3 DEF Streams, FromSinks, InMix
<1>6. CASE UnloadDone(s) \/ RestoreDefault(s)
  <2>1. pc'[s] \in {"default", "final"} /\ UNCHANGED <<at, home>>
    BY <1>6 DEF UnloadDone, RestoreDefault, AfterCleanup, SetDefault, server
  <2>2. Placed'
    BY <1>1, <2>1, OthersRest, StillPlaced DEF Streams
  <2> QED BY <1>1, <2>1, <2>2 DEF Streams, FromSinks, InMix, Routing
<1> QED BY <1>2, <1>3, <1>4, <1>5, <1>6 DEF Cleanup

\* A worker's step keeps account of every stream it has moved.
LEMMA WorkerStreams ==
  ASSUME Calm, Base, Streams, NEW s \in Sessions, WorkerActs(s) PROVE Streams'
<1>1. ASSUME NEW t \in Sessions \ {s} PROVE FromSinks(t)' /\ InMix(t)'
  BY OthersRest DEF Streams, FromSinks, InMix, Routing
<1>2. FromSinks(s)' /\ InMix(s)' /\ Placed'
  BY PlanStreams, WaitStreams, RouteStreams, CleanupStreams DEF WorkerActs, WorkerStep
<1> QED BY <1>1, <1>2 DEF Streams

\* The moves a worker makes are undone by its cleanup before the Mix goes, as
\* long as its calls succeed, the user's own moves are not: when no Session runs and no command is at work
\* every stream plays where the user put it or where a Session took it from.
THEOREM StreamsRestoredAlways == ASSUME Calm PROVE Spec => []StreamsRestored
<1>1. Init => Streams
  BY DEF Init, ServerInit, Streams, Placed, FromSinks, InMix, Actors, EmptyResources, Nothing,
     NotYet, Mix, Routing
<1>2. Base /\ IdleCleanup /\ Streams /\ [Next]_vars => Streams'
  BY CalmNext, AsideStreams, WorkerStreams
<1>3. Base /\ Streams => StreamsRestored
  <2>1. SUFFICES ASSUME Base, Streams, Quiescent, NEW i \in Inputs, Playing(i)
                 PROVE  at[i] \in {home[i]} \cup Origins(i)
    BY DEF StreamsRestored, Origins
  <2>2. at[i] # Mix
    BY <2>1, NoModules DEF Quiescent, Engaged
  <2> QED BY <2>1, <2>2 DEF Playing, Streams, Placed
<1> QED BY <1>1, <1>2, <1>3, BaseAlways, IdleAlways, PTL DEF Spec

-----------------------------------------------------------------------------
(* The default sink.                                                       *)

\* A worker notes the default sink before it makes the Mix, and plans to put it
\* back whenever it finds that the Mix is the default.
DfltNoted(s) ==
  /\ pc[s] \in {"mix", "mixDefault"} => res[s].dflt \in Sinks
  /\ res[s].mix => res[s].dflt \in Sinks
  /\ pc[s] \in {"none", "boot", "discover", "plan"} => res[s].dflt = NoOne
  /\ pc[s] \in {"restore", "unload"} /\ dflt = Mix => todo[s].dflt
  /\ pc[s] \in {"restore", "unload", "default"} /\ todo[s].dflt => res[s].mix

\* Any other default is the user's or one a worker noted, except that after the
\* Mix went the server's choice stands until the worker puts its own back.
PuttingBack(s) == pc[s] \in {"unload", "default"} /\ todo[s].dflt
DfltPlaced     == \/ dflt \in {Mix, chosen} \cup {res[s].dflt : s \in Sessions}
                  \/ \E s \in Sessions : PuttingBack(s)

Default == DfltPlaced /\ \A s \in Sessions : DfltNoted(s)

\* While the workers rest only the user chooses a default sink.
LEMMA AsideDefault ==
  ASSUME Base, Default, Aside \/ Surroundings PROVE Default'
<1> USE DEF Base
<1>1. CASE Aside
  <2>1. ASSUME NEW s \in Sessions PROVE DfltNoted(s)'
    BY <1>1 DEF Aside, server, Default, DfltNoted
  <2>2. UNCHANGED <<dflt, chosen>> /\ \A s \in Sessions : res'[s] = res[s]
    BY <1>1 DEF Aside, server
  <2>3. \A s \in Sessions : PuttingBack(s) => PuttingBack(s)'
    BY <1>1 DEF Aside, PuttingBack
  <2>4. DfltPlaced'
    BY <2>2, <2>3 DEF Default, DfltPlaced
  <2> QED BY <2>1, <2>4 DEF Default
<1>2. CASE Surroundings
  <2>1. UNCHANGED <<pc, res, todo>>
    BY <1>2 DEF Surroundings
  <2>2. UNCHANGED <<dflt, chosen>> \/ (dflt' = chosen' /\ dflt' # Mix)
    BY <1>2 DEF Surroundings, StreamCloses, StreamOpens, UserMoves, UserChoosesDefault
  <2> QED BY <2>1, <2>2 DEF Default, DfltNoted, DfltPlaced, PuttingBack
<1> QED BY <1>1, <1>2

\* A worker that leaves the default sink alone and has nothing to put back.
LEMMA SameDefault ==
  ASSUME Calm, Base, Default, NEW s \in Sessions, WorkerActs(s),
         UNCHANGED <<dflt, chosen, todo>>, res'[s].dflt = res[s].dflt,
         res'[s].mix => res[s].mix \/ res[s].dflt \in Sinks,
         pc'[s] \in {"mix", "mixDefault"} => res[s].dflt \in Sinks,
         pc'[s] \in {"none", "boot", "discover", "plan"} =>
           pc[s] \in {"none", "boot", "discover", "plan"},
         pc'[s] \in {"restore", "unload", "default"} =>
           res'[s].mix = res[s].mix /\ pc[s] \in {"restore", "unload", "default"},
         pc'[s] \in {"restore", "unload"} => pc[s] \in {"restore", "unload"},
         PuttingBack(s) => PuttingBack(s)'
  PROVE  Default'
<1>1. ASSUME NEW t \in Sessions \ {s} PROVE DfltNoted(t)'
  BY OthersRest DEF Default, DfltNoted
<1>2. DfltNoted(s)'
  BY DEF Default, DfltNoted
<1>3. \A t \in Sessions : res'[t].dflt = res[t].dflt /\ (PuttingBack(t) => PuttingBack(t)')
  BY OthersRest DEF PuttingBack
<1>4. DfltPlaced'
  BY <1>3 DEF Default, DfltPlaced
<1> QED BY <1>1, <1>2, <1>4 DEF Default

\* With nothing to put back the default sink is a known one.
LEMMA KnownDefault ==
  ASSUME Base, Default, NEW s \in Sessions, WorkerActs(s), PuttingBack(s) = FALSE
  PROVE  dflt \in {Mix, chosen} \cup {res[t].dflt : t \in Sessions}
  BY OthersRest DEF Default, DfltPlaced, PuttingBack

\* A worker's own step.
LEMMA WorkerDefault ==
  ASSUME Calm, Base, Default, NEW s \in Sessions, WorkerActs(s) PROVE Default'
<1> USE ActorParts, FieldTypes DEF Goto, Base
<1>1. ASSUME NEW t \in Sessions \ {s} PROVE DfltNoted(t)'
  BY OthersRest DEF Default, DfltNoted
<1>2. DfltNoted(s)
  BY DEF Default
<1>3. SUFFICES Default' \/ (DfltNoted(s)' /\ DfltPlaced')
  BY <1>1 DEF Default
<1>4. CASE Plan(s)
  <2>1. /\ pc[s] = "plan" /\ pc'[s] \in {"mix", "announce"} /\ UNCHANGED <<dflt, chosen, todo>>
        /\ dflt \in Sinks
    BY <1>4, MixIsEmpty DEF Plan, server, HasModules, Routing, WorkerActs, TypeOK, ServerTypeOK
  <2>2. res[s].mix = FALSE /\ res[s].dflt = NoOne
    BY <1>2, <2>1 DEF DfltNoted, Accounts, Account, NothingYet, Unrouted
  <2>3. CASE cfg[s].dest = "local"
    <3>1. res' = res /\ pc'[s] = "announce"
      BY <1>4, <2>3 DEF Plan
    <3>2. Default'
      BY <2>1, <3>1, SameDefault DEF PuttingBack
    <3> QED BY <3>2
  <2>4. CASE cfg[s].dest # "local"
    <3>1. res'[s] = [res[s] EXCEPT !.dflt = dflt] /\ pc'[s] = "mix"
      BY <1>4, <2>4 DEF Plan
    <3>2. res'[s].dflt = dflt /\ res'[s].mix = res[s].mix
      BY <3>1 DEF Resources
    <3>3. DfltNoted(s)'
      BY <2>1, <3>1, <3>2 DEF DfltNoted
    <3>4. DfltPlaced'
      BY <2>1, <3>2 DEF DfltPlaced
    <3> QED BY <3>3, <3>4
  <2> QED BY <2>3, <2>4
<1>5. CASE CreateMix(s)
  <2>1. /\ pc[s] = "mix" /\ pc'[s] = "mixDefault" /\ UNCHANGED <<todo, chosen>> /\ dflt' \in {dflt, Mix}
        /\ res'[s] = [res[s] EXCEPT !.mix = TRUE] /\ \A t \in Sessions \ {s} : res'[t] = res[t]
    BY <1>5 DEF CreateMix, LoadNullSink, server
  <2>2. res'[s].dflt = res[s].dflt
    BY <2>1 DEF Resources
  <2>3. DfltNoted(s)'
    BY <1>2, <2>1, <2>2 DEF DfltNoted
  <2>4. dflt' \in {Mix, chosen} \cup {res[t].dflt : t \in Sessions}
    BY <2>1, KnownDefault DEF PuttingBack
  <2>5. DfltPlaced'
    BY <2>1, <2>2, <2>4 DEF DfltPlaced
  <2> QED BY <2>3, <2>5
<1>6. CASE KeepDefault(s) \/ RestoreDefault(s)
  <2>1. /\ UNCHANGED <<res, chosen>> /\ pc'[s] \in {"route", "final"}
        /\ dflt' = dflt \/ (dflt' = res[s].dflt /\ dflt' \in Sinks)
    BY <1>6 DEF KeepDefault, RestoreDefault, AfterCleanup, SetDefault, server
  <2>2. DfltNoted(s)'
    BY <1>2, <2>1 DEF DfltNoted
  <2>3. PuttingBack(s) => dflt' = res[s].dflt
    BY <1>2, <1>6, CallsSucceed DEF PuttingBack, DfltNoted, KeepDefault, RestoreDefault, SetDefault
  <2>4. DfltPlaced'
    <3>1. CASE PuttingBack(s)
      BY <2>1, <2>3, <3>1 DEF DfltPlaced
    <3>2. CASE PuttingBack(s) = FALSE
      BY <2>1, <3>2, KnownDefault DEF DfltPlaced
    <3> QED BY <3>1, <3>2 DEF PuttingBack
  <2> QED BY <2>2, <2>4
<1>7. CASE List(s)
  <2>1. /\ pc[s] = "list" /\ pc'[s] = "restore" /\ UNCHANGED <<res, dflt, chosen>>
        /\ todo'[s].dflt = (res[s].mix /\ dflt = Mix)
    BY <1>7, CallsSucceed DEF List, Listing, server
  <2>2. dflt = Mix => res[s].mix
    BY <2>1, MixIsTracked DEF WorkerActs
  <2>3. DfltNoted(s)'
    BY <1>2, <2>1, <2>2 DEF DfltNoted
  <2>4. dflt \in {Mix, chosen} \cup {res[t].dflt : t \in Sessions}
    BY <2>1, KnownDefault DEF PuttingBack
  <2>5. DfltPlaced'
    BY <2>1, <2>4 DEF DfltPlaced
  <2> QED BY <2>3, <2>5
<1>8. CASE Restore(s)
  <2>1. /\ pc[s] = "restore" /\ pc' = pc /\ UNCHANGED <<res, dflt, chosen>>
        /\ \E m \in Move : todo' = [todo EXCEPT ![s].moves = @ \ {m}]
    BY <1>8 DEF Restore, MoveInput, server, Todo
  <2>2. todo'[s].dflt = todo[s].dflt
    BY <2>1 DEF Todo
  <2>3. DfltNoted(s)'
    BY <1>2, <2>1, <2>2 DEF DfltNoted
  <2>4. dflt \in {Mix, chosen} \cup {res[t].dflt : t \in Sessions}
    BY <2>1, KnownDefault DEF PuttingBack
  <2>5. DfltPlaced'
    BY <2>1, <2>4 DEF DfltPlaced
  <2> QED BY <2>3, <2>5
<1>9. CASE UnloadTracked(s)
  <2>1. PICK m \in todo[s].mods :
          /\ todo' = [todo EXCEPT ![s].mods = @ \ {m}]
          /\ IF m \in modules THEN Unload(m) ELSE UNCHANGED server
    BY <1>9, CallsSucceed DEF UnloadTracked, UnloadNext
  <2>2. pc[s] = "unload" /\ pc' = pc /\ res' = res /\ todo'[s].dflt = todo[s].dflt
    BY <1>9, <2>1 DEF UnloadTracked, Todo
  <2>3. chosen' = chosen /\ (dflt' = dflt \/ (dflt = Mix /\ dflt' \in Sinks))
    BY <2>1 DEF Unload, server
  <2>4. DfltNoted(s)'
    BY <1>2, <2>2, <2>3 DEF DfltNoted
  <2>5. CASE PuttingBack(s)
    <3>1. PuttingBack(s)'
      BY <2>2, <2>5 DEF PuttingBack
    <3> QED BY <2>4, <3>1 DEF DfltPlaced
  <2>6. CASE PuttingBack(s) = FALSE
    <3>1. dflt # Mix
      BY <1>2, <2>2, <2>6 DEF DfltNoted, PuttingBack
    <3>2. dflt \in {Mix, chosen} \cup {res[t].dflt : t \in Sessions}
      BY <2>6, KnownDefault
    <3>3. DfltPlaced'
      BY <2>2, <2>3, <3>1, <3>2 DEF DfltPlaced
    <3> QED BY <2>4, <3>3
  <2> QED BY <2>5, <2>6 DEF PuttingBack
<1>10. CASE RouteMove(s) \/ RouteLoopback(s) \/ Reconcile(s) \/ Discover(s)
  <2>1. /\ pc[s] \in {"route", "reconcile", "wait", "discover"}
        /\ pc'[s] \in {"route", "reconcile", "plan"}
        /\ (pc'[s] = "plan" => pc[s] = "discover") /\ UNCHANGED <<res, dflt, chosen>>
    BY <1>10 DEF RouteMove, RouteLoopback, Reconcile, Discover, Polling, MoveInput, LoadLoopback,
       server
  <2>2. DfltNoted(s)'
    BY <1>2, <2>1 DEF DfltNoted
  <2>3. dflt \in {Mix, chosen} \cup {res[t].dflt : t \in Sessions}
    BY <2>1, KnownDefault DEF PuttingBack
  <2>4. DfltPlaced'
    BY <2>1, <2>3 DEF DfltPlaced
  <2> QED BY <2>2, <2>4
<1>11. CASE RestoreDone(s) \/ UnloadDone(s)
  <2>1. /\ UNCHANGED <<res, dflt, chosen, todo>>
        /\ \/ pc[s] = "restore" /\ pc'[s] = "unload"
           \/ pc[s] = "unload" /\ pc'[s] = "default"
    BY <1>11 DEF RestoreDone, UnloadDone, server
  <2>2. Default'
    BY <2>1, SameDefault DEF PuttingBack
  <2> QED BY <2>2
<1>12. CASE \/ Boot(s) \/ Track(s) \/ RouteDone(s) \/ StartEncoder(s) \/ StartTransport(s)
            \/ Announce(s) \/ ToolExited(s) \/ Refresh(s) \/ Forget(s) \/ StopSeen(s)
            \/ TermChildren(s) \/ MoveFails(s) \/ WorkerRaises(s) \/ WriteFinal(s) \/ Exit(s)
  <2>1. UNCHANGED <<dflt, chosen, todo>>
    BY <1>12 DEF Boot, Track, RouteDone, StartEncoder, StartTransport, Announce, ToolExited,
       Refresh, Forget, StopSeen, TermChildren, MoveFails, WorkerRaises, Raise, WriteFinal, Exit,
       server
  <2>2. res'[s].dflt = res[s].dflt /\ res'[s].mix = res[s].mix
    <3>1. CASE Track(s)
      <4>1. PICK x, y, z : res' = [res EXCEPT ![s] = [@ EXCEPT !.moved = x, !.mods = y, !.procs = z]]
        BY <3>1 DEF Track
      <4> QED BY <4>1 DEF Resources
    <3>2. CASE Forget(s)
      BY <3>2 DEF Forget, Resources
    <3>3. CASE ~Track(s) /\ ~Forget(s)
      BY <1>12, <3>3 DEF Boot, RouteDone, StartEncoder, StartTransport, Announce, ToolExited,
         Refresh, StopSeen, TermChildren, MoveFails, WorkerRaises, Raise, WriteFinal, Exit
    <3> QED BY <3>1, <3>2, <3>3
  <2>3. /\ pc'[s] \in {"mix", "mixDefault"} => pc[s] = pc'[s]
        /\ pc'[s] \in {"none", "boot", "discover", "plan"} => pc[s] = "boot"
        /\ pc'[s] \notin {"restore", "unload", "default"}
        /\ pc[s] \notin {"restore", "unload", "default"}
    BY <1>12 DEF Boot, Track, TrackingPCs, RouteDone, StartEncoder, StartTransport, Announce,
       ToolExited, Refresh, Forget, StopSeen, TermChildren, MoveFails, WorkerRaises, RaisingPCs,
       Polling, Raise, WriteFinal, Exit
  <2>4. Default'
    BY <1>2, <2>1, <2>2, <2>3, SameDefault DEF PuttingBack, DfltNoted
  <2> QED BY <2>4
<1> QED BY <1>4, <1>5, <1>6, <1>7, <1>8, <1>9, <1>10, <1>11, <1>12
        DEF WorkerActs, WorkerStep, Cleanup

\* The Mix never stays the default sink, nor does a sink the server picked when
\* the Mix went, as long as the calls of the cleanup succeed: when no Session runs and no command is at work the default is
\* the user's last choice or the one a Session found at its start.
THEOREM DefaultRestoredAlways == ASSUME Calm PROVE Spec => []DefaultRestored
<1>1. Init => Default
  BY DEF Init, ServerInit, Default, DfltPlaced, DfltNoted, Actors, EmptyResources
<1>2. Base /\ IdleCleanup /\ Default /\ [Next]_vars => Default'
  BY CalmNext, AsideDefault, WorkerDefault
<1>3. Base /\ Default => DefaultRestored
  <2>1. SUFFICES ASSUME Base, Default, Quiescent
                 PROVE  dflt \in {chosen} \cup {res[s].dflt : s \in Sessions}
    BY DEF DefaultRestored
  <2>2. dflt # Mix
    BY <2>1, NoModules DEF Quiescent, Engaged
  <2>3. \A s \in Sessions : ~PuttingBack(s)
    BY <2>1 DEF Base, Quiescent, Alive, PuttingBack, NobodyDead
  <2> QED BY <2>1, <2>2, <2>3 DEF Default, DfltPlaced
<1> QED BY <1>1, <1>2, <1>3, BaseAlways, IdleAlways, PTL DEF Spec
=============================================================================
