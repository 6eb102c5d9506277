--------------------------- MODULE SessionProofs ---------------------------
(***************************************************************************)
(* Proofs about Session for every set of streams, sinks, sessions, clients *)
(* and configurations: its variables keep their types, workers are         *)
(* serialized, and only its owner takes a living worker's modules away.    *)
(***************************************************************************)
EXTENDS SessionProperties, TLAPS

USE ServerAssumption, SessionAssumption

\* Taking a call off an actor's list leaves a list of calls.
LEMMA TodoMinus ==
  ASSUME NEW f \in [Actors -> Todo], NEW a \in Actors, NEW m
  PROVE  /\ [f EXCEPT ![a].moves = @ \ {m}] \in [Actors -> Todo]
         /\ [f EXCEPT ![a].mods = @ \ {m}] \in [Actors -> Todo]
  BY DEF Todo

\* What a worker has done and not recorded: one move, one module or some processes.
LEMMA PendingOne ==
  ASSUME NEW f \in [Sessions -> Untracked], NEW s \in Sessions
  PROVE  /\ \A m \in Move : [f EXCEPT ![s].moved = {m}] \in [Sessions -> Untracked]
         /\ \A m \in Module : [f EXCEPT ![s].mods = {m}] \in [Sessions -> Untracked]
         /\ \A ps \in SUBSET Proc : [f EXCEPT ![s].procs = ps] \in [Sessions -> Untracked]
<1>1. ASSUME NEW m \in Move PROVE [f EXCEPT ![s].moved = {m}] \in [Sessions -> Untracked]
  <2>1. {m} \in SUBSET Move OBVIOUS
  <2>2. QED BY <2>1 DEF Untracked
<1>2. ASSUME NEW m \in Module PROVE [f EXCEPT ![s].mods = {m}] \in [Sessions -> Untracked]
  <2>1. {m} \in SUBSET Module OBVIOUS
  <2>2. QED BY <2>1 DEF Untracked
<1>3. ASSUME NEW ps \in SUBSET Proc PROVE [f EXCEPT ![s].procs = ps] \in [Sessions -> Untracked]
  BY <1>3 DEF Untracked
<1> QED BY <1>1, <1>2, <1>3

\* The two ways a worker changes its resources in memory only.
LEMMA ResFields ==
  ASSUME NEW f \in [Actors -> Resources], NEW a \in Actors, NEW ps
  PROVE  /\ [f EXCEPT ![a].mix = TRUE] \in [Actors -> Resources]
         /\ [f EXCEPT ![a].procs = @ \ ps] \in [Actors -> Resources]
  BY DEF Resources

\* The initial states are well typed.
LEMMA InitTypeOK == Init => TypeOK
  BY DEF Init, ServerInit, TypeOK, ServerTypeOK, Actors, ClientPCs, WorkerPCs, CleanupPCs,
         Resources, EmptyResources, Todo, NoCalls, SessionFile, StoppedState, States,
         ActiveStates, Untracked, Nothing, ConfigType

\* A step of a worker's control keeps every actor in its own part of the program.
LEMMA WorkerGoto ==
  ASSUME TypeOK, NEW s \in Sessions, NEW x \in WorkerPCs, pc' = [pc EXCEPT ![s] = x]
  PROVE  /\ pc' \in [Actors -> ClientPCs \cup WorkerPCs]
         /\ \A c \in Clients : pc'[c] \in ClientPCs
         /\ \A t \in Sessions : pc'[t] \in WorkerPCs
  BY DEF TypeOK, Actors

\* The same for a command.
LEMMA ClientGoto ==
  ASSUME TypeOK, NEW c \in Clients, NEW x \in ClientPCs, pc' = [pc EXCEPT ![c] = x]
  PROVE  /\ pc' \in [Actors -> ClientPCs \cup WorkerPCs]
         /\ \A d \in Clients : pc'[d] \in ClientPCs
         /\ \A t \in Sessions : pc'[t] \in WorkerPCs
  BY DEF TypeOK, Actors

\* What a worker writes is a session.json.
LEMMA RecordType ==
  ASSUME TypeOK, NEW s \in Sessions, NEW st \in States, NEW r \in Resources
  PROVE  Record(s, st, r) \in SessionFile
  BY DEF Record, SessionFile, TypeOK

\* unload-module keeps the server well typed, also when the Mix goes.
LEMMA UnloadType ==
  ASSUME ServerTypeOK, NEW m, Unload(m) PROVE ServerTypeOK'
<1>1. CASE m.kind = "null" /\ ~MixExists(modules \ {m})
  BY <1>1 DEF Unload, ServerTypeOK
<1>2. CASE ~(m.kind = "null" /\ ~MixExists(modules \ {m}))
  BY <1>2 DEF Unload, ServerTypeOK
<1>3. QED BY <1>1, <1>2

\* One unload of a cleanup or of a sweep keeps the types.
LEMMA UnloadNextType ==
  ASSUME TypeOK, NEW a \in Actors, UnloadNext(a)
  PROVE  ServerTypeOK' /\ todo' \in [Actors -> Todo]
<1>1. PICK m \in todo[a].mods :
        /\ todo' = [todo EXCEPT ![a].mods = @ \ {m}]
        /\ \/ IF m \in modules THEN Unload(m) ELSE UNCHANGED server
           \/ UNCHANGED server
  BY DEF UnloadNext
<1>2. todo' \in [Actors -> Todo]
  BY <1>1, TodoMinus DEF TypeOK
<1>3. CASE m \in modules /\ Unload(m)
  BY <1>2, <1>3, UnloadType DEF TypeOK
<1>4. CASE UNCHANGED server
  BY <1>2, <1>4 DEF TypeOK, ServerTypeOK, server
<1> QED BY <1>1, <1>3, <1>4

\* move-sink-input keeps the server well typed.
LEMMA MoveInputType ==
  ASSUME ServerTypeOK, NEW i \in Inputs, NEW k \in Sinks \cup {Mix}, MoveInput(i, k)
  PROVE  ServerTypeOK'
  BY DEF MoveInput, ServerTypeOK

\* load-module keeps the server well typed.
LEMMA LoadType ==
  ASSUME ServerTypeOK, NEW m \in Module, LoadLoopback(m)
  PROVE  ServerTypeOK'
  BY DEF LoadLoopback, ServerTypeOK

\* A listing in which calls failed says less than one in which none did.
LEMMA ListingsBounds ==
  ASSUME NEW a, NEW found \in Listings(a)
  PROVE  /\ found.moves \subseteq Listing(a).moves
         /\ found.mods \subseteq Listing(a).mods
         /\ found.dflt => Listing(a).dflt
         /\ ~CallMayFail(a) => found = Listing(a)
<1>1. CASE CallMayFail(a)
  <2>1. found \in [moves : {Listing(a).moves, {}}, mods : {Listing(a).mods, {}},
                   dflt : {Listing(a).dflt, FALSE}]
    BY <1>1 DEF Listings
  <2>2. /\ found.moves \in {Listing(a).moves, {}}
        /\ found.mods \in {Listing(a).mods, {}}
        /\ found.dflt \in {Listing(a).dflt, FALSE}
    BY <2>1
  <2> QED BY <1>1, <2>2
<1>2. CASE ~CallMayFail(a)
  BY <1>2 DEF Listings
<1> QED BY <1>1, <1>2

LEMMA ListingsType ==
  ASSUME TypeOK, NEW a \in Actors PROVE Listings(a) \subseteq Todo
<1>1. Listing(a) \in Todo
  BY DEF Listing, Todo, TypeOK, Resources
<1>2. /\ Listing(a).moves \in SUBSET Move
      /\ Listing(a).mods \in SUBSET Module
      /\ Listing(a).dflt \in BOOLEAN
  BY <1>1 DEF Todo
<1>3. [moves : {Listing(a).moves, {}}, mods : {Listing(a).mods, {}},
       dflt : {Listing(a).dflt, FALSE}] \subseteq Todo
  BY <1>2 DEF Todo
<1> QED BY <1>1, <1>3 DEF Listings

\* Every step of cleanup_resources keeps the types.
LEMMA CleanupType ==
  ASSUME TypeOK, NEW a \in Actors, Cleanup(a) PROVE TypeOK'
<1> USE DEF Goto, Actors, ClientPCs, WorkerPCs, CleanupPCs
<1>1. CASE List(a)
  <2>1. PICK found \in Todo : todo' = [todo EXCEPT ![a] = found]
    BY <1>1, ListingsType DEF List
  <2> QED BY <1>1, <2>1 DEF List, TypeOK, ServerTypeOK, server, clients, workers
<1>2. CASE Restore(a)
  <2>1. PICK m \in todo[a].moves :
          /\ todo' = [todo EXCEPT ![a].moves = @ \ {m}]
          /\ \/ IF Playing(m.input) /\ m.from \in Sinks
                THEN MoveInput(m.input, m.from) ELSE UNCHANGED server
             \/ UNCHANGED server
    BY <1>2 DEF Restore
  <2>2. m \in Move
    BY DEF TypeOK, Todo
  <2>3. ServerTypeOK'
    <3>1. CASE m.from \in Sinks /\ MoveInput(m.input, m.from)
      BY <2>2, <3>1, MoveInputType DEF Move, TypeOK
    <3>2. CASE UNCHANGED server
      BY <3>2 DEF TypeOK, ServerTypeOK, server
    <3> QED BY <2>1, <3>1, <3>2
  <2>4. todo' \in [Actors -> Todo]
    BY <2>1, TodoMinus DEF TypeOK
  <2> QED BY <1>2, <2>3, <2>4 DEF Restore, TypeOK, clients, workers
<1>3. CASE RestoreDone(a)
  BY <1>3 DEF RestoreDone, TypeOK, ServerTypeOK, server, clients, workers
<1>4. CASE UnloadTracked(a)
  <2>1. ServerTypeOK' /\ todo' \in [Actors -> Todo]
    BY <1>4, UnloadNextType DEF UnloadTracked
  <2> QED BY <1>4, <2>1 DEF UnloadTracked, TypeOK, clients, workers
<1>5. CASE UnloadDone(a)
  BY <1>5 DEF UnloadDone, TypeOK, ServerTypeOK, server, clients, workers
<1>6. CASE RestoreDefault(a)
  BY <1>6 DEF RestoreDefault, AfterCleanup, SetDefault, Todo, NoCalls,
              TypeOK, ServerTypeOK, server, clients, workers
<1> QED BY <1>1, <1>2, <1>3, <1>4, <1>5, <1>6 DEF Cleanup

\* Every step of a worker keeps the types.
LEMMA WorkerType ==
  ASSUME TypeOK, NEW s \in Sessions, WorkerStep(s) PROVE TypeOK'
<1> USE DEF Goto, WorkerPCs, States, ActiveStates
<1> s \in Actors
  BY DEF Actors
<1>1. CASE Boot(s)
  <2>1. res[s] \in Resources
    BY DEF TypeOK
  <2>2. disk' \in SessionFile
    BY <1>1, <2>1, RecordType DEF Boot
  <2> QED BY <1>1, <2>2, WorkerGoto DEF Boot, TypeOK, ServerTypeOK, server, clients
<1>2. CASE Discover(s)
  <2> DEFINE moves == IF cfg[s].play THEN {m \in Move : at[m.input] = m.from} ELSE {}
             loads == {InputLoopback(s, d) : d \in cfg[s].caps}
                        \cup {CopyLoopback(s, k) : k \in CopySinks(s, moves)}
  <2>1. moves \in SUBSET Move
    OBVIOUS
  <2>2. CopySinks(s, moves) \in SUBSET Sinks
    BY <2>1 DEF CopySinks, Move
  <2>3. cfg[s].caps \in SUBSET Captures
    BY DEF TypeOK, ConfigType
  <2>4. loads \in SUBSET Module
    <3>1. \A d \in cfg[s].caps : InputLoopback(s, d) \in Module
      BY <2>3 DEF InputLoopback, Module, ModuleKinds
    <3>2. \A k \in CopySinks(s, moves) : CopyLoopback(s, k) \in Module
      BY <2>2 DEF CopyLoopback, Module, ModuleKinds
    <3> HIDE DEF moves
    <3> QED BY <3>1, <3>2
  <2>5. todo' = [todo EXCEPT ![s] =
                   IF cfg[s].dest = "local" THEN NoCalls
                   ELSE [moves |-> moves, mods |-> loads, dflt |-> FALSE]]
    BY <1>2 DEF Discover
  <2> HIDE DEF moves, loads
  <2>6. todo' \in [Actors -> Todo]
    BY <2>1, <2>4, <2>5 DEF TypeOK, Todo, NoCalls
  <2> QED BY <1>2, <2>6, WorkerGoto DEF Discover, TypeOK, ServerTypeOK, server, clients, workers
<1>3. CASE Plan(s)
  <2> DEFINE r == IF cfg[s].dest = "local" THEN res[s] ELSE [res[s] EXCEPT !.dflt = dflt]
  <2>1. r \in Resources
    <3>1. res[s] \in Resources /\ dflt \in Sinks \cup {Mix, NoOne}
      BY DEF TypeOK, ServerTypeOK
    <3>2. [res[s] EXCEPT !.dflt = dflt] \in Resources
      BY <3>1 DEF Resources
    <3> QED BY <3>1, <3>2
  <2>2. disk' = Record(s, "starting", r) /\ res' = [res EXCEPT ![s] = r]
    BY <1>3 DEF Plan
  <2> HIDE DEF r
  <2>3. disk' \in SessionFile /\ res' \in [Actors -> Resources]
    BY <2>1, <2>2, RecordType DEF TypeOK
  <2>4. PICK x \in {"announce", "mix"} : pc' = [pc EXCEPT ![s] = x]
    BY <1>3 DEF Plan
  <2> QED BY <1>3, <2>3, <2>4, WorkerGoto DEF Plan, TypeOK, ServerTypeOK, server, clients
<1>4. CASE CreateMix(s)
  <2>1. res' \in [Actors -> Resources]
    BY <1>4, ResFields DEF CreateMix, TypeOK
  <2>2. NullSink(s) \in Module
    BY DEF NullSink, Module, ModuleKinds
  <2>3. ServerTypeOK' /\ pending' \in [Sessions -> Untracked]
    <3>1. CASE MixExists(modules)
      BY <1>4, <3>1 DEF CreateMix, TypeOK, ServerTypeOK, server
    <3>2. CASE ~MixExists(modules)
      <4>1. pending' \in [Sessions -> Untracked]
        BY <1>4, <2>2, <3>2, PendingOne DEF CreateMix, TypeOK
      <4> QED BY <1>4, <2>2, <3>2, <4>1 DEF CreateMix, LoadNullSink, TypeOK, ServerTypeOK
    <3> QED BY <3>1, <3>2
  <2> QED BY <1>4, <2>1, <2>3, WorkerGoto DEF CreateMix, TypeOK, clients
<1>5. CASE KeepDefault(s)
  BY <1>5, WorkerGoto DEF KeepDefault, SetDefault, TypeOK, ServerTypeOK, server, clients, workers
<1>6. CASE Track(s)
  <2> DEFINE p == pending[s]
             first == IF \E q \in p.procs : q.tool = "ffmpeg"
                      THEN {q \in p.procs : q.tool = "ffmpeg"} ELSE p.procs
             r == [res[s] EXCEPT !.moved = @ \cup p.moved, !.mods = @ \cup p.mods,
                                 !.procs = @ \cup first]
             rest == [Nothing EXCEPT !.procs = p.procs \ first]
  <2>1. p \in Untracked /\ res[s] \in Resources
    BY DEF TypeOK
  <2>2. first \in SUBSET Proc
    BY <2>1 DEF Untracked
  <2>3. /\ res' = [res EXCEPT ![s] = r] /\ disk' = Record(s, wstate[s], r)
        /\ pending' = [pending EXCEPT ![s] = rest]
    BY <1>6 DEF Track
  <2> HIDE DEF first
  <2>4. r \in Resources
    BY <2>1, <2>2 DEF Resources, Untracked
  <2>5. rest \in Untracked
    BY <2>1 DEF Untracked, Nothing
  <2> HIDE DEF p, r, rest
  <2>6. disk' \in SessionFile
    BY <2>3, <2>4, RecordType DEF TypeOK
  <2>7. res' \in [Actors -> Resources] /\ pending' \in [Sessions -> Untracked]
    BY <2>3, <2>4, <2>5 DEF TypeOK
  <2> QED BY <1>6, <2>6, <2>7 DEF Track, TypeOK, ServerTypeOK, server, clients
<1>7. CASE RouteMove(s)
  <2>1. PICK m \in todo[s].moves :
          /\ MoveInput(m.input, Mix)
          /\ todo' = [todo EXCEPT ![s].moves = @ \ {m}]
          /\ pending' = [pending EXCEPT ![s].moved = {m}]
    BY <1>7 DEF RouteMove
  <2>2. m \in Move
    BY DEF TypeOK, Todo
  <2>3. ServerTypeOK'
    BY <2>1, <2>2, MoveInputType DEF Move, TypeOK
  <2>4. todo' \in [Actors -> Todo] /\ pending' \in [Sessions -> Untracked]
    BY <2>1, <2>2, TodoMinus, PendingOne DEF TypeOK
  <2> QED BY <1>7, <2>3, <2>4 DEF RouteMove, TypeOK, clients
<1>8. CASE RouteLoopback(s)
  <2>1. PICK m \in todo[s].mods :
          /\ LoadLoopback(m)
          /\ todo' = [todo EXCEPT ![s].mods = @ \ {m}]
          /\ pending' = [pending EXCEPT ![s].mods = {m}]
    BY <1>8 DEF RouteLoopback
  <2>2. m \in Module
    BY DEF TypeOK, Todo
  <2>3. ServerTypeOK'
    BY <2>1, <2>2, LoadType DEF TypeOK
  <2>4. todo' \in [Actors -> Todo] /\ pending' \in [Sessions -> Untracked]
    BY <2>1, <2>2, TodoMinus, PendingOne DEF TypeOK
  <2> QED BY <1>8, <2>3, <2>4 DEF RouteLoopback, TypeOK, clients
<1>9. CASE RouteDone(s)
  BY <1>9, WorkerGoto DEF RouteDone, TypeOK, ServerTypeOK, server, clients, workers
<1>10. CASE MoveFails(s)
  BY <1>10, WorkerGoto DEF MoveFails, Raise, TypeOK, ServerTypeOK, server, clients
<1>11. CASE StartEncoder(s)
  BY <1>11, WorkerGoto DEF StartEncoder, Proc, Tools, TypeOK, ServerTypeOK, server, clients
<1>12. CASE StartTransport(s)
  <2>1. Pipeline(s) \in SUBSET Proc
    BY DEF Pipeline, Proc, Tools, TypeOK
  <2>2. pending' \in [Sessions -> Untracked]
    BY <1>12, <2>1, PendingOne DEF StartTransport, TypeOK
  <2>3. PICK x \in {"wait", "announce"} : pc' = [pc EXCEPT ![s] = x]
    BY <1>12 DEF StartTransport
  <2> QED BY <1>12, <2>1, <2>2, <2>3, WorkerGoto
          DEF StartTransport, TypeOK, ServerTypeOK, server, clients
<1>13. CASE Announce(s)
  <2>1. disk' \in SessionFile
    BY <1>13, RecordType DEF Announce, TypeOK
  <2> QED BY <1>13, <2>1, WorkerGoto DEF Announce, TypeOK, ServerTypeOK, server, clients
<1>14. CASE ToolExited(s)
  BY <1>14, WorkerGoto DEF ToolExited, TypeOK, ServerTypeOK, server, clients
<1>15. CASE Reconcile(s)
  <2> DEFINE copied == {m.end : m \in {n \in res[s].mods : n.kind = "copy"}}
  <2>1. PICK moves \in SUBSET Move :
          todo' = [todo EXCEPT ![s] =
                     [moves |-> moves, dflt |-> FALSE,
                      mods |-> {CopyLoopback(s, k) : k \in CopySinks(s, moves) \ copied}]]
    BY <1>15 DEF Reconcile
  <2> HIDE DEF copied
  <2>2. CopySinks(s, moves) \in SUBSET Sinks
    BY DEF CopySinks, Move
  <2>3. {CopyLoopback(s, k) : k \in CopySinks(s, moves) \ copied} \in SUBSET Module
    BY <2>2 DEF CopyLoopback, Module, ModuleKinds
  <2>4. todo' \in [Actors -> Todo]
    BY <2>1, <2>3 DEF TypeOK, Todo
  <2> QED BY <1>15, <2>4, WorkerGoto DEF Reconcile, TypeOK, ServerTypeOK, server, clients, workers
<1>16. CASE Refresh(s)
  BY <1>16, WorkerGoto DEF Refresh, TypeOK, ServerTypeOK, server, clients, workers
<1>17. CASE Forget(s)
  <2>1. res' \in [Actors -> Resources]
    BY <1>17, ResFields DEF Forget, TypeOK
  <2> QED BY <1>17, <2>1, WorkerGoto DEF Forget, TypeOK, ServerTypeOK, server, clients
<1>18. CASE StopSeen(s)
  BY <1>18, WorkerGoto DEF StopSeen, TypeOK, ServerTypeOK, server, clients, workers
<1>19. CASE TermChildren(s)
  BY <1>19, WorkerGoto DEF TermChildren, TypeOK, ServerTypeOK, server, clients, workers, CleanupPCs
<1>20. CASE Cleanup(s)
  BY <1>20, CleanupType
<1>21. CASE WriteFinal(s)
  <2>1. disk' \in SessionFile
    BY <1>21, RecordType DEF WriteFinal, TypeOK
  <2> QED BY <1>21, <2>1, WorkerGoto DEF WriteFinal, TypeOK, ServerTypeOK, server, clients
<1>22. CASE Exit(s)
  BY <1>22, WorkerGoto DEF Exit, TypeOK, ServerTypeOK, server, clients, workers
<1> QED BY <1>1, <1>2, <1>3, <1>4, <1>5, <1>6, <1>7, <1>8, <1>9, <1>10, <1>11, <1>12, <1>13,
           <1>14, <1>15, <1>16, <1>17, <1>18, <1>19, <1>20, <1>21, <1>22 DEF WorkerStep

\* So does a call that Stop's SIGTERM ends.
LEMMA InFlightType ==
  ASSUME TypeOK, NEW s \in Sessions, NEW x \in WorkerPCs, InFlight(s, x)
  PROVE  /\ pending' \in [Sessions -> Untracked]
         /\ fail' \in [Sessions -> BOOLEAN]
         /\ todo' \in [Actors -> Todo]
<1> s \in Actors
  BY DEF Actors
<1>1. CASE UNCHANGED <<pending, fail, todo>>
  BY <1>1 DEF TypeOK
<1>2. CASE /\ pending' = [pending EXCEPT ![s] = Nothing]
           /\ fail' = [fail EXCEPT ![s] = TRUE]
           /\ UNCHANGED todo
  BY <1>2 DEF TypeOK, Nothing, Untracked
<1>3. CASE /\ todo' \in {[todo EXCEPT ![s] = [Listing(s) EXCEPT !.moves = {}]],
                         [todo EXCEPT ![s] = [Listing(s) EXCEPT !.mods = {}]],
                         [todo EXCEPT ![s] = [Listing(s) EXCEPT !.dflt = FALSE]]}
           /\ UNCHANGED <<pending, fail>>
  <2>1. Listing(s) \in Todo
    BY DEF Listing, Todo, TypeOK, Resources
  <2>2. /\ [Listing(s) EXCEPT !.moves = {}] \in Todo
        /\ [Listing(s) EXCEPT !.mods = {}] \in Todo
        /\ [Listing(s) EXCEPT !.dflt = FALSE] \in Todo
    BY <2>1 DEF Todo
  <2>3. \A l \in Todo : [todo EXCEPT ![s] = l] \in [Actors -> Todo]
    BY DEF TypeOK
  <2> HIDE DEF TypeOK
  <2>4. todo' \in [Actors -> Todo]
    BY <1>3, <2>2, <2>3
  <2> QED BY <1>3, <2>4 DEF TypeOK
<1>4. CASE /\ \E m \in todo[s].moves : todo' = [todo EXCEPT ![s].moves = @ \ {m}]
           /\ UNCHANGED <<pending, fail>>
  <2>1. PICK m \in todo[s].moves : todo' = [todo EXCEPT ![s].moves = @ \ {m}]
    BY <1>4
  <2> QED BY <1>4, <2>1, TodoMinus DEF TypeOK
<1>5. CASE /\ \E m \in todo[s].mods : todo' = [todo EXCEPT ![s].mods = @ \ {m}]
           /\ UNCHANGED <<pending, fail>>
  <2>1. PICK m \in todo[s].mods : todo' = [todo EXCEPT ![s].mods = @ \ {m}]
    BY <1>5
  <2> QED BY <1>5, <2>1, TodoMinus DEF TypeOK
<1>6. InFlight(s, x) => \/ UNCHANGED <<pending, fail, todo>>
                        \/ LostCall(s, x)
  BY DEF InFlight
<1> QED BY <1>1, <1>2, <1>3, <1>4, <1>5, <1>6 DEF LostCall

\* So does the signal handler.
LEMMA HandleStopType ==
  ASSUME TypeOK, NEW s \in Sessions, HandleStop(s)
  PROVE  /\ stopReq' \in [Sessions -> BOOLEAN]
         /\ wstate' \in [Sessions -> States]
         /\ disk' \in SessionFile
<1>1. res[s] \in Resources /\ "stopping" \in States
  BY DEF TypeOK, Actors, States, ActiveStates
<1> QED BY <1>1, RecordType DEF HandleStop, TypeOK

\* Every step of a command keeps the types.
LEMMA ClientType ==
  ASSUME TypeOK, NEW c \in Clients, ClientStep(c) \/ Refuse(c) PROVE TypeOK'
<1> USE DEF Goto, ClientPCs
<1> c \in Actors
  BY DEF Actors
<1>1. CASE Guard(c)
  <2>1. disk.res \in Resources
    BY DEF TypeOK, SessionFile
  <2> QED BY <1>1, <2>1, ClientGoto
          DEF Guard, CleanupPCs, TypeOK, ServerTypeOK, server, clients, workers
<1>2. CASE Cleanup(c)
  BY <1>2, CleanupType
<1>3. CASE SweepList(c)
  <2>1. PICK found \in SUBSET Module : todo' = [todo EXCEPT ![c] = [NoCalls EXCEPT !.mods = found]]
    BY <1>3 DEF SweepList, TypeOK, ServerTypeOK
  <2>2. [NoCalls EXCEPT !.mods = found] \in Todo
    BY DEF NoCalls, Todo
  <2> QED BY <1>3, <2>1, <2>2, ClientGoto
          DEF SweepList, TypeOK, ServerTypeOK, server, clients, workers
<1>4. CASE Sweep(c)
  <2>1. ServerTypeOK' /\ todo' \in [Actors -> Todo]
    BY <1>4, UnloadNextType DEF Sweep
  <2> QED BY <1>4, <2>1 DEF Sweep, TypeOK, clients, workers
<1>5. CASE SweepDone(c)
  BY <1>5, ClientGoto DEF SweepDone, TypeOK, ServerTypeOK, server, clients, workers
<1>6. CASE Spawn(c)
  <2>1. PICK s \in Sessions, k \in Configs :
          /\ pc' = [pc EXCEPT ![c] = "await", ![s] = "boot"]
          /\ own' = [own EXCEPT ![c] = s]
          /\ cfg' = [cfg EXCEPT ![s] = k]
    BY <1>6 DEF Spawn
  <2>2. /\ pc' \in [Actors -> ClientPCs \cup WorkerPCs]
        /\ \A d \in Clients : pc'[d] \in ClientPCs
        /\ \A t \in Sessions : pc'[t] \in WorkerPCs
    BY <2>1 DEF TypeOK, Actors, WorkerPCs
  <2> QED BY <1>6, <2>1, <2>2 DEF Spawn, TypeOK, ServerTypeOK, server
<1>7. CASE Started(c) \/ Refuse(c)
  BY <1>7, ClientGoto DEF Started, Refuse, Release, TypeOK, ServerTypeOK, server, workers
<1>8. CASE ReadState(c)
  <2>1. disk.res \in Resources /\ disk.sess \in Sessions \cup {NoOne}
    BY DEF TypeOK, SessionFile
  <2> QED BY <1>8, <2>1, ClientGoto DEF ReadState, TypeOK, ServerTypeOK, server, workers
<1>9. CASE Signal(c)
  <2>1. own[c] \in Sessions
    BY <1>9 DEF Signal, Alive
  <2>2. PICK x \in WorkerPCs :
          InFlight(own[c], x) /\ pc' = [pc EXCEPT ![c] = "dying", ![own[c]] = x]
    BY <1>9 DEF Signal
  <2>3. /\ pc' \in [Actors -> ClientPCs \cup WorkerPCs]
        /\ \A d \in Clients : pc'[d] \in ClientPCs
        /\ \A t \in Sessions : pc'[t] \in WorkerPCs
    BY <2>1, <2>2 DEF TypeOK, Actors
  <2> QED BY <1>9, <2>1, <2>2, <2>3, InFlightType, HandleStopType
          DEF Signal, TypeOK, ServerTypeOK, server, clients
<1>10. CASE WorkerGone(c)
  BY <1>10, ClientGoto DEF WorkerGone, TypeOK, ServerTypeOK, server, clients, workers
<1>11. CASE Reap(c)
  BY <1>11, ClientGoto DEF Reap, CleanupPCs, TypeOK, ServerTypeOK, server, clients, workers
<1>12. CASE WriteStopped(c)
  <2>1. StoppedState \in SessionFile
    BY DEF StoppedState, SessionFile, States, EmptyResources, Resources
  <2> QED BY <1>12, <2>1, ClientGoto
          DEF WriteStopped, Release, TypeOK, ServerTypeOK, server, workers
<1> QED BY <1>1, <1>2, <1>3, <1>4, <1>5, <1>6, <1>7, <1>8, <1>9, <1>10, <1>11, <1>12
        DEF ClientStep

\* Every event from outside keeps the types.
LEMMA OutsideType ==
  ASSUME TypeOK, Outside PROVE TypeOK'
<1> USE DEF Goto
<1>1. CASE Surroundings
  <2>1. ServerTypeOK'
    BY <1>1 DEF Surroundings, StreamCloses, StreamOpens, UserMoves, UserChoosesDefault,
                TypeOK, ServerTypeOK
  <2> QED BY <1>1, <2>1 DEF Surroundings, TypeOK, clients, workers
<1>2. CASE ToolExits
  BY <1>2 DEF ToolExits, TypeOK, ServerTypeOK, server, clients, workers
<1>3. ASSUME NEW s \in Sessions, BootFails(s) \/ WorkerRaises(s) \/ WorkerKilled(s) PROVE TypeOK'
  <2>1. CASE BootFails(s) \/ WorkerKilled(s)
    BY <2>1, WorkerGoto DEF BootFails, WorkerKilled, WorkerPCs,
       TypeOK, ServerTypeOK, server, clients, workers
  <2>2. CASE WorkerRaises(s)
    BY <2>2, WorkerGoto DEF WorkerRaises, Raise, WorkerPCs, TypeOK, ServerTypeOK, server, clients
  <2> QED BY <1>3, <2>1, <2>2
<1>4. ASSUME NEW s \in Sessions, InterruptForeground(s) PROVE TypeOK'
  <2>1. PICK x \in WorkerPCs : InFlight(s, x) /\ pc' = [pc EXCEPT ![s] = x]
    BY <1>4 DEF InterruptForeground
  <2> QED BY <1>4, <2>1, WorkerGoto, InFlightType, HandleStopType
          DEF InterruptForeground, TypeOK, ServerTypeOK, server, clients
<1>5. ASSUME NEW s \in Sessions, NEW k \in Configs, RunForeground(s, k) PROVE TypeOK'
  BY <1>5, WorkerGoto DEF RunForeground, WorkerPCs, TypeOK, ServerTypeOK, server, clients
<1>6. ASSUME NEW c \in Clients, NEW o \in {"start", "stop"}, Begin(c, o) PROVE TypeOK'
  <2>1. PICK x \in {"guard", "read"} : pc' = [pc EXCEPT ![c] = x]
    BY <1>6 DEF Begin
  <2> QED BY <1>6, <2>1, ClientGoto DEF Begin, ClientPCs, TypeOK, ServerTypeOK, server, workers
<1>7. ASSUME NEW c \in Clients, Abandon(c) \/ ClientKilled(c) PROVE TypeOK'
  BY <1>7, ClientGoto DEF Abandon, ClientKilled, Release, ClientPCs,
     TypeOK, ServerTypeOK, server, workers
<1>8. ASSUME NEW c \in Clients, KillWorker(c) PROVE TypeOK'
  <2>1. own[c] \in Sessions /\ pc' = [pc EXCEPT ![c] = "reap", ![own[c]] = "dead"]
    BY <1>8 DEF KillWorker, Alive
  <2>2. /\ pc' \in [Actors -> ClientPCs \cup WorkerPCs]
        /\ \A d \in Clients : pc'[d] \in ClientPCs
        /\ \A t \in Sessions : pc'[t] \in WorkerPCs
    BY <2>1 DEF TypeOK, Actors, ClientPCs, WorkerPCs
  <2> QED BY <1>8, <2>2 DEF KillWorker, TypeOK, ServerTypeOK, server, clients, workers
<1> QED BY <1>1, <1>2, <1>3, <1>4, <1>5, <1>6, <1>7, <1>8 DEF Outside

\* All variables keep their types, whatever happens outside: crashes, lost
\* calls, abandoned starts and foreground sessions included.
THEOREM TypeCorrect == Spec => []TypeOK
<1>1. TypeOK /\ UNCHANGED vars => TypeOK'
  BY DEF vars, server, clients, workers, TypeOK, ServerTypeOK
<1>2. TypeOK /\ [Next]_vars => TypeOK'
  BY <1>1, WorkerType, ClientType, OutsideType DEF Next
<1> QED BY InitTypeOK, <1>2, PTL DEF Spec

-----------------------------------------------------------------------------
(* Mutual exclusion of workers.                                            *)

InWork == CleanupPCs \cup {"discover", "plan", "mix", "mixDefault", "route", "encoder",
          "transport", "announce", "wait", "reconcile", "refresh", "term", "final"}
Ended  == {"exiting", "done", "dead"}

OnlyMoves(a) == \A b \in Actors \ {a} : pc'[b] = pc[b]

\* A worker goes on working; what it writes says that it works.
GoesOn(s) ==
  /\ Working(s) /\ OnlyMoves(s) /\ pc'[s] \in InWork
  /\ wstate'[s] \in ActiveStates /\ \A t \in Sessions \ {s} : wstate'[t] = wstate[t]
  /\ \/ disk' = disk
     \/ disk'.sess = s /\ disk'.st \in ActiveStates
  /\ UNCHANGED <<lock, own, fg>>

\* A worker ends.
Ends(s) ==
  /\ Alive(s) /\ OnlyMoves(s) /\ pc'[s] \in Ended
  /\ \A t \in Sessions \ {s} : wstate'[t] = wstate[t]
  /\ disk' = disk \/ (Working(s) /\ disk'.sess = s)
  /\ UNCHANGED <<lock, own, fg>>

\* A command goes on alone.
GoesOnAlone(c) ==
  /\ pc[c] \in Alone /\ pc'[c] \in Alone /\ OnlyMoves(c)
  /\ UNCHANGED <<lock, own, disk, wstate, fg>>

\* A command gives the lock back, not while its worker boots.
Leaves(c) ==
  /\ pc[c] # "idle" /\ pc'[c] = "idle" /\ OnlyMoves(c) /\ lock' = NoOne
  /\ pc[c] = "await" => \A s \in Sessions : own[c] = s => pc[s] # "boot"
  /\ UNCHANGED <<own, wstate, fg>>
  /\ disk' = disk \/ (pc[c] \in Alone /\ disk'.sess = NoOne)

\* A session.json that names every worker, and a lock that covers the one it
\* does not name yet, leave room for one worker.
LEMMA AtMostOne == Serialized => OneWorker
<1> SUFFICES ASSUME Serialized, NEW s \in Sessions, NEW t \in Sessions, Engaged(s), Engaged(t)
             PROVE  s = t
  BY DEF OneWorker
<1>1. CASE pc[s] = "boot" \/ pc[t] = "boot"
  BY <1>1 DEF Serialized, BootIsAwaited, AttachedToOne, Attached
<1>2. CASE Working(s) /\ Working(t)
  BY <1>2 DEF Serialized, WorkingIsWritten
<1> QED BY <1>1, <1>2 DEF Working

\* Each class of steps keeps workers serialized: a worker at work,
LEMMA GoesOnSerial ==
  ASSUME TypeOK, Serialized, NEW s \in Sessions, GoesOn(s) PROVE Serialized'
<1> USE DEF GoesOn, OnlyMoves, Working, Engaged, Alive, InWork, CleanupPCs, Actors
<1>1. \A c \in Clients : pc'[c] = pc[c] /\ c # s
  BY DEF TypeOK
<1>2. \A t \in Sessions : Engaged(t)' <=> Engaged(t)
  BY DEF TypeOK
<1>3. \A t \in Sessions : Engaged(t) => t = s
  BY AtMostOne DEF OneWorker
<1>4. BusyHoldsLock' /\ BootIsAwaited'
  BY <1>1 DEF Serialized, BusyHoldsLock, BootIsAwaited
<1>5. AttachedToOne' /\ AloneAtWork'
  BY <1>1, <1>2 DEF Serialized, AttachedToOne, AloneAtWork
<1>6. BootIsUnwritten'
  BY DEF Serialized, BootIsUnwritten
<1>7. WorkingIsWritten'
  BY <1>2, <1>3 DEF Serialized, WorkingIsWritten
<1> QED BY <1>4, <1>5, <1>6, <1>7 DEF Serialized

\* a worker that ends,
LEMMA EndsSerial ==
  ASSUME TypeOK, Serialized, NEW s \in Sessions, Ends(s) PROVE Serialized'
<1> USE DEF Ends, OnlyMoves, Working, Engaged, Alive, Ended, Actors
<1>1. \A c \in Clients : pc'[c] = pc[c] /\ c # s
  BY DEF TypeOK
<1>2. \A t \in Sessions : Engaged(t)' => Engaged(t) /\ t # s
  BY DEF TypeOK
<1>3. Working(s) => \A t \in Sessions : Engaged(t) => t = s
  BY AtMostOne DEF OneWorker
<1>4. BusyHoldsLock' /\ BootIsAwaited'
  BY <1>1 DEF Serialized, BusyHoldsLock, BootIsAwaited
<1>5. AttachedToOne' /\ AloneAtWork'
  BY <1>1, <1>2 DEF Serialized, AttachedToOne, AloneAtWork
<1>6. BootIsUnwritten'
  BY DEF Serialized, BootIsUnwritten
<1>7. WorkingIsWritten'
  BY <1>2, <1>3 DEF Serialized, WorkingIsWritten
<1> QED BY <1>4, <1>5, <1>6, <1>7 DEF Serialized

\* a command beside which no worker is,
LEMMA AloneSerial ==
  ASSUME TypeOK, Serialized, NEW c \in Clients, GoesOnAlone(c) PROVE Serialized'
<1> USE DEF GoesOnAlone, OnlyMoves, Working, Engaged, Alive, Alone, Attached, CleanupPCs, Actors
<1>1. \A s \in Sessions : pc'[s] = pc[s] /\ c # s
  BY DEF TypeOK
<1>2. BusyHoldsLock' /\ BootIsAwaited' /\ AttachedToOne' /\ AloneAtWork'
  BY <1>1 DEF Serialized, BusyHoldsLock, BootIsAwaited, AttachedToOne, AloneAtWork
<1>3. BootIsUnwritten' /\ WorkingIsWritten'
  BY <1>1 DEF Serialized, BootIsUnwritten, WorkingIsWritten
<1> QED BY <1>2, <1>3 DEF Serialized

\* and a command that gives the lock back.
LEMMA LeavesSerial ==
  ASSUME TypeOK, Serialized, NEW c \in Clients, Leaves(c) PROVE Serialized'
<1> USE DEF Leaves, OnlyMoves, Working, Engaged, Alive, Actors
<1>1. \A s \in Sessions : pc'[s] = pc[s] /\ c # s
  BY DEF TypeOK
<1>2. \A d \in Clients : d # c => pc'[d] = pc[d] /\ pc[d] = "idle"
  BY DEF Serialized, BusyHoldsLock
<1>3. BusyHoldsLock'
  BY <1>2 DEF BusyHoldsLock
<1>4. AttachedToOne' /\ AloneAtWork' /\ BootIsAwaited'
  BY <1>1, <1>2 DEF Serialized, AttachedToOne, AloneAtWork, BootIsAwaited, Attached, Alone, CleanupPCs
<1>5. BootIsUnwritten' /\ WorkingIsWritten'
  BY <1>1 DEF Serialized, BootIsUnwritten, WorkingIsWritten, AloneAtWork
<1> QED BY <1>3, <1>4, <1>5 DEF Serialized

\* Every step of a worker is a first write or belongs to one of those classes.
LEMMA WorkerSerial ==
  ASSUME TypeOK, Serialized, NEW s \in Sessions, WorkerStep(s) \/ WorkerRaises(s)
  PROVE  Serialized'
<1>1. s \in Actors /\ pc \in [Actors -> ClientPCs \cup WorkerPCs] /\ wstate \in [Sessions -> States]
  BY DEF TypeOK, Actors
<1>2. Working(s) => wstate[s] \in ActiveStates /\ disk.sess = s
  BY DEF Serialized, WorkingIsWritten
<1> USE DEF Goto, GoesOn, OnlyMoves, Working, Engaged, Alive, InWork, CleanupPCs
<1>3. CASE Boot(s)
  <2>1. \A a \in Actors : pc'[a] = IF a = s THEN "discover" ELSE pc[a]
    BY <1>1, <1>3 DEF Boot
  <2>2. disk'.sess = s /\ disk'.st = "starting" /\ wstate'[s] = "starting"
        /\ UNCHANGED <<lock, own, fg>>
    BY <1>1, <1>3 DEF Boot, Record, clients
  <2>3. \A t \in Sessions : Engaged(t) => t = s
    BY <1>3, AtMostOne DEF OneWorker, Boot
  <2>4. \A c \in Clients : pc'[c] = pc[c] /\ c # s
    BY <2>1 DEF Actors
  <2>5. \A t \in Sessions : Engaged(t)' <=> Engaged(t)
    BY <1>3, <2>1 DEF Boot, Actors
  <2>6. BusyHoldsLock' /\ BootIsAwaited'
    BY <2>1, <2>2, <2>4 DEF Serialized, BusyHoldsLock, BootIsAwaited, Actors
  <2>7. AttachedToOne' /\ AloneAtWork'
    BY <2>2, <2>4, <2>5 DEF Serialized, AttachedToOne, AloneAtWork
  <2>8. BootIsUnwritten'
    BY <2>1, <2>2 DEF BootIsUnwritten, Actors
  <2>9. WorkingIsWritten'
    BY <2>2, <2>3, <2>5 DEF WorkingIsWritten, ActiveStates
  <2> QED BY <2>2, <2>6, <2>7, <2>8, <2>9 DEF Serialized
<1>4. CASE Plan(s) \/ Track(s) \/ Announce(s)
  <2>1. GoesOn(s)
    BY <1>1, <1>2, <1>4 DEF Plan, Track, Announce, TrackingPCs, Record, ActiveStates, clients
  <2> QED BY <2>1, GoesOnSerial
<1>5. CASE \/ Discover(s) \/ CreateMix(s) \/ KeepDefault(s)
           \/ RouteMove(s) \/ RouteLoopback(s) \/ RouteDone(s) \/ MoveFails(s)
  <2>1. GoesOn(s)
    BY <1>1, <1>2, <1>5 DEF Discover, CreateMix, KeepDefault, RouteMove, RouteLoopback, RouteDone,
       MoveFails, Raise, clients, workers
  <2> QED BY <2>1, GoesOnSerial
<1>6. CASE \/ StartEncoder(s) \/ StartTransport(s) \/ ToolExited(s) \/ Reconcile(s)
           \/ Refresh(s) \/ Forget(s) \/ StopSeen(s) \/ TermChildren(s) \/ WorkerRaises(s)
  <2>1. GoesOn(s)
    BY <1>1, <1>2, <1>6 DEF StartEncoder, StartTransport, ToolExited, Reconcile, Refresh, Forget,
       StopSeen, TermChildren, WorkerRaises, RaisingPCs, Raise, Polling, clients, workers
  <2> QED BY <2>1, GoesOnSerial
<1>7. CASE Cleanup(s)
  <2>1. GoesOn(s)
    BY <1>1, <1>2, <1>7 DEF Cleanup, List, Restore, RestoreDone, UnloadTracked, UnloadDone,
       RestoreDefault, AfterCleanup, clients, workers
  <2> QED BY <2>1, GoesOnSerial
<1>8. CASE WriteFinal(s) \/ Exit(s)
  <2>1. Ends(s)
    <3>1. CASE WriteFinal(s)
      BY <1>1, <3>1 DEF WriteFinal, Ends, Ended, Record, clients
    <3>2. CASE Exit(s)
      BY <1>1, <3>2 DEF Exit, Ends, Ended, clients, workers
    <3> QED BY <1>8, <3>1, <3>2
  <2> QED BY <2>1, EndsSerial
<1> QED BY <1>3, <1>4, <1>5, <1>6, <1>7, <1>8 DEF WorkerStep

\* So does every step of a command, but for the five that change what it relies on.
LEMMA ClientSerial ==
  ASSUME TypeOK, Serialized, NEW c \in Clients, ClientStep(c) \/ Refuse(c)
  PROVE  Serialized'
<1>1. c \in Actors /\ c \notin Sessions /\ pc \in [Actors -> ClientPCs \cup WorkerPCs]
  BY DEF TypeOK, Actors
<1>2. \A d \in Clients \ {c} : pc[c] # "idle" => pc[d] = "idle"
  BY DEF Serialized, BusyHoldsLock
<1>3. ~Active => \A s \in Sessions : ~Working(s)
  BY DEF Serialized, WorkingIsWritten, Active, Working, Engaged
<1>4. pc[c] \notin {"idle", "await"} => \A s \in Sessions : pc[s] # "boot"
  BY <1>2 DEF Serialized, BootIsAwaited
<1> USE DEF Goto, OnlyMoves, CleanupPCs
<1>5. CASE Cleanup(c) \/ SweepList(c) \/ Sweep(c) \/ SweepDone(c) \/ Reap(c)
  <2>1. GoesOnAlone(c)
    BY <1>1, <1>5 DEF Cleanup, List, Restore, RestoreDone, UnloadTracked, UnloadDone,
       RestoreDefault, AfterCleanup, SweepList, Sweep, SweepDone, Reap, GoesOnAlone, Alone,
       clients, workers
  <2> QED BY <2>1, AloneSerial
<1>6. CASE Refuse(c) \/ Started(c) \/ WriteStopped(c)
  <2>1. Leaves(c)
    <3>1. CASE Refuse(c)
      BY <1>1, <3>1 DEF Refuse, Release, Leaves, workers
    <3>2. CASE Started(c)
      <4>1. \A s \in Sessions : own[c] = s => pc[s] # "boot"
        BY <3>2 DEF Started, Alive, Serialized, BootIsUnwritten
      <4>2. /\ pc[c] = "await" /\ pc' = [pc EXCEPT ![c] = "idle"] /\ lock' = NoOne
            /\ UNCHANGED <<own, wstate, fg, disk>>
        BY <3>2 DEF Started, Release, workers
      <4> QED BY <1>1, <4>1, <4>2 DEF Leaves
    <3>3. CASE WriteStopped(c)
      <4>1. /\ pc[c] = "writeStopped" /\ pc' = [pc EXCEPT ![c] = "idle"] /\ lock' = NoOne
            /\ UNCHANGED <<own, wstate, fg>> /\ disk'.sess = NoOne
        BY <3>3 DEF WriteStopped, Release, StoppedState, workers
      <4> QED BY <1>1, <4>1 DEF Leaves, Alone
    <3> QED BY <1>6, <3>1, <3>2, <3>3
  <2> QED BY <2>1, LeavesSerial
<1> USE DEF Working, Engaged, Alive
<1>7. CASE Guard(c) \/ ReadState(c) \/ WorkerGone(c)
  <2>1. /\ pc'[c] \in {"list", "signal", "reap"} /\ pc[c] \notin {"idle", "await"}
        /\ \A a \in Actors \ {c} : pc'[a] = pc[a]
        /\ UNCHANGED <<lock, disk, wstate, fg>>
    BY <1>1, <1>7 DEF Guard, ReadState, WorkerGone, clients, workers
  <2>2. \A s \in Sessions : pc'[s] = pc[s]
    BY <1>1, <2>1 DEF Actors
  <2>3. \A s \in Sessions : Engaged(s) =>
          pc'[c] = "signal" /\ own'[c] = s
    <3>1. CASE Guard(c)
      BY <1>3, <1>4, <3>1 DEF Guard
    <3>2. CASE ReadState(c)
      BY <1>1, <1>3, <1>4, <2>1, <3>2 DEF ReadState, Serialized, WorkingIsWritten, TypeOK
    <3>3. CASE WorkerGone(c)
      BY <3>3 DEF WorkerGone, Serialized, AttachedToOne, Attached
    <3> QED BY <1>7, <3>1, <3>2, <3>3
  <2>4. \A d \in Clients : d # c => pc'[d] = "idle"
    BY <1>2, <2>1 DEF Actors
  <2>5. BusyHoldsLock'
    BY <2>1, <2>4 DEF Serialized, BusyHoldsLock
  <2>6. AttachedToOne' /\ AloneAtWork'
    BY <2>1, <2>2, <2>3, <2>4 DEF AttachedToOne, AloneAtWork, Attached, Alone
  <2>7. BootIsAwaited' /\ BootIsUnwritten' /\ WorkingIsWritten'
    BY <1>4, <2>1, <2>2 DEF Serialized, BootIsAwaited, BootIsUnwritten, WorkingIsWritten
  <2> QED BY <2>1, <2>5, <2>6, <2>7 DEF Serialized
<1>8. CASE Spawn(c)
  <2>1. PICK s \in Sessions :
          /\ pc[s] = "none" /\ pc' = [pc EXCEPT ![c] = "await", ![s] = "boot"]
          /\ own' = [own EXCEPT ![c] = s]
    BY <1>8 DEF Spawn
  <2>2. \A a \in Actors : pc'[a] = IF a = s THEN "boot" ELSE IF a = c THEN "await" ELSE pc[a]
    BY <1>1, <2>1 DEF Actors
  <2>3. own'[c] = s /\ UNCHANGED <<lock, disk, wstate, fg>>
    BY <1>8, <2>1 DEF Spawn, TypeOK
  <2>4. \A t \in Sessions : ~Engaged(t)
    BY <1>8 DEF Spawn, Serialized, AloneAtWork, Alone
  <2>5. \A d \in Clients : d # c => pc'[d] = "idle"
    BY <1>1, <1>2, <1>8, <2>2 DEF Spawn, Actors
  <2>6. c # s
    BY <1>1
  <2>7. BusyHoldsLock'
    BY <1>8, <2>3, <2>5 DEF Spawn, Serialized, BusyHoldsLock
  <2>8. AttachedToOne' /\ AloneAtWork' /\ BootIsAwaited'
    BY <1>1, <2>2, <2>3, <2>4, <2>5, <2>6
       DEF AttachedToOne, AloneAtWork, BootIsAwaited, Attached, Alone, Actors
  <2>9. BootIsUnwritten' /\ WorkingIsWritten'
    BY <1>1, <2>1, <2>2, <2>3, <2>4
       DEF Serialized, BootIsUnwritten, WorkingIsWritten, Actors
  <2> QED BY <2>3, <2>7, <2>8, <2>9 DEF Serialized
<1>9. CASE Signal(c)
  <2>1. own[c] \in Sessions /\ pc[c] = "signal"
    BY <1>9 DEF Signal
  <2> DEFINE s == own[c]
  <2>2. PICK x \in WorkerPCs :
          InFlight(s, x) /\ pc' = [pc EXCEPT ![c] = "dying", ![s] = x]
    BY <1>9 DEF Signal
  <2>3. UNCHANGED <<lock, own, fg>>
    BY <1>9 DEF Signal, clients
  <2>4. \A a \in Actors : pc'[a] = IF a = s THEN x ELSE IF a = c THEN "dying" ELSE pc[a]
    BY <1>1, <2>1, <2>2 DEF Actors
  <2> HIDE DEF s
  <2>5. x = pc[s] \/ (pc[s] \in InWork /\ x \in InWork)
    <3>1. \/ x = pc[s]
          \/ pc[s] \in RoutingPCs /\ x = "term"
          \/ pc[s] = "list" /\ x = "restore"
      BY <2>2 DEF InFlight, LostCall
    <3> QED BY <3>1 DEF RoutingPCs, InWork
  <2>6. /\ disk'.sess = s /\ disk'.st = "stopping"
        /\ wstate'[s] = "stopping" /\ \A t \in Sessions \ {s} : wstate'[t] = wstate[t]
    BY <1>9, <2>1 DEF Signal, HandleStop, Record, TypeOK, s
  <2>7. \A t \in Sessions : Engaged(t)' <=> Engaged(t)
    BY <1>1, <2>1, <2>4, <2>5 DEF s, InWork, Actors
  <2>8. \A t \in Sessions : Engaged(t) => t = s
    BY <1>9 DEF Signal, Serialized, AttachedToOne, Attached, s
  <2>9. \A d \in Clients : d # c => pc'[d] = "idle"
    BY <1>1, <1>2, <2>1, <2>4 DEF Actors, s
  <2>10. pc'[c] = "dying"
    BY <1>1, <2>1, <2>4 DEF s
  <2>11. BusyHoldsLock'
    BY <2>1, <2>3, <2>9 DEF Serialized, BusyHoldsLock
  <2>12. AttachedToOne' /\ AloneAtWork'
    BY <2>3, <2>7, <2>8, <2>9, <2>10 DEF AttachedToOne, AloneAtWork, Attached, Alone, s
  <2>13. \A t \in Sessions : pc'[t] = pc[t] \/ pc'[t] \in InWork
    BY <1>1, <2>1, <2>4, <2>5 DEF Actors, s
  <2>14. BootIsAwaited' /\ BootIsUnwritten'
    <3>1. \A t \in Sessions : pc[t] # "boot"
      BY <1>4, <2>1
    <3>2. pc'[s] \notin {"none", "boot"}
      BY <1>1, <1>9, <2>1, <2>4, <2>5, <3>1 DEF Signal, s, Actors, InWork
    <3> QED BY <2>1, <2>6, <2>13, <3>1, <3>2 DEF BootIsAwaited, BootIsUnwritten, InWork
  <2>15. WorkingIsWritten'
    BY <2>6, <2>7, <2>8 DEF WorkingIsWritten, ActiveStates
  <2> QED BY <2>3, <2>11, <2>12, <2>14, <2>15 DEF Serialized
<1> QED BY <1>5, <1>6, <1>7, <1>8, <1>9 DEF ClientStep

\* From outside, every start is one that a command waits for.
LEMMA OutsideSerial ==
  ASSUME NoBypass, TypeOK, Serialized, Outside PROVE Serialized'
<1>1. pc \in [Actors -> ClientPCs \cup WorkerPCs] /\ \A c \in Clients : c \in Actors /\ c \notin Sessions
  BY DEF TypeOK, Actors
<1>2. \A c \in Clients : pc[c] # "idle" => \A d \in Clients \ {c} : pc[d] = "idle"
  BY DEF Serialized, BusyHoldsLock
<1> USE DEF Goto, OnlyMoves
<1>3. CASE Surroundings \/ ToolExits
  <2>1. UNCHANGED <<lock, own, pc, disk, wstate, fg>>
    BY <1>3 DEF Surroundings, ToolExits, clients, workers
  <2> QED BY <2>1 DEF Serialized, BusyHoldsLock, AttachedToOne, AloneAtWork, BootIsAwaited,
                      BootIsUnwritten, WorkingIsWritten, Working, Engaged, Alive
<1>4. ASSUME NEW s \in Sessions, BootFails(s) \/ WorkerKilled(s) PROVE Serialized'
  <2>1. s \in Actors
    BY DEF Actors
  <2>2. Ends(s)
    BY <1>1, <1>4, <2>1 DEF BootFails, WorkerKilled, Ends, Ended, Alive, clients, workers
  <2> QED BY <2>2, EndsSerial
<1>5. ASSUME NEW s \in Sessions, WorkerRaises(s) PROVE Serialized'
  BY <1>5, WorkerSerial
<1>6. \A s \in Sessions : ~InterruptForeground(s) /\ \A k \in Configs : ~RunForeground(s, k)
  BY DEF InterruptForeground, RunForeground, NoBypass, Serialized
<1>7. ASSUME NEW c \in Clients, Abandon(c) \/ ClientKilled(c) PROVE Serialized'
  <2>1. pc[c] = "await" => \A s \in Sessions : own[c] = s => pc[s] # "boot"
    BY <1>7 DEF Abandon, ClientKilled, NoBypass
  <2>2. /\ pc[c] # "idle" /\ pc' = [pc EXCEPT ![c] = "idle"] /\ lock' = NoOne
        /\ UNCHANGED <<own, wstate, fg, disk>>
    BY <1>7 DEF Abandon, ClientKilled, Release, workers
  <2>3. Leaves(c)
    BY <1>1, <2>1, <2>2 DEF Leaves
  <2> QED BY <2>3, LeavesSerial
<1>8. ASSUME NEW c \in Clients, NEW o \in {"start", "stop"}, Begin(c, o) PROVE Serialized'
  <2>1. PICK x \in {"guard", "read"} : pc' = [pc EXCEPT ![c] = x]
    BY <1>8 DEF Begin
  <2>2. lock = NoOne /\ lock' = c /\ UNCHANGED <<own, disk, wstate, fg>>
    BY <1>8 DEF Begin, workers
  <2>3. \A d \in Clients : pc[d] = "idle"
    BY <2>2 DEF Serialized, BusyHoldsLock, Actors
  <2>4. \A s \in Sessions : pc'[s] = pc[s] /\ pc[s] # "boot"
    BY <1>1, <2>1, <2>3 DEF Serialized, BootIsAwaited
  <2>5. \A d \in Clients : pc'[d] \in {"idle", "guard", "read"} /\ (d # c => pc'[d] = "idle")
    BY <1>1, <2>1, <2>3
  <2>6. BusyHoldsLock' /\ AttachedToOne' /\ AloneAtWork'
    BY <2>2, <2>5 DEF BusyHoldsLock, AttachedToOne, AloneAtWork, Attached, Alone, CleanupPCs
  <2>7. BootIsAwaited' /\ BootIsUnwritten' /\ WorkingIsWritten'
    BY <2>2, <2>4 DEF Serialized, BootIsAwaited, BootIsUnwritten, WorkingIsWritten,
                      Working, Engaged, Alive
  <2> QED BY <2>2, <2>6, <2>7 DEF Serialized
<1>9. ASSUME NEW c \in Clients, KillWorker(c) PROVE Serialized'
  <2> DEFINE s == own[c]
  <2>1. s \in Sessions /\ pc[c] = "dying" /\ pc' = [pc EXCEPT ![c] = "reap", ![s] = "dead"]
    BY <1>9 DEF KillWorker, Alive
  <2>2. UNCHANGED <<lock, own, disk, wstate, fg>>
    BY <1>9 DEF KillWorker, clients, workers
  <2>3. \A a \in Actors : pc'[a] = IF a = s THEN "dead" ELSE IF a = c THEN "reap" ELSE pc[a]
    BY <1>1, <2>1 DEF Actors
  <2>4. pc'[c] = "reap" /\ \A d \in Clients : d # c => pc'[d] = "idle"
    BY <1>1, <1>2, <2>1, <2>3
  <2>5. \A t \in Sessions : Engaged(t) => t = s
    BY <2>1 DEF Serialized, AttachedToOne, Attached
  <2>6. \A t \in Sessions : pc'[t] = IF t = s THEN "dead" ELSE pc[t]
    BY <1>1, <2>1, <2>3 DEF Actors
  <2> HIDE DEF s
  <2>7. \A t \in Sessions : ~Engaged(t)'
    BY <2>5, <2>6 DEF Engaged, Alive
  <2>8. BusyHoldsLock' /\ AttachedToOne' /\ AloneAtWork'
    BY <2>1, <2>2, <2>4, <2>7 DEF Serialized, BusyHoldsLock, AttachedToOne, AloneAtWork, Attached
  <2>9. BootIsAwaited' /\ BootIsUnwritten' /\ WorkingIsWritten'
    BY <2>2, <2>6, <2>7 DEF Serialized, BootIsAwaited, BootIsUnwritten, WorkingIsWritten,
                            Working, Engaged, Alive
  <2> QED BY <2>2, <2>8, <2>9 DEF Serialized
<1> QED BY <1>3, <1>4, <1>5, <1>6, <1>7, <1>8, <1>9 DEF Outside

\* Nothing runs at first.
LEMMA InitSerialized == Init => Serialized
  BY DEF Init, Serialized, BusyHoldsLock, AttachedToOne, AloneAtWork, BootIsAwaited,
         BootIsUnwritten, WorkingIsWritten, Working, Engaged, Alive, Attached, Alone, CleanupPCs,
         Actors, StoppedState

\* Under session.lock, and as long as every worker comes from a Start that
\* waits for its first write, workers are serialized: whoever is killed, and
\* whenever a command is killed with the lock in its hands.
THEOREM WorkersAreSerialized ==
  ASSUME NoBypass PROVE Spec => []Serialized
<1>1. TypeOK /\ Serialized /\ UNCHANGED vars => Serialized'
  BY DEF vars, clients, workers, Serialized, BusyHoldsLock, AttachedToOne, AloneAtWork,
         BootIsAwaited, BootIsUnwritten, WorkingIsWritten, Working, Engaged, Alive
<1>2. TypeOK /\ Serialized /\ [Next]_vars => Serialized'
  BY <1>1, WorkerSerial, ClientSerial, OutsideSerial DEF Next
<1> QED BY InitSerialized, <1>2, TypeCorrect, PTL DEF Spec

\* A worker session.json names is what normalize_status calls active.
LEMMA WorkingIsActive == Serialized => RunningIsActive
  BY DEF Serialized, WorkingIsWritten, RunningIsActive, Active, Working, Engaged

\* Then no two workers route audio at the same time.
THEOREM OneWorkerAlways ==
  ASSUME NoBypass PROVE Spec => []OneWorker
  BY AtMostOne, WorkersAreSerialized, PTL

\* Then every worker at work is the active Session of session.json.
THEOREM RunningIsActiveAlways ==
  ASSUME NoBypass PROVE Spec => []RunningIsActive
  BY WorkingIsActive, WorkersAreSerialized, PTL

-----------------------------------------------------------------------------
(* Who takes modules away.                                                 *)

\* cleanup_resources takes modules away in one place.
LEMMA CleanupKeeps ==
  ASSUME NEW a \in Actors, Cleanup(a), modules' # modules PROVE UnloadTracked(a)
  BY DEF Cleanup, List, Restore, RestoreDone, UnloadDone, RestoreDefault, SetDefault, MoveInput,
         server

\* A worker takes modules away only in its cleanup.
LEMMA WorkerKeeps ==
  ASSUME NEW s \in Sessions, WorkerStep(s) \/ WorkerRaises(s), ~ modules \subseteq modules'
  PROVE  UnloadTracked(s)
<1>1. CASE Cleanup(s)
  BY <1>1, CleanupKeeps DEF Actors
<1>2. CASE CreateMix(s) \/ KeepDefault(s) \/ RouteMove(s) \/ RouteLoopback(s)
  BY <1>2 DEF CreateMix, LoadNullSink, KeepDefault, SetDefault, RouteMove, MoveInput,
     RouteLoopback, LoadLoopback, server
<1>3. CASE \/ Boot(s) \/ Discover(s) \/ Plan(s) \/ Track(s) \/ RouteDone(s) \/ MoveFails(s)
           \/ StartEncoder(s) \/ StartTransport(s) \/ Announce(s) \/ ToolExited(s) \/ Reconcile(s)
           \/ Refresh(s) \/ Forget(s) \/ StopSeen(s) \/ TermChildren(s) \/ WriteFinal(s) \/ Exit(s)
           \/ WorkerRaises(s)
  BY <1>3 DEF Boot, Discover, Plan, Track, RouteDone, MoveFails, Raise, StartEncoder,
     StartTransport, Announce, ToolExited, Reconcile, Refresh, Forget, StopSeen, TermChildren,
     WriteFinal, Exit, WorkerRaises, server
<1> QED BY <1>1, <1>2, <1>3 DEF WorkerStep

\* A command takes modules away only when it is alone.
LEMMA ClientKeeps ==
  ASSUME NEW c \in Clients, ClientStep(c) \/ Refuse(c), ~ modules \subseteq modules'
  PROVE  pc[c] \in Alone
<1>1. CASE Cleanup(c)
  BY <1>1, CleanupKeeps DEF Actors, UnloadTracked, Alone, CleanupPCs
<1>2. CASE Sweep(c)
  BY <1>2 DEF Sweep, Alone
<1>3. CASE \/ Guard(c) \/ SweepList(c) \/ SweepDone(c) \/ Spawn(c) \/ Started(c) \/ ReadState(c)
           \/ Signal(c) \/ WorkerGone(c) \/ Reap(c) \/ WriteStopped(c) \/ Refuse(c)
  BY <1>3 DEF Guard, SweepList, SweepDone, Spawn, Started, ReadState, Signal, WorkerGone, Reap,
     WriteStopped, Refuse, server
<1> QED BY <1>1, <1>2, <1>3 DEF ClientStep

\* Nothing else takes modules away.
LEMMA OutsideKeeps ==
  ASSUME Outside PROVE modules' = modules \/ \E s \in Sessions : WorkerRaises(s)
<1>1. CASE Surroundings
  BY <1>1 DEF Surroundings, StreamCloses, StreamOpens, UserMoves, UserChoosesDefault
<1>2. CASE ToolExits
  BY <1>2 DEF ToolExits, server
<1>3. ASSUME NEW s \in Sessions, BootFails(s) \/ WorkerKilled(s) \/ InterruptForeground(s)
      PROVE  modules' = modules
  BY <1>3 DEF BootFails, WorkerKilled, InterruptForeground, server
<1>4. ASSUME NEW s \in Sessions, NEW k \in Configs, RunForeground(s, k) PROVE modules' = modules
  BY <1>4 DEF RunForeground, server
<1>5. ASSUME NEW c \in Clients, NEW o \in {"start", "stop"}, Begin(c, o) PROVE modules' = modules
  BY <1>5 DEF Begin, server
<1>6. ASSUME NEW c \in Clients, Abandon(c) \/ KillWorker(c) \/ ClientKilled(c)
      PROVE  modules' = modules
  BY <1>6 DEF Abandon, KillWorker, ClientKilled, server
<1> QED BY <1>1, <1>2, <1>3, <1>4, <1>5, <1>6 DEF Outside

\* Then no command and no other worker takes modules away under a worker that
\* still routes: a module of a living worker goes in that worker's own cleanup.
THEOREM OnlyOwnerUnloadsAlways ==
  ASSUME NoBypass PROVE Spec => OnlyOwnerUnloads
<1>1. TypeOK /\ Serialized /\ [Next]_vars =>
        [\A m \in modules \ modules' : Engaged(m.owner) => pc[m.owner] \in CleanupPCs]_vars
  <2> SUFFICES ASSUME TypeOK, Serialized, Next, NEW m \in modules \ modules', Engaged(m.owner)
               PROVE  pc[m.owner] \in CleanupPCs
    OBVIOUS
  <2>1. m.owner \in Sessions
    BY DEF Engaged, Alive
  <2>2. ASSUME NEW s \in Sessions, WorkerStep(s) \/ WorkerRaises(s)
        PROVE  pc[m.owner] \in CleanupPCs
    <3>1. UnloadTracked(s)
      BY <2>2, WorkerKeeps
    <3>2. pc[s] = "unload"
      BY <3>1 DEF UnloadTracked
    <3>3. Engaged(s)
      BY <3>2 DEF Engaged, Alive
    <3>4. s = m.owner
      BY <2>1, <3>3, AtMostOne DEF OneWorker
    <3> QED BY <3>2, <3>4 DEF CleanupPCs
  <2>3. ASSUME NEW c \in Clients, ClientStep(c) \/ Refuse(c) PROVE pc[m.owner] \in CleanupPCs
    BY <2>1, <2>3, ClientKeeps DEF Serialized, AloneAtWork
  <2>4. CASE Outside
    BY <2>2, <2>4, OutsideKeeps
  <2> QED BY <2>2, <2>3, <2>4 DEF Next
<1> QED BY <1>1, TypeCorrect, WorkersAreSerialized, PTL DEF Spec, OnlyOwnerUnloads
=============================================================================
