------------------------------ MODULE Settings ------------------------------
(***************************************************************************)
(* The settings commands: what config.json, the Source history and the     *)
(* legacy backup hold while commands choose Sources, pin them, save and    *)
(* load a Mix Profile, change Connections, start a Session and migrate a   *)
(* legacy configuration (application.py, cli.py, migration.py,             *)
(* source_history.py, start_session).                                      *)
(*                                                                         *)
(* config.json is read and written whole and without a lock: every command *)
(* loads it, may discover Sources, and saves it back, one action for each  *)
(* read or write of a file, so commands may overlap between any two. The   *)
(* fields nothing here depends on are left out.                            *)
(***************************************************************************)
EXTENDS Sources, Naturals, Sequences, SequencesExt

CONSTANTS
  Commands,     \* commands that may run at the same time
  MaxCommands,  \* bound on the commands that are run
  MaxRecent,    \* MAX_RECENT_PLAYBACK_SOURCES; 20 in the code
  Wants,        \* the sets of choices a request may name
  LegacyIds,    \* the sourceIds of the legacy configuration
  Happens       \* which outside events occur, from Events below

Events ==
  { "crash",       \* a command is killed between two steps
    "saveFails",   \* config.json cannot be written
    "setupFails",  \* Companion Setup of an import fails
    "unguarded" }  \* requests that no gate refuses while the configuration
                   \* is a legacy one

ASSUME SettingsAssumption ==
  /\ MaxCommands \in Nat /\ MaxRecent \in Nat \ {0}
  /\ {} \in Wants /\ Wants \subseteq SUBSET AllChoices
  /\ LegacyIds \subseteq Ids
  /\ Happens \subseteq Events

NoOne == "nobody"

\* Whose Receiver config.json points to: none, one whose SSH permissions the
\* user manages, or one with a verified Managed Identity.
Conns == {"none", "user-managed", "receiver-only"}

Profiles == [matchers : SUBSET AllChoices, quick : BOOLEAN, saved : BOOLEAN]
NoProfile == [matchers |-> {}, quick |-> FALSE, saved |-> FALSE]

Configs == [legacy : BOOLEAN, conn : Conns, selected : SUBSET AllChoices, ids : SUBSET Ids,
            pinned : SUBSET AllChoices, profile : Profiles]

Defaults == [legacy |-> FALSE, conn |-> "none", selected |-> {}, ids |-> {},
             pinned |-> {}, profile |-> NoProfile]
LegacyFile == [Defaults EXCEPT !.legacy = TRUE, !.conn = "user-managed", !.ids = LegacyIds]

\* load_config normalizes what it reads: nothing in memory tells it was legacy.
Loaded(file) == [file EXCEPT !.legacy = FALSE]
\* Mutant: the concrete ids are persisted with the rest
PersistAll(k) == Loaded(k)
\* save_config strips the concrete ids.
Persisted(k) == [Loaded(k) EXCEPT !.ids = {}]

Ops == {"configure", "start", "pin", "unpin", "clear", "inspect", "saveProfile",
        "deleteProfile", "loadProfile", "quickStart", "rename", "select", "migrate"}

\* Mutant: only the requests that name Sources wait for the migration
GatedForSources(op, want) == op \in {"configure", "pin", "unpin"} \/ op = "start"

\* Requests that are refused while the configuration is a legacy one. A Start
\* that names choices is configured first; one that names none goes on until
\* start_session refuses it.
Gated(op, want) ==
  \/ op \in {"configure", "pin", "unpin", "clear", "saveProfile", "deleteProfile", "loadProfile"}
  \/ op = "start" /\ want # {}

Sequences(S, n) == UNION {[1 .. k -> S] : k \in 0 .. n}
Histories == [recent : Sequences(Apps, MaxRecent), ignored : SUBSET Apps]
NoHistory == [recent |-> <<>>, ignored |-> {}]

\* A command's memory: its request (operation, choices, migration choice), the
\* configuration it holds, whether a Quick Start may go on, the applications an
\* inspection saw and the history it read, what the user meant to select, and
\* for an import whether it left a key on the Receiver and whether it knows.
Migrations == {"import-secure", "keep-user-managed", "start-fresh"}
Job == [op : Ops, want : SUBSET AllChoices, choice : Migrations, cfg : Configs,
        ready : BOOLEAN, live : SUBSET Apps, hist : Histories, meant : SUBSET AllChoices,
        keyLeft : BOOLEAN, committed : BOOLEAN]
NoJob == [op |-> "inspect", want |-> {}, choice |-> "start-fresh", cfg |-> Defaults,
          ready |-> FALSE, live |-> {}, hist |-> NoHistory, meant |-> {},
          keyLeft |-> FALSE, committed |-> FALSE]

PCs == {"idle", "choose", "merge", "save", "lock", "resolve", "worker", "observe", "record",
        "check", "backup", "convert", "adopt", "verify", "unlink", "restore"}

Sessions == [on : BOOLEAN, sources : SUBSET AllChoices, matchers : SUBSET AllChoices,
             named : SUBSET Mics, meant : SUBSET AllChoices]
NoSession == [on |-> FALSE, sources |-> {}, matchers |-> {}, named |-> {}, meant |-> {}]

VARIABLES
  config,    \* config.json
  backup,    \* whether legacy-backup.json holds the exact legacy file
  history,   \* source-history.json
  session,   \* the Session that is active
  lock,      \* the command that holds the session lock
  pc, job,   \* where each command is, and its memory
  begun,     \* commands run so far
  alone,     \* history: no two commands have overlapped
  chosen,    \* history: what the user last chose to be selected
  profiled,  \* history: what the user put into the Mix Profile
  hidden,    \* history: applications cleared from the history and seen in every
             \* inspection since
  migrated,  \* history: a migration was verified, or nothing was legacy
  answer     \* history: how the last migration was reported as rolled back

files == <<config, backup, history>>
told  == <<chosen, profiled, hidden, migrated, answer>>
vars  == <<files, session, lock, pc, job, begun, alone, told>>

TypeOK ==
  /\ config \in Configs /\ (config.legacy => config = LegacyFile)
  /\ (~config.legacy => config.ids = {})
  /\ backup \in BOOLEAN
  /\ history \in Histories /\ IsInjective(history.recent)
  /\ session \in Sessions
  /\ lock \in Commands \cup {NoOne}
  /\ pc \in [Commands -> PCs] /\ job \in [Commands -> Job]
  /\ begun \in 0 .. MaxCommands /\ alone \in BOOLEAN
  /\ chosen \in SUBSET AllChoices /\ profiled \in SUBSET AllChoices /\ hidden \in SUBSET Apps
  /\ migrated \in BOOLEAN
  /\ answer \in {"none", "complete", "incomplete"}

Init ==
  /\ config \in {Defaults, LegacyFile}
  /\ backup = FALSE
  /\ history = NoHistory
  /\ session = NoSession
  /\ lock = NoOne
  /\ pc = [c \in Commands |-> "idle"] /\ job = [c \in Commands |-> NoJob]
  /\ begun = 0 /\ alone = TRUE
  /\ chosen = {} /\ profiled = {} /\ hidden = {}
  /\ migrated = ~config.legacy
  /\ answer = "none"

-----------------------------------------------------------------------------
Goto(c, from, to) == pc[c] = from /\ pc' = [pc EXCEPT ![c] = to]

Remember(c, j) == job' = [job EXCEPT ![c] = j]

Ends(c) ==
  /\ pc' = [pc EXCEPT ![c] = "idle"] /\ job' = [job EXCEPT ![c] = NoJob]
  /\ lock' = IF lock = c THEN NoOne ELSE lock

\* The choices a request may name: those known to the file and the history, or
\* playing now
Catalog == config.selected \cup config.pinned \cup ToSet(history.recent)

FirstStep(op, want) ==
  CASE op \in {"configure", "pin", "unpin", "saveProfile", "loadProfile", "quickStart"} -> "choose"
    [] op = "start" -> IF want = {} THEN "merge" ELSE "choose"
    [] op \in {"deleteProfile", "rename", "select"} -> "merge"
    [] op \in {"clear", "inspect"} -> "observe"
    [] op = "migrate" -> "check"

\* What the user means is followed until two commands have overlapped.
Followed(x) == IF alone THEN x ELSE {}

\* A request arrives and passes the gate (_execute, start_command). A Mix
\* Profile is loaded, deleted or started when there is one; a pin names one
\* choice, an unpin one that is pinned; a profile names at least one.
Begin(c) ==
  /\ pc[c] = "idle" /\ begun < MaxCommands
  /\ \E op \in Ops, want \in Wants, choice \in Migrations :
      /\ config.legacy => ~Gated(op, want)
      /\ config.legacy /\ op \in {"rename", "select", "quickStart"} => "unguarded" \in Happens
      /\ op \notin {"configure", "start", "pin", "unpin", "saveProfile"} => want = {}
      /\ op \in {"pin", "unpin"} => Cardinality(want) = 1
      /\ op = "unpin" => want \subseteq config.pinned
      /\ op = "saveProfile" => want # {}
      /\ op \in {"deleteProfile", "loadProfile", "quickStart"} => config.profile.saved
      /\ op = "rename" => config.conn # "none"
      /\ op # "migrate" => choice = "start-fresh"
      /\ pc' = [pc EXCEPT ![c] = FirstStep(op, want)]
      /\ Remember(c, [NoJob EXCEPT !.op = op, !.want = want, !.choice = choice,
                        !.meant = Followed(CASE op \in {"loadProfile", "quickStart"} -> profiled
                                             [] op = "start" /\ want = {} -> chosen
                                             [] OTHER -> want)])
      /\ begun' = begun + 1
      /\ alone' = (alone /\ \A d \in Commands \ {c} : pc[d] = "idle")
      /\ IF alone' THEN UNCHANGED <<chosen, profiled, hidden>>
         ELSE chosen' = {} /\ profiled' = {} /\ hidden' = {}
      /\ answer' = "none"
      /\ UNCHANGED <<files, session, lock, migrated>>

\* What a request makes of the Sources it discovers: the fields it will lay over
\* the configuration, or for a pin the configuration itself
Chosen(j, audio) ==
  LET picked  == Choose(audio, j.want)
      profile == config.profile
  IN  CASE j.op \in {"configure", "start"} ->
             [Defaults EXCEPT !.selected = picked.matchers, !.ids = picked.ids]
        [] j.op = "pin"   -> [Loaded(config) EXCEPT !.pinned = @ \cup picked.matchers]
        [] j.op = "unpin" -> [Loaded(config) EXCEPT !.pinned = @ \ picked.matchers]
        [] j.op = "saveProfile" ->
             [Defaults EXCEPT !.profile =
                [matchers |-> picked.matchers, saved |-> TRUE,
                 quick |-> picked.matchers \cap Mics = {} /\ ~NeedsReview(audio, picked.matchers)]]
        [] j.op \in {"loadProfile", "quickStart"} ->
             [Defaults EXCEPT !.selected = profile.matchers,
                              !.ids = Remembered(audio, profile.matchers)]

\* A Quick Start goes on without the mixer when every Source is there.
Quick(audio, profile) ==
  /\ profile.quick /\ ~NeedsReview(audio, profile.matchers)
  /\ Remembered(audio, profile.matchers) # {} \/ profile.matchers \cap Apps # {}

NeedsProfile(j) == j.op \in {"deleteProfile", "loadProfile", "quickStart"}

\* load_config, discover_sources, and resolve_choice_ids or find_mix_profile
\* and resolve_source_matchers. A pin is saved from this configuration.
ChooseSources(c) ==
  /\ pc[c] = "choose"
  /\ \E audio \in Audios :
      /\ NeedsProfile(job[c]) => config.profile.saved
      /\ CanChoose(audio, Catalog, job[c].want)
      /\ Goto(c, "choose", IF job[c].op \in {"pin", "unpin"} THEN "save" ELSE "merge")
      /\ Remember(c, [job[c] EXCEPT !.cfg = Chosen(job[c], audio),
                                    !.ready = job[c].op = "quickStart" /\ Quick(audio, config.profile)])
      /\ UNCHANGED <<files, session, lock, begun, alone, told>>

\* The request's change, laid over the configuration as it is loaded then
Merged(j, base, conn) ==
  CASE j.op \in {"configure", "start"} /\ j.want # {} ->
         [base EXCEPT !.selected = j.cfg.selected, !.ids = j.cfg.ids]
    [] j.op = "configure" /\ j.want = {} -> [base EXCEPT !.selected = {}, !.ids = {}]
    [] j.op = "saveProfile"   -> [base EXCEPT !.profile = j.cfg.profile]
    [] j.op = "deleteProfile" -> [base EXCEPT !.profile = NoProfile]
    [] j.op \in {"loadProfile", "quickStart"} ->
         [base EXCEPT !.selected = j.cfg.selected, !.ids = j.cfg.ids, !.conn = conn]
    [] j.op = "select"  -> [base EXCEPT !.conn = conn]
    [] j.op = "migrate" -> [base EXCEPT !.conn = "receiver-only"]
    [] OTHER -> base

\* config_from_payload, or load_config where the request only edits. Another
\* Receiver is not selected while a Session is active, and a Quick Start that
\* would replace one opens the mixer. (The Receiver of a Mix Profile is here
\* always one that is user-managed.)
Merge(c) ==
  /\ pc[c] = "merge"
  /\ \E conn \in Conns \ {"none"} :
      /\ job[c].op # "select" => conn = "user-managed"
      /\ job[c].op = "deleteProfile" => config.profile.saved
      /\ job[c].op = "select" => ~session.on
      /\ Goto(c, "merge",
           IF \/ job[c].op = "start" /\ job[c].want = {}
              \/ job[c].op = "quickStart" /\ job[c].ready /\ ~session.on
           THEN "lock" ELSE "save")
      /\ Remember(c, [job[c] EXCEPT !.cfg = Merged(job[c], Loaded(config), conn), !.ready = FALSE])
      /\ UNCHANGED <<files, session, lock, begun, alone, told>>

\* save_config; a Start goes on with the ids that were not written.
Save(c) ==
  /\ config' = Persisted(job[c].cfg)
  /\ CASE job[c].op = "start"   -> Goto(c, "save", "lock") /\ UNCHANGED <<job, lock>>
       [] job[c].op = "migrate" -> Goto(c, "save", "adopt") /\ UNCHANGED <<job, lock>>
       [] OTHER -> pc[c] = "save" /\ Ends(c)
  /\ chosen' = IF job[c].op \in {"configure", "start", "loadProfile", "quickStart"}
               THEN Followed(job[c].meant) ELSE chosen
  /\ profiled' = IF job[c].op = "saveProfile" THEN Followed(job[c].want) ELSE profiled
  /\ UNCHANGED <<backup, history, session, begun, alone, hidden, migrated, answer>>

\* A request ends with an error: a choice or a profile that is gone, a Session
\* that is active, a file that cannot be written, a Receiver that does not answer.
Refuse(c) ==
  /\ \/ pc[c] = "choose"
        /\ \/ NeedsProfile(job[c]) /\ ~config.profile.saved
           \/ \E audio \in Audios : ~CanChoose(audio, Catalog, job[c].want)
     \/ pc[c] = "merge" /\ job[c].op = "deleteProfile" /\ ~config.profile.saved
     \/ pc[c] = "merge" /\ job[c].op = "select" /\ session.on
     \/ pc[c] = "save" /\ job[c].op # "migrate" /\ "saveFails" \in Happens
     \/ pc[c] \in {"resolve", "worker"}
  /\ Ends(c)
  /\ UNCHANGED <<files, session, begun, alone, told>>

-----------------------------------------------------------------------------
(* start_session and its worker, under the session lock                    *)

StartSession(c) ==
  /\ pc[c] = "lock" /\ lock = NoOne
  /\ IF config.legacy \/ session.on
     THEN Ends(c)
     ELSE Goto(c, "lock", "resolve") /\ lock' = c /\ UNCHANGED job
  /\ UNCHANGED <<files, session, begun, alone, told>>

\* After the preflight, explicit ids are resolved again and the configuration
\* saved again.
Resolve(c) ==
  /\ pc[c] = "resolve"
  /\ \E audio \in Audios :
      LET k        == job[c].cfg
          matchers == IF k.selected # {} THEN k.selected ELSE {audio.at[i] : i \in k.ids}
          resolved == StartWith(audio, matchers, k.ids)
          started  == IF k.ids = {} THEN k
                      ELSE [k EXCEPT !.selected = resolved.matchers, !.ids = resolved.ids]
      IN  /\ Goto(c, "resolve", "worker")
          /\ k.ids # {} => CanStart(audio, matchers, k.ids) /\ NoSource \notin matchers
          /\ Remember(c, [job[c] EXCEPT !.cfg = [Defaults EXCEPT !.selected = started.selected,
                                                              !.ids = started.ids]])
          /\ config' = Persisted(started)
          /\ chosen' = Followed(job[c].meant)
          /\ UNCHANGED <<backup, history, session, lock, begun, alone,
                         profiled, hidden, migrated, answer>>

\* The worker discovers once more; ids that are gone drop out, an id that is
\* something else stops it, and so does a plan with nothing to route.
Work(c) ==
  /\ pc[c] = "worker"
  /\ \E audio \in Audios :
      LET k        == job[c].cfg
          present  == {i \in k.ids : audio.at[i] # NoSource}
          resolved == StartWith(audio, k.selected, present)
      IN  /\ CanStart(audio, k.selected, present)
          /\ resolved.ids # {} \/ resolved.matchers \cap Apps # {}
          /\ session' = [on |-> TRUE, matchers |-> resolved.matchers,
                         sources |-> {audio.at[i] : i \in resolved.ids},
                         named |-> job[c].want \cap Mics, meant |-> job[c].meant]
          /\ Ends(c)
          /\ UNCHANGED <<files, begun, alone, told>>

\* _reconcile_playback_sources takes in an armed application when it plays.
Reconcile ==
  \E app \in session.matchers \cap Apps :
    /\ session.on
    /\ session' = [session EXCEPT !.sources = @ \cup {app}]
    /\ UNCHANGED <<files, lock, pc, job, begun, alone, told>>

StopSession ==
  /\ session.on /\ lock = NoOne
  /\ session' = NoSession
  /\ UNCHANGED <<files, lock, pc, job, begun, alone, told>>

-----------------------------------------------------------------------------
(* SourceHistoryStore                                                      *)

Truncated(seq) == SubSeq(seq, 1, IF Len(seq) > MaxRecent THEN MaxRecent ELSE Len(seq))

\* What is left of a sequence, in its order. (SelectSeq is defined recursively;
\* this is the same, as a choice that can be reasoned about.)
Without(seq, gone) ==
  LET kept  == {i \in DOMAIN seq : seq[i] \notin gone}
      place == CHOOSE f \in [1 .. Cardinality(kept) -> kept] :
                 \A m, n \in DOMAIN f : m < n => f[m] < f[n]
  IN  [n \in DOMAIN place |-> seq[place[n]]]

\* Mutant: what was cleared is ignored for one observation
ObservedOnce(hist, live) ==
  LET new   == SetToSeq(live \ hist.ignored)
      older == Without(hist.recent, live \ hist.ignored)
  IN  [recent |-> Truncated(new \o older), ignored |-> {}]

\* observe: what plays goes first, except what was cleared and has played since
Observed(hist, live) ==
  LET ignored == hist.ignored \cap live
      new     == SetToSeq(live \ ignored)
      older   == Without(hist.recent, live \ ignored)
  IN  [recent |-> Truncated(new \o older), ignored |-> ignored]

Inspect(c) ==
  /\ pc[c] = "observe" /\ job[c].op = "inspect"
  /\ \E audio \in Audios :
      /\ Goto(c, "observe", "record")
      /\ Remember(c, [job[c] EXCEPT !.live = Apps \cap Live(audio), !.hist = history])
      /\ hidden' = hidden \cap Live(audio)
      /\ UNCHANGED <<files, session, lock, begun, alone, chosen, profiled, migrated, answer>>

Record(c) ==
  /\ pc[c] = "record"
  /\ history' = Observed(job[c].hist, job[c].live)
  /\ Ends(c)
  /\ UNCHANGED <<config, backup, session, begun, alone, told>>

Clear(c) ==
  /\ pc[c] = "observe" /\ job[c].op = "clear"
  /\ \E audio \in Audios :
      /\ history' = [recent |-> <<>>,
                     ignored |-> ToSet(Truncated(SetToSeq(Apps \cap Live(audio))))]
      /\ hidden' = Followed(Apps \cap Live(audio))
      /\ Ends(c)
      /\ UNCHANGED <<config, backup, session, begun, alone, chosen, profiled, migrated, answer>>

-----------------------------------------------------------------------------
(* MigrationService                                                        *)

\* The status is read without the lock; the approved plan must be the one made
\* of the file as it is.
CheckPlan(c) ==
  /\ IF session.on \/ ~config.legacy
     THEN pc[c] = "check" /\ Ends(c)
     ELSE Goto(c, "check", "backup") /\ UNCHANGED <<job, lock>>
  /\ UNCHANGED <<files, session, begun, alone, told>>

\* _prepare_backup: written from what was read, or found there already
PrepareBackup(c) ==
  /\ Goto(c, "backup", "convert")
  /\ backup' = TRUE
  /\ UNCHANGED <<config, history, session, lock, job, begun, alone, told>>

\* start-fresh and keep-user-managed
Converted(choice) ==
  IF choice = "start-fresh" THEN Defaults ELSE [Defaults EXCEPT !.conn = "user-managed"]

Convert(c) ==
  /\ job[c].choice # "import-secure"
  /\ Goto(c, "convert", "verify")
  /\ config' = Converted(job[c].choice)
  /\ UNCHANGED <<backup, history, session, lock, job, begun, alone, told>>

\* import-secure runs Companion Setup, which saves the configuration with the
\* verified Connection before it answers.
Import(c) ==
  /\ job[c].choice = "import-secure"
  /\ Goto(c, "convert", "merge")
  /\ Remember(c, [job[c] EXCEPT !.keyLeft = TRUE])
  /\ UNCHANGED <<files, session, lock, begun, alone, told>>

\* The answer is adopted without the old selection. From here the change on the
\* Receiver is known to stay.
Adopt(c) ==
  \E ok \in BOOLEAN :
    /\ ok \/ "saveFails" \in Happens
    /\ Goto(c, "adopt", IF ok THEN "verify" ELSE "restore")
    /\ Remember(c, [job[c] EXCEPT !.committed = TRUE])
    /\ config' = IF ok THEN Persisted([job[c].cfg EXCEPT !.selected = {}]) ELSE config
    /\ UNCHANGED <<backup, history, session, lock, begun, alone, told>>

\* Setup, or saving what it verified, fails: it has rolled back, or says that
\* the rollback is incomplete; a conversion is not written.
ConversionFails(c) ==
  \E left \in BOOLEAN :
    /\ \/ pc[c] = "convert" /\ job[c].choice # "import-secure" /\ "saveFails" \in Happens /\ ~left
       \/ pc[c] = "convert" /\ job[c].choice = "import-secure" /\ "setupFails" \in Happens
       \/ pc[c] = "save" /\ job[c].op = "migrate" /\ "saveFails" \in Happens
    /\ pc' = [pc EXCEPT ![c] = "restore"]
    /\ Remember(c, [job[c] EXCEPT !.keyLeft = left, !.committed = left])
    /\ UNCHANGED <<files, session, lock, begun, alone, told>>

Wanted(choice) ==
  CASE choice = "import-secure"     -> "receiver-only"
    [] choice = "keep-user-managed" -> "user-managed"
    [] choice = "start-fresh"       -> "none"

\* _verify reads the file again.
Verify(c) ==
  /\ Goto(c, "verify",
       IF ~config.legacy /\ config.conn = Wanted(job[c].choice) THEN "unlink" ELSE "restore")
  /\ UNCHANGED <<files, session, lock, job, begun, alone, told>>

Unlink(c) ==
  /\ pc[c] = "unlink"
  /\ backup' = FALSE
  /\ migrated' = TRUE
  /\ Ends(c)
  /\ UNCHANGED <<config, history, session, begun, alone, chosen, profiled, hidden, answer>>

\* Mutant: the rollback is complete when the file is back
LocalOnly(restored, j) == restored

\* A rollback is complete when the file is back and the Receiver unchanged.
Complete(restored, j) == restored /\ ~j.committed

\* _restore_backup, and the report
Restore(c) ==
  \E ok \in BOOLEAN :
    /\ pc[c] = "restore" /\ (ok \/ "saveFails" \in Happens)
    /\ config' = IF ok /\ backup THEN LegacyFile ELSE config
    /\ answer' = IF Complete(ok /\ backup, job[c]) THEN "complete" ELSE "incomplete"
    /\ Ends(c)
    /\ UNCHANGED <<backup, history, session, begun, alone, chosen, profiled, hidden, migrated>>

-----------------------------------------------------------------------------
\* The process is killed; the worker, once it runs, is a process of its own.
Crash(c) ==
  /\ "crash" \in Happens
  /\ pc[c] \notin {"idle", "worker"}
  /\ Ends(c)
  /\ UNCHANGED <<files, session, begun, alone, told>>

Step(c) ==
  \/ Begin(c) \/ ChooseSources(c) \/ Merge(c) \/ Save(c) \/ Refuse(c)
  \/ StartSession(c) \/ Resolve(c) \/ Work(c)
  \/ Inspect(c) \/ Record(c) \/ Clear(c)
  \/ CheckPlan(c) \/ PrepareBackup(c) \/ Convert(c) \/ Import(c) \/ Adopt(c)
  \/ ConversionFails(c) \/ Verify(c) \/ Unlink(c) \/ Restore(c)
  \/ Crash(c)

Next == (\E c \in Commands : Step(c)) \/ Reconcile \/ StopSession

Spec == Init /\ [][Next]_vars
=============================================================================
