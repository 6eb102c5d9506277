------------------------------ MODULE Updates ------------------------------
(***************************************************************************)
(* Receiver updates: a desktop plans an update from signed release         *)
(* metadata (updates.py), and after approval runs it as one transaction    *)
(* over SSH (native_updates.py, *_bootstrap.py): copy the artifacts, keep  *)
(* backups, run Companion Setup on the Receiver (receiver/*/setup-v1),     *)
(* verify, commit, or roll back.                                           *)
(*                                                                         *)
(* Desktops are processes, and so is the setup script each may have        *)
(* running on the one Receiver: it goes on when its desktop dies.          *)
(***************************************************************************)
EXTENDS Naturals

CONSTANTS
  Desktops,   \* source computers that may update the Receiver
  MaxVersion, \* bound on the Receiver versions released
  NoOne,
  Happens     \* which outside events occur, from Events below

Events ==
  { "crash",       \* the desktop's command is killed between two steps
    "remoteFails", \* a remote command fails, or its answer is lost
    "scriptFails", \* Companion Setup fails on the Receiver
    "goesOn",      \* ssh returns while Companion Setup is still running
    "localFails",  \* an artifact is not fetched or staged, or staging not removed
    "stalePlan",   \* the Receiver is updated between a plan and its approval
    "overlap" }    \* two transactions are open at once

ASSUME UpdateAssumption ==
  /\ MaxVersion \in Nat \ {0}
  /\ NoOne \notin Desktops
  /\ Happens \subseteq Events

Versions == 1 .. MaxVersion

\* The helper installed, and who wrote authorized_keys last: setup rewrites
\* its own entry, so the file is its writer's
Contents   == [helper : Versions, keys : Desktops \cup {NoOne}]
NoContents == [helper |-> 0, keys |-> NoOne]

\* Release metadata as served: its version, whether it carries a valid
\* signature, and whether it parses as one immutable release
Metadata == [version : Versions, signed : BOOLEAN, sound : BOOLEAN]

\* An approved plan; "due" unless its status is "current"
Plan   == [from : Versions, meta : Metadata, due : BOOLEAN]
NoPlan == [from |-> 0, meta |-> [version |-> 0, signed |-> FALSE, sound |-> FALSE], due |-> FALSE]

\* Companion Setup on the Receiver, with its own copy of what it found
Ended    == {"done", "undone", "partly"}
Script   == [at : {"begun", "helper", "keys"} \cup Ended, version : Versions, found : Contents]
NoScript == [at |-> "none", version |-> 0, found |-> NoContents]

Results == {"none", "updated", "restored", "rejected", "incomplete"}

\* The bootstrap's memory: _update_remote_dir or _transaction_path is set,
\* _apply_changed_receiver, _apply_rolled_back, _staging_cleanup_failed
Job   == [open : BOOLEAN, changed : BOOLEAN, undone : BOOLEAN, littered : BOOLEAN,
          result : Results]
NoJob == [open |-> FALSE, changed |-> FALSE, undone |-> FALSE, littered |-> FALSE,
          result |-> "none"]

PCs == {"idle", "fetch", "create", "copy", "backup", "run", "await", "verify", "commit",
        "rollback", "cleanup"}

VARIABLES
  platform,  \* of the Receiver
  installed, \* Contents of the Receiver
  staged,    \* the desktops with a staging directory on the Receiver
  backup,    \* the backups a desktop's transaction keeps on the Receiver
  script,    \* the setup script a desktop has running there
  pc, job,   \* where each desktop is, and its memory
  plan,      \* the plan each desktop shows its user
  outcome,   \* what each desktop was told last
  began      \* history: the latest transaction, whether a restore was tried
             \* or the new helper verified since, and whether its connection
             \* broke while the script was running

receiver == <<installed, staged, backup, script>>
desktop  == <<pc, job, plan, outcome>>
vars     == <<platform, receiver, desktop, began>>

Began == [by : Desktops \cup {NoOne}, what : Contents, target : Versions, settled : BOOLEAN,
          away : BOOLEAN]

TypeOK ==
  /\ platform \in {"linux", "macos", "windows"}
  /\ installed \in Contents
  /\ staged \in SUBSET Desktops
  /\ backup \in [Desktops -> Contents \cup {NoContents}]
  /\ script \in [Desktops -> Script \cup {NoScript}]
  /\ pc \in [Desktops -> PCs]
  /\ job \in [Desktops -> Job]
  /\ plan \in [Desktops -> Plan \cup {NoPlan}]
  /\ \A d \in Desktops : pc[d] # "idle" => plan[d] \in Plan
  /\ outcome \in [Desktops -> Results \cup {"unclean"}]
  /\ began \in Began

Init ==
  /\ platform \in {"linux", "macos", "windows"}
  /\ installed \in [helper : Versions, keys : {NoOne}]
  /\ staged = {}
  /\ backup = [d \in Desktops |-> NoContents]
  /\ script = [d \in Desktops |-> NoScript]
  /\ pc = [d \in Desktops |-> "idle"]
  /\ job = [d \in Desktops |-> NoJob]
  /\ plan = [d \in Desktops |-> NoPlan]
  /\ outcome = [d \in Desktops |-> "none"]
  /\ began = [by |-> NoOne, what |-> installed, target |-> installed.helper, settled |-> TRUE,
                      away |-> FALSE]

-----------------------------------------------------------------------------
Goto(d, from, to) == pc[d] = from /\ pc' = [pc EXCEPT ![d] = to]

Running(d) == script[d].at \in {"begun", "helper", "keys"}

\* A transaction of d is open, or the script of one is still running.
Busy(d) == pc[d] # "idle" \/ script[d] # NoScript

Settle == began' = [began EXCEPT !.settled = TRUE]

-----------------------------------------------------------------------------
(* Planning: UpdateService.plan and the requests that call it.             *)

\* ReleaseSignatureVerifier.verify
SignatureVerifies(m) == m.signed

\* _parse_metadata and _immutable_artifact_url
Parses(m) == m.sound

\* UpdateService.plan refuses what is unsigned, unsound or older.
Plans(from, m) ==
  /\ SignatureVerifies(m) /\ Parses(m)
  /\ m.version >= from

\* updates.check and updates.plan: the version the Receiver reports now, and
\* the metadata served now. The same version is due when only the Companion
\* is newer or the protocol does not fit.
Check(d) ==
  /\ pc[d] = "idle"
  /\ \E m \in Metadata, due \in BOOLEAN :
       /\ Plans(installed.helper, m)
       /\ m.version > installed.helper => due
       /\ plan' = [plan EXCEPT ![d] = [from |-> installed.helper, meta |-> m, due |-> due]]
  /\ UNCHANGED <<platform, receiver, pc, job, outcome, began>>

\* UpdateService.execute makes the approved plan again, from the metadata
\* served now and from the version the plan started from, and it must come out
\* the same. A Receiver that is current is not updated.
Approved(d) ==
  /\ plan[d].due
  /\ \E m \in Metadata : m = plan[d].meta /\ Plans(plan[d].from, m)

\* updates.apply-pinned and updates.apply, up to the first remote step. What
\* earlier transactions have left on the Receiver is no longer followed.
Execute(d) ==
  /\ Approved(d)
  /\ "stalePlan" \in Happens \/ plan[d].from = installed.helper
  /\ "overlap" \in Happens \/ \A e \in Desktops : ~Busy(e)
  /\ script[d] = NoScript
  /\ Goto(d, "idle", "fetch")
  /\ job' = [job EXCEPT ![d] = NoJob]
  /\ outcome' = [e \in Desktops |-> "none"]
  /\ began' = [by |-> d, what |-> installed, target |-> plan[d].meta.version, settled |-> FALSE,
                 away |-> FALSE]
  /\ staged' = {e \in staged \ {d} : Busy(e)}
  /\ backup' = [e \in Desktops |-> IF e # d /\ Busy(e) THEN backup[e] ELSE NoContents]
  /\ UNCHANGED <<platform, installed, script, plan>>

\* Every artifact has its signed size and checksum, or nothing was changed.
Fetch(d) ==
  /\ \/ Goto(d, "fetch", "create") /\ UNCHANGED job
     \/ /\ "localFails" \in Happens
        /\ Goto(d, "fetch", "cleanup") /\ job' = [job EXCEPT ![d].result = "rejected"]
  /\ UNCHANGED <<platform, receiver, plan, outcome, began>>

-----------------------------------------------------------------------------
(* Installing: the bootstrap's apply on each platform.                     *)

\* A staging directory on the Receiver, artifacts copied and checked; without
\* the directory's name nothing is cleaned up.
Stage(d, next) ==
  /\ \/ Goto(d, "create", "copy") /\ staged' = staged \cup {d}
     \/ Goto(d, "copy", next) /\ UNCHANGED staged
     \/ /\ "remoteFails" \in Happens
        /\ Goto(d, "create", "rollback")
        /\ staged' \in {staged, staged \cup {d}}
  /\ UNCHANGED <<platform, installed, backup, script, job, plan, outcome, began>>

\* apply fails before setup ran and removes the staging directory; whether it
\* is gone is noticed on macOS and Windows.
GiveUp(d, from, noticed) ==
  /\ "remoteFails" \in Happens
  /\ Goto(d, from, "rollback")
  /\ \E gone, heard \in BOOLEAN :
       /\ staged' = IF gone THEN staged \ {d} ELSE staged
       /\ backup' \in IF gone \/ from = "copy" THEN {backup}
                      ELSE {backup, [backup EXCEPT ![d] = installed]}
       /\ job' = [job EXCEPT ![d].littered = noticed /\ ~(gone /\ heard)]
  /\ UNCHANGED <<platform, installed, script, plan, outcome, began>>

\* retain_transaction on Linux and macOS: helper and authorized_keys are kept
\* in the staging directory, which is remembered.
KeepBackup(d) ==
  /\ Goto(d, "backup", "run")
  /\ backup' = [backup EXCEPT ![d] = installed]
  /\ job' = [job EXCEPT ![d].open = TRUE]
  /\ UNCHANGED <<platform, installed, staged, script, plan, outcome, began>>

\* Setup begins and copies what it finds; on Windows this copy is the
\* transaction's backup.
RunScript(d) ==
  /\ Goto(d, "run", "await")
  /\ job' = [job EXCEPT ![d].changed = TRUE]
  /\ script' = [script EXCEPT ![d] = [at |-> "begun", version |-> plan[d].meta.version,
                                      found |-> installed]]
  /\ backup' = IF platform = "windows" THEN [backup EXCEPT ![d] = installed] ELSE backup
  /\ UNCHANGED <<platform, installed, staged, plan, outcome, began>>

\* Mutant: the staging directory is removed with the backups in it.
AnswerCleaning(d) ==
  /\ \/ script[d].at = "done" /\ Goto(d, "await", "verify")
     \/ script[d].at # "done" /\ Goto(d, "await", "rollback")
  /\ script[d].at \in Ended
  /\ script' = [script EXCEPT ![d] = NoScript]
  /\ staged' = staged \ {d} /\ backup' = [backup EXCEPT ![d] = NoContents]
  /\ UNCHANGED <<platform, installed, job, plan, outcome, began>>

\* The script confirmed, or it failed or its answer was lost. With a retained
\* transaction the staging directory stays. The script reports its roll-back
\* on stderr, which an update reads on Windows only.
PosixAnswer(d) ==
  /\ \/ script[d].at = "done" /\ Goto(d, "await", "verify")
     \/ /\ script[d].at = "done" => "remoteFails" \in Happens
        /\ Goto(d, "await", "rollback")
  /\ script[d].at \in Ended
  /\ script' = [script EXCEPT ![d] = NoScript]
  /\ UNCHANGED <<platform, installed, staged, backup, job, plan, outcome, began>>

\* Mutant: a failed Windows setup counts as rolled back.
TrustFailure(d) ==
  /\ script[d].at \in Ended /\ script' = [script EXCEPT ![d] = NoScript]
  /\ \/ /\ script[d].at = "done" /\ Goto(d, "await", "verify")
        /\ job' = [job EXCEPT ![d].open = TRUE] /\ UNCHANGED staged
     \/ /\ script[d].at # "done" /\ Goto(d, "await", "rollback")
        /\ job' = [job EXCEPT ![d].undone = TRUE] /\ staged' = staged \ {d}
  /\ UNCHANGED <<platform, installed, backup, plan, outcome, began>>

\* Without the name of the transaction staging is removed, and what is not
\* known to be gone is remembered.
Unnamed(d, undone, gone, known) ==
  /\ staged' = IF gone THEN staged \ {d} ELSE staged
  /\ job' = [job EXCEPT ![d] = [open |-> FALSE, changed |-> TRUE, undone |-> undone,
                                littered |-> ~(gone /\ known), result |-> "none"]]

\* On Windows the answer names the transaction.
WindowsAnswer(d) ==
  /\ script[d].at \in Ended /\ script' = [script EXCEPT ![d] = NoScript]
  /\ \/ /\ script[d].at = "done" /\ Goto(d, "await", "verify")
        /\ job' = [job EXCEPT ![d].open = TRUE] /\ UNCHANGED staged
     \/ /\ Goto(d, "await", "rollback")
        /\ \E heard, gone, known \in BOOLEAN :
             /\ ~(heard /\ gone /\ known) \/ script[d].at = "done" => "remoteFails" \in Happens
             /\ Unnamed(d, heard /\ script[d].at = "undone", gone, known)
  /\ UNCHANGED <<platform, installed, backup, plan, outcome, began>>

\* The connection breaks and ssh returns, which is a failed setup to apply;
\* the script goes on, and on Windows staging is removed under it.
BreakAway(d) ==
  /\ "goesOn" \in Happens
  /\ Running(d)
  /\ Goto(d, "await", "rollback")
  /\ \/ platform # "windows" /\ UNCHANGED <<staged, job>>
     \/ platform = "windows" /\ \E gone, known \in BOOLEAN : Unnamed(d, FALSE, gone, known)
  /\ began' = [began EXCEPT !.away = TRUE]
  /\ UNCHANGED <<platform, installed, backup, script, plan, outcome>>

\* LinuxBootstrap.apply with retain_transaction
LinuxApply(d) ==
  /\ platform = "linux"
  /\ \/ Stage(d, "backup")
     \/ GiveUp(d, "copy", FALSE) \/ GiveUp(d, "backup", FALSE)
     \/ KeepBackup(d) \/ RunScript(d) \/ PosixAnswer(d) \/ BreakAway(d)

\* MacOsBootstrap.apply: a cleanup that fails is remembered
MacApply(d) ==
  /\ platform = "macos"
  /\ \/ Stage(d, "backup")
     \/ GiveUp(d, "copy", TRUE) \/ GiveUp(d, "backup", TRUE)
     \/ KeepBackup(d) \/ RunScript(d) \/ PosixAnswer(d) \/ BreakAway(d)

\* WindowsBootstrap.apply: setup itself keeps the backups
WindowsApply(d) ==
  /\ platform = "windows"
  /\ \/ Stage(d, "run")
     \/ GiveUp(d, "copy", TRUE)
     \/ RunScript(d) \/ WindowsAnswer(d) \/ BreakAway(d)

-----------------------------------------------------------------------------
(* Companion Setup on the Receiver, step by step.                          *)

\* The new helper is taken from the staging directory.
InstallHelper(d) ==
  /\ script[d].at = "begun" /\ d \in staged
  /\ script' = [script EXCEPT ![d].at = "helper"]
  /\ installed' = [installed EXCEPT !.helper = script[d].version]
  /\ UNCHANGED <<platform, staged, backup, desktop, began>>

WriteKeys(d) ==
  /\ script[d].at = "helper"
  /\ script' = [script EXCEPT ![d].at = "keys"]
  /\ installed' = [installed EXCEPT !.keys = d]
  /\ UNCHANGED <<platform, staged, backup, desktop, began>>

ConfirmSetup(d) ==
  /\ script[d].at = "keys"
  /\ script' = [script EXCEPT ![d].at = "done"]
  /\ UNCHANGED <<platform, installed, staged, backup, desktop, began>>

\* What a restore of c may leave when it does not succeed
PartOf(c) == [helper : {installed.helper, c.helper}, keys : {installed.keys, c.keys}]

\* The script's own roll-back, also when its artifacts are gone; on Windows the
\* backups go with it.
UndoSetup(d) ==
  /\ "scriptFails" \in Happens \/ d \notin staged
  /\ Running(d)
  /\ \/ /\ installed' = script[d].found
        /\ script' = [script EXCEPT ![d].at = "undone"]
        /\ UNCHANGED began
     \/ /\ installed' \in PartOf(script[d].found)
        /\ script' = [script EXCEPT ![d].at = "partly"]
        /\ Settle
  /\ backup' = IF platform = "windows" THEN [backup EXCEPT ![d] = NoContents] ELSE backup
  /\ UNCHANGED <<platform, staged, desktop>>

\* The desktop or the connection is gone: nobody reads the answer.
EndUnheard(d) ==
  /\ pc[d] # "await" /\ script[d].at \in Ended
  /\ script' = [script EXCEPT ![d] = NoScript]
  /\ UNCHANGED <<platform, installed, staged, backup, desktop, began>>

ScriptStep(d) ==
  InstallHelper(d) \/ WriteKeys(d) \/ ConfirmSetup(d) \/ UndoSetup(d) \/ EndUnheard(d)

-----------------------------------------------------------------------------
(* Verifying, committing and rolling back.                                 *)

\* The helper answers with the expected version through the restricted key,
\* which rejects other commands and forwarding.
LinuxVerifies(d) == installed.helper = plan[d].meta.version /\ installed.keys = d

\* ... and no staging directory was left behind.
MacVerifies(d) == LinuxVerifies(d) /\ ~job[d].littered

WindowsVerifies(d) == LinuxVerifies(d)

Verifies(d) ==
  CASE platform = "linux"   -> LinuxVerifies(d)
    [] platform = "macos"   -> MacVerifies(d)
    [] platform = "windows" -> WindowsVerifies(d)

\* NativeUpdateTransaction.verify; a failed check may be the connection's
Verify(d) ==
  /\ \/ Goto(d, "verify", "commit") /\ Verifies(d) /\ Settle
     \/ /\ "remoteFails" \in Happens \/ ~Verifies(d)
        /\ Goto(d, "verify", "rollback")
        /\ UNCHANGED began
  /\ UNCHANGED <<platform, receiver, job, plan, outcome>>

Committed(d) == Goto(d, "commit", "cleanup") /\ job' = [job EXCEPT ![d].result = "updated"]

\* Mutant: the backups are taken for removed when the command was sent.
LinuxCommitUnchecked(d) ==
  /\ platform # "windows"
  /\ Committed(d)
  /\ \/ staged' = staged \ {d} /\ backup' = [backup EXCEPT ![d] = NoContents]
     \/ "remoteFails" \in Happens /\ UNCHANGED <<staged, backup>>
  /\ UNCHANGED <<platform, installed, script, plan, outcome, began>>

\* LinuxBootstrap.commit, macOS's too: the directory with the backups goes.
\* When it cannot be told, the update is rolled back.
LinuxCommit(d) ==
  /\ platform # "windows"
  /\ \/ /\ Committed(d)
        /\ staged' = staged \ {d} /\ backup' = [backup EXCEPT ![d] = NoContents]
     \/ /\ "remoteFails" \in Happens
        /\ Goto(d, "commit", "rollback") /\ UNCHANGED job
        /\ staged' \in {staged, staged \ {d}}
        /\ backup' \in IF d \in staged' THEN {backup, [backup EXCEPT ![d] = NoContents]}
                       ELSE {[backup EXCEPT ![d] = NoContents]}
  /\ UNCHANGED <<platform, installed, script, plan, outcome, began>>

\* WindowsBootstrap.commit: setup's Commit mode, then the staging directory,
\* which must be gone as well
WindowsCommit(d) ==
  /\ platform = "windows"
  /\ \/ /\ Committed(d)
        /\ staged' = staged \ {d} /\ backup' = [backup EXCEPT ![d] = NoContents]
     \/ /\ "remoteFails" \in Happens
        /\ Goto(d, "commit", "rollback")
        /\ \/ UNCHANGED <<staged, job>> /\ backup' \in {backup, [backup EXCEPT ![d] = NoContents]}
           \/ /\ backup' = [backup EXCEPT ![d] = NoContents]
              /\ staged' \in {staged, staged \ {d}}
              /\ job' = [job EXCEPT ![d] =
                   [open |-> FALSE, changed |-> TRUE, undone |-> FALSE, littered |-> TRUE,
                    result |-> "none"]]
  /\ UNCHANGED <<platform, installed, script, plan, outcome, began>>

\* The roll-back has reported; the bootstrap forgets the transaction.
RolledBack(d, complete) ==
  /\ Goto(d, "rollback", "cleanup")
  /\ job' = [job EXCEPT ![d] =
                [NoJob EXCEPT !.result = IF complete THEN "restored" ELSE "incomplete"]]
  /\ UNCHANGED <<platform, script, plan, outcome>>

\* Nothing was retained: LinuxBootstrap.rollback knows what it did itself.
ReportOnly(d, littered) ==
  /\ ~job[d].open
  /\ RolledBack(d, ~littered /\ (job[d].changed => job[d].undone))
  /\ UNCHANGED <<installed, staged, backup, began>>

\* Mutant: backups are restored whether they are there or not.
RestoreBlindly(d) ==
  /\ job[d].open
  /\ installed' = backup[d]
  /\ RolledBack(d, TRUE)
  /\ staged' = staged \ {d} /\ backup' = [backup EXCEPT ![d] = NoContents]
  /\ Settle

\* "set -eu": helper, keys, removal, and nothing after the first failure.
Restore(d) ==
  /\ job[d].open
  /\ \/ /\ backup[d] # NoContents
        /\ installed' = backup[d]
        /\ \/ RolledBack(d, TRUE)
           \/ "remoteFails" \in Happens /\ RolledBack(d, FALSE)
        /\ staged' = staged \ {d} /\ backup' = [backup EXCEPT ![d] = NoContents]
     \/ /\ "remoteFails" \in Happens
        /\ installed' \in IF backup[d] = NoContents THEN {installed} ELSE PartOf(backup[d])
        /\ installed'.keys # installed.keys => installed'.helper = backup[d].helper
        /\ RolledBack(d, FALSE)
        /\ UNCHANGED <<staged, backup>>
  /\ Settle

LinuxRollback(d) == platform = "linux" /\ (Restore(d) \/ ReportOnly(d, FALSE))

MacRollback(d) == platform = "macos" /\ (Restore(d) \/ ReportOnly(d, job[d].littered))

\* Setup's Rollback mode restores each file for itself and then removes the
\* backups, restored or not; the staging directory must be gone, too.
WindowsRestore(d) ==
  /\ job[d].open
  /\ \/ /\ backup[d] # NoContents
        /\ installed' = backup[d]
        /\ backup' = [backup EXCEPT ![d] = NoContents] /\ staged' = staged \ {d}
        /\ RolledBack(d, TRUE)
     \/ /\ "remoteFails" \in Happens
        /\ installed' \in IF backup[d] = NoContents THEN {installed} ELSE PartOf(backup[d])
        /\ backup' \in {[backup EXCEPT ![d] = NoContents]}
                       \cup IF installed' = installed THEN {backup} ELSE {}
        /\ staged' \in {staged, staged \ {d}}
        /\ RolledBack(d, FALSE)
  /\ Settle

WindowsRollback(d) ==
  platform = "windows" /\ (WindowsRestore(d) \/ ReportOnly(d, job[d].littered))

\* The local staging directory goes and the user is told; when it does not go,
\* the update is not ok, verified or not.
Finish(d) ==
  /\ Goto(d, "cleanup", "idle")
  /\ \/ outcome' = [outcome EXCEPT ![d] = job[d].result]
     \/ /\ "localFails" \in Happens /\ job[d].result = "updated"
        /\ outcome' = [outcome EXCEPT ![d] = "unclean"]
  /\ plan' = [plan EXCEPT ![d] = NoPlan]
  /\ job' = [job EXCEPT ![d] = NoJob]
  /\ UNCHANGED <<platform, receiver, began>>

\* The command dies; what it knew is lost, the Receiver stays as it is.
Crash(d) ==
  /\ "crash" \in Happens
  /\ pc[d] # "idle" /\ pc' = [pc EXCEPT ![d] = "idle"]
  /\ job' = [job EXCEPT ![d] = NoJob]
  /\ plan' = [plan EXCEPT ![d] = NoPlan]
  /\ UNCHANGED <<platform, receiver, outcome, began>>

\* NativeUpdateTransaction: install, commit and rollback on the Receiver's platform
Install(d)  == LinuxApply(d) \/ MacApply(d) \/ WindowsApply(d)
Commit(d)   == LinuxCommit(d) \/ WindowsCommit(d)
Rollback(d) == LinuxRollback(d) \/ MacRollback(d) \/ WindowsRollback(d)

\* UpdateService.execute, once it has staged the artifacts: every exception
\* after the first remote step leads to the roll-back.
DesktopStep(d) ==
  Fetch(d) \/ Install(d) \/ Verify(d) \/ Commit(d) \/ Rollback(d) \/ Finish(d)

Next ==
  \E d \in Desktops : Check(d) \/ Execute(d) \/ DesktopStep(d) \/ ScriptStep(d) \/ Crash(d)

Spec == Init /\ [][Next]_vars
=============================================================================
