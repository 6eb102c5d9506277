-------------------------- MODULE UpdateProperties --------------------------
(***************************************************************************)
(* What an update promises, and the refinement of UpdateTransaction.       *)
(***************************************************************************)
EXTENDS Updates

Owner == IF began.by # NoOne /\ Busy(began.by) THEN began.by ELSE NoOne

Transaction == INSTANCE UpdateTransaction WITH
  owner <- Owner, began <- began.what, target <- began.target, adrift <- began.away

\* An update is one transaction, whatever fails, is lost or dies on the way: it
\* moves the Receiver between what was there and what was approved, and says
\* "updated" or "restored" only of exactly that. Of an update whose ssh has
\* returned before the setup script did (bootstrap.py:297) it says no more than
\* the former, and that "updated" is not reported: "restored" may be, and the
\* script then installs what it was given.
OneTransaction == Transaction!Spec

\* From the first change of the Receiver until the new helper is verified or a
\* restore is tried, the exact prior helper and authorized_keys are kept there,
\* even when the desktop has died meanwhile or the script runs on without it.
Recoverable ==
  began.settled \/ installed = began.what \/ backup[began.by] = began.what

\* An update that ended well leaves no backups of helpers and keys behind.
\* (On Linux a staging directory that could not be removed goes unnoticed.)
Cleaned(d) ==
  \/ platform = "linux" /\ outcome[d] = "restored"
  \/ pc[d] = "idle" /\ began.by = d /\ outcome[d] \in {"updated", "unclean", "restored"}
       => backup[d] = NoContents

NothingLeft == \A d \in Desktops : Cleaned(d)

\* Where the latest transaction stands, phase by phase: the inductive invariant
\* behind the properties above.
Mixed == [helper : {began.what.helper, began.target}, keys : {began.what.keys, began.by}]
New   == [helper |-> began.target, keys |-> began.by]

Before(d) ==
  pc[d] \in {"fetch", "create", "copy", "backup"} =>
    /\ ~began.settled /\ installed = began.what /\ backup[d] = NoContents
    /\ script[d] = NoScript /\ job[d] = NoJob

AtRun(d) ==
  pc[d] = "run" =>
    /\ ~began.settled /\ installed = began.what /\ script[d] = NoScript
    /\ ~job[d].changed /\ ~job[d].undone /\ ~job[d].littered
    /\ IF platform = "windows" THEN ~job[d].open /\ backup[d] = NoContents
       ELSE job[d].open /\ backup[d] = began.what

AtAwait(d) ==
  pc[d] = "await" =>
    /\ script[d] # NoScript
    /\ began.settled => script[d].at = "partly"
    /\ job[d].changed /\ ~job[d].undone /\ ~job[d].littered
    /\ job[d].open = (platform # "windows")

\* The script of d goes on behind a roll-back that never counts as restored
\* on Windows.
Adrift(d) ==
  /\ began.away
  /\ \/ /\ pc[d] = "rollback"
        /\ job[d].changed /\ ~job[d].undone
        /\ job[d].open = (platform # "windows")
     \/ pc[d] = "cleanup" /\ job[d].result \in {"restored", "incomplete"}

Scripted(d) ==
  script[d] # NoScript =>
    /\ script[d].version = began.target /\ script[d].found = began.what
    /\ ~began.settled =>
         /\ script[d].at \in {"begun", "undone"} => installed = began.what
         /\ script[d].at = "helper" => installed = [helper |-> began.target, keys |-> began.what.keys]
         /\ script[d].at \in {"keys", "done"} => installed = New
    /\ script[d].at = "partly" => began.settled
    /\ IF platform = "windows" /\ script[d].at \in {"undone", "partly"}
       THEN backup[d] = NoContents
       ELSE began.settled \/ backup[d] = began.what
    /\ pc[d] \in {"idle", "await"} \/ Adrift(d)

AtVerify(d) ==
  pc[d] \in {"verify", "commit"} =>
    /\ installed = New /\ backup[d] = began.what
    /\ job[d].open /\ job[d].changed /\ ~job[d].undone
    /\ pc[d] = "commit" => began.settled

AtRollback(d) ==
  pc[d] = "rollback" =>
    /\ job[d].open /\ ~began.settled => backup[d] = began.what
    /\ ~job[d].open /\ (job[d].changed => job[d].undone) =>
         /\ installed = began.what
         /\ platform = "linux" \/ job[d].littered \/ backup[d] = NoContents

AtCleanup(d) ==
  pc[d] = "cleanup" =>
    /\ job[d].result # "none"
    /\ job[d].result = "updated" => installed = New /\ backup[d] = NoContents
    /\ job[d].result = "rejected" => installed = began.what
    /\ job[d].result = "restored" => installed = began.what \/ began.away
    /\ job[d].result = "restored" => platform = "linux" \/ backup[d] = NoContents

\* After the connection broke there is only the roll-back and its report.
AtDrift(d) ==
  began.away => /\ pc[d] \in {"rollback", "cleanup", "idle"}
                /\ pc[d] = "cleanup" => job[d].result \in {"restored", "incomplete"}

Phases(d) ==
  /\ backup[d] \in {began.what, NoContents}
  /\ pc[d] # "idle" => plan[d].meta.version = began.target /\ outcome[d] = "none"
  /\ Before(d) /\ AtRun(d) /\ AtAwait(d) /\ Scripted(d)
  /\ AtVerify(d) /\ AtRollback(d) /\ AtCleanup(d) /\ AtDrift(d)

Consistent ==
  /\ \A d \in Desktops : Busy(d) => d = began.by
  /\ installed \in Mixed
  /\ \A d \in Desktops : d = began.by => Phases(d)
  /\ Recoverable
  /\ NothingLeft
=============================================================================
