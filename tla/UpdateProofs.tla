---------------------------- MODULE UpdateProofs ----------------------------
(***************************************************************************)
(* Proofs about Updates for every number of desktops and versions and for  *)
(* every choice of failures: types, the recoverability of an open update,  *)
(* and that updates implement UpdateTransaction. The last two hold for     *)
(* transactions that do not overlap, the last one for plans that are not   *)
(* stale and scripts that have ended when ssh returns as well.             *)
(***************************************************************************)
EXTENDS UpdateProperties, TLAPS

USE UpdateAssumption

\* No two contents of the Receiver are "no contents".
LEMMA ContentsAreThere == NoContents \notin Contents
  BY DEF Contents, NoContents, Versions

\* What a step may make of a command's memory.
LEMMA JobTyped ==
  ASSUME job \in [Desktops -> Job], NEW d \in Desktops,
         \/ job' = job
         \/ \E j \in Job : job' = [job EXCEPT ![d] = j]
         \/ job' = [job EXCEPT ![d].open = TRUE]
         \/ job' = [job EXCEPT ![d].changed = TRUE]
         \/ \E b \in BOOLEAN : job' = [job EXCEPT ![d].littered = b]
         \/ \E r \in Results : job' = [job EXCEPT ![d].result = r]
  PROVE  job' \in [Desktops -> Job]
<1>1. CASE \E j \in Job : job' = [job EXCEPT ![d] = j] BY <1>1
<1>2. CASE job' = [job EXCEPT ![d].open = TRUE] BY <1>2 DEF Job
<1>3. CASE job' = [job EXCEPT ![d].changed = TRUE] BY <1>3 DEF Job
<1>4. CASE \E b \in BOOLEAN : job' = [job EXCEPT ![d].littered = b]
  <2>1. PICK b \in BOOLEAN : job' = [job EXCEPT ![d].littered = b] BY <1>4
  <2> QED BY <2>1 DEF Job
<1>5. CASE \E r \in Results : job' = [job EXCEPT ![d].result = r]
  <2>1. PICK r \in Results : job' = [job EXCEPT ![d].result = r] BY <1>5
  <2> QED BY <2>1 DEF Job
<1> QED BY <1>1, <1>2, <1>3, <1>4, <1>5

\* What apply on Windows remembers without the name of the transaction
LEMMA UnnamedTyped ==
  ASSUME TypeOK, NEW d \in Desktops, NEW undone \in BOOLEAN, NEW gone \in BOOLEAN,
         NEW known \in BOOLEAN, Unnamed(d, undone, gone, known)
  PROVE  /\ job' \in [Desktops -> Job] /\ staged' \in SUBSET Desktops
         /\ job'[d].open = FALSE /\ job'[d].changed = TRUE /\ job'[d].undone = undone
<1> DEFINE j == [open |-> FALSE, changed |-> TRUE, undone |-> undone,
                 littered |-> ~(gone /\ known), result |-> "none"]
<1>1. (~(gone /\ known)) \in BOOLEAN OBVIOUS
<1>2. j \in Job BY <1>1 DEF Job, Results
<1>3. job' = [job EXCEPT ![d] = j] /\ job \in [Desktops -> Job] BY DEF Unnamed, TypeOK
<1>4. job'[d] = j BY <1>3
<1>5. staged' \in SUBSET Desktops BY DEF Unnamed, TypeOK
<1>6. job'[d].open = FALSE /\ job'[d].changed = TRUE /\ job'[d].undone = undone BY <1>4
<1> HIDE DEF j
<1> QED BY <1>2, <1>3, <1>5, <1>6, JobTyped

\* The initial states are well typed.
LEMMA InitTypeOK == Init => TypeOK
  BY DEF Init, TypeOK, Contents, NoContents, Job, NoJob, Results, Began, PCs, Versions

\* Planning and approving keep the types.
LEMMA PlanTypeOK ==
  ASSUME TypeOK, NEW d \in Desktops, Check(d) \/ Execute(d) \/ Fetch(d) \/ Finish(d) \/ Crash(d)
  PROVE  TypeOK'
<1>1. CASE Check(d)
  BY <1>1 DEF Check, TypeOK, receiver, Plan, Contents
<1>2. CASE Execute(d)
  <2>1. plan[d] \in Plan BY <1>2 DEF Execute, Approved, TypeOK, NoPlan
  <2>2. plan[d].meta.version \in Versions BY <2>1 DEF Plan, Metadata
  <2>3. NoJob \in Job BY DEF NoJob, Job, Results
  <2>4. began' \in Began BY <1>2, <2>2 DEF Execute, Approved, TypeOK, Began
  <2>5. pc' \in [Desktops -> PCs] BY <1>2 DEF Execute, Approved, TypeOK, Goto, PCs
  <2>6. backup' \in [Desktops -> Contents \cup {NoContents}] BY <1>2 DEF Execute, Approved, TypeOK
  <2>7. outcome' \in [Desktops -> Results \cup {"unclean"}] BY <1>2 DEF Execute, Approved, Results
  <2>8. \A e \in Desktops : pc'[e] # "idle" => plan'[e] \in Plan
    BY <1>2, <2>1 DEF Execute, Approved, TypeOK, Goto
  <2>9. /\ job' \in [Desktops -> Job] /\ staged' \in SUBSET Desktops
        /\ plan' \in [Desktops -> Plan \cup {NoPlan}]
    BY <1>2, <2>3 DEF Execute, Approved, TypeOK
  <2> QED BY <1>2, <2>4, <2>5, <2>6, <2>7, <2>8, <2>9 DEF Execute, Approved, TypeOK
<1>3. CASE Fetch(d)
  <2>1. job \in [Desktops -> Job] BY DEF TypeOK
  <2>2. job' \in [Desktops -> Job] BY <1>3, <2>1, JobTyped DEF Fetch, Results
  <2> QED BY <1>3, <2>2 DEF Fetch, TypeOK, Goto, PCs, receiver
<1>4. CASE Finish(d)
  <2>1. job[d].result \in Results BY DEF TypeOK, Job
  <2>2. outcome' \in [Desktops -> Results \cup {"unclean"}] BY <1>4, <2>1 DEF Finish, TypeOK
  <2>3. NoJob \in Job BY DEF NoJob, Job, Results
  <2> QED BY <1>4, <2>2, <2>3 DEF Finish, TypeOK, Goto, PCs, receiver
<1>5. CASE Crash(d)
  <2>1. NoJob \in Job BY DEF NoJob, Job, Results
  <2> QED BY <1>5, <2>1 DEF Crash, TypeOK, PCs, receiver
<1> QED BY <1>1, <1>2, <1>3, <1>4, <1>5

\* Installing keeps the types.
LEMMA InstallTypeOK ==
  ASSUME TypeOK, NEW d \in Desktops, Install(d)
  PROVE  TypeOK'
<1>1. ASSUME NEW next \in {"backup", "run"}, Stage(d, next) PROVE TypeOK'
  BY <1>1 DEF Stage, TypeOK, Goto, PCs
<1>2. ASSUME NEW from \in {"copy", "backup"}, NEW noticed \in BOOLEAN, GiveUp(d, from, noticed)
      PROVE  TypeOK'
  <2>0. job \in [Desktops -> Job] BY DEF TypeOK
  <2>1. job' \in [Desktops -> Job]
    <3>1. PICK gone \in BOOLEAN, heard \in BOOLEAN :
            job' = [job EXCEPT ![d].littered = noticed /\ ~(gone /\ heard)]
      BY <1>2 DEF GiveUp
    <3>2. (noticed /\ ~(gone /\ heard)) \in BOOLEAN OBVIOUS
    <3> QED BY <2>0, <3>1, <3>2, JobTyped
  <2>2. backup' \in [Desktops -> Contents \cup {NoContents}] BY <1>2 DEF GiveUp, TypeOK
  <2>3. staged' \in SUBSET Desktops BY <1>2 DEF GiveUp, TypeOK
  <2>4. /\ pc' \in [Desktops -> PCs]
        /\ \A e \in Desktops : pc'[e] # "idle" => plan'[e] \in Plan
    BY <1>2 DEF GiveUp, TypeOK, Goto, PCs
  <2> QED BY <1>2, <2>1, <2>2, <2>3, <2>4 DEF GiveUp, TypeOK
<1>3. CASE KeepBackup(d)
  <2>1. job \in [Desktops -> Job] BY DEF TypeOK
  <2>2. job' \in [Desktops -> Job] BY <1>3, <2>1, JobTyped DEF KeepBackup
  <2> QED BY <1>3, <2>2 DEF KeepBackup, TypeOK, Goto, PCs
<1>4. CASE RunScript(d)
  <2>1. plan[d].meta.version \in Versions BY <1>4 DEF RunScript, Goto, TypeOK, Plan, Metadata
  <2>0. job \in [Desktops -> Job] BY DEF TypeOK
  <2>2. job' \in [Desktops -> Job] BY <1>4, <2>0, JobTyped DEF RunScript
  <2>3. script' \in [Desktops -> Script \cup {NoScript}]
    BY <1>4, <2>1 DEF RunScript, TypeOK, Script
  <2>4. backup' \in [Desktops -> Contents \cup {NoContents}] BY <1>4 DEF RunScript, TypeOK
  <2>5. /\ pc' \in [Desktops -> PCs]
        /\ \A e \in Desktops : pc'[e] # "idle" => plan'[e] \in Plan
    BY <1>4 DEF RunScript, TypeOK, Goto, PCs
  <2> QED BY <1>4, <2>2, <2>3, <2>4, <2>5 DEF RunScript, TypeOK
<1>5. CASE PosixAnswer(d)
  BY <1>5 DEF PosixAnswer, TypeOK, Goto, PCs
<1>6. CASE WindowsAnswer(d)
  <2>1. job' \in [Desktops -> Job] /\ staged' \in SUBSET Desktops
    <3>1. job \in [Desktops -> Job] /\ staged \in SUBSET Desktops BY DEF TypeOK
    <3>2. CASE job' = [job EXCEPT ![d].open = TRUE] /\ UNCHANGED staged BY <3>1, <3>2, JobTyped
    <3>3. CASE ~(job' = [job EXCEPT ![d].open = TRUE] /\ UNCHANGED staged)
      <4>1. PICK heard \in BOOLEAN, gone \in BOOLEAN, known \in BOOLEAN :
              Unnamed(d, heard /\ script[d].at = "undone", gone, known)
        BY <1>6, <3>3 DEF WindowsAnswer
      <4>2. (heard /\ script[d].at = "undone") \in BOOLEAN OBVIOUS
      <4> QED BY <4>1, <4>2, UnnamedTyped
    <3> QED BY <3>2, <3>3
  <2>3. script' \in [Desktops -> Script \cup {NoScript}] BY <1>6 DEF WindowsAnswer, TypeOK
  <2>4. /\ pc' \in [Desktops -> PCs]
        /\ \A e \in Desktops : pc'[e] # "idle" => plan'[e] \in Plan
    BY <1>6 DEF WindowsAnswer, TypeOK, Goto, PCs
  <2> QED BY <1>6, <2>1, <2>3, <2>4 DEF WindowsAnswer, TypeOK
<1>7. CASE BreakAway(d)
  <2>1. job' \in [Desktops -> Job] /\ staged' \in SUBSET Desktops
    <3>1. CASE UNCHANGED <<staged, job>> BY <3>1 DEF TypeOK
    <3>2. CASE \E gone, known \in BOOLEAN : Unnamed(d, FALSE, gone, known)
      BY <3>2, UnnamedTyped
    <3> QED BY <1>7, <3>1, <3>2 DEF BreakAway
  <2>2. /\ pc' \in [Desktops -> PCs]
        /\ \A e \in Desktops : pc'[e] # "idle" => plan'[e] \in Plan
    BY <1>7 DEF BreakAway, TypeOK, Goto, PCs
  <2>3. began' \in Began BY <1>7 DEF BreakAway, TypeOK, Began
  <2> QED BY <1>7, <2>1, <2>2, <2>3 DEF BreakAway, TypeOK
<1> QED BY <1>1, <1>2, <1>3, <1>4, <1>5, <1>6, <1>7
        DEF Install, LinuxApply, MacApply, WindowsApply

\* The setup script keeps the types.
LEMMA ScriptTypeOK ==
  ASSUME TypeOK, NEW d \in Desktops, ScriptStep(d)
  PROVE  TypeOK'
<1> USE DEF receiver, desktop
<1>1. CASE InstallHelper(d)
  <2>1. script[d] \in Script BY <1>1 DEF InstallHelper, TypeOK, NoScript
  <2>2. installed' \in Contents BY <1>1, <2>1 DEF InstallHelper, TypeOK, Script, Contents
  <2>3. script' \in [Desktops -> Script \cup {NoScript}]
    BY <1>1, <2>1 DEF InstallHelper, TypeOK, Script
  <2> QED BY <1>1, <2>2, <2>3 DEF InstallHelper, TypeOK
<1>2. CASE WriteKeys(d)
  <2>1. script[d] \in Script BY <1>2 DEF WriteKeys, TypeOK, NoScript
  <2>2. installed' \in Contents BY <1>2, <2>1 DEF WriteKeys, TypeOK, Contents
  <2>3. script' \in [Desktops -> Script \cup {NoScript}]
    BY <1>2, <2>1 DEF WriteKeys, TypeOK, Script
  <2> QED BY <1>2, <2>2, <2>3 DEF WriteKeys, TypeOK
<1>3. CASE ConfirmSetup(d)
  <2>1. script[d] \in Script BY <1>3 DEF ConfirmSetup, TypeOK, NoScript
  <2>2. script' \in [Desktops -> Script \cup {NoScript}]
    BY <1>3, <2>1 DEF ConfirmSetup, TypeOK, Script, Ended
  <2> QED BY <1>3, <2>2 DEF ConfirmSetup, TypeOK
<1>4. CASE UndoSetup(d)
  <2>1. script[d] \in Script BY <1>4 DEF UndoSetup, Running, TypeOK, NoScript
  <2>2. script[d].found \in Contents BY <2>1 DEF Script
  <2>3. installed' \in Contents BY <1>4, <2>2 DEF UndoSetup, PartOf, TypeOK, Contents
  <2>4. script' \in [Desktops -> Script \cup {NoScript}]
    BY <1>4, <2>1 DEF UndoSetup, TypeOK, Script, Ended
  <2>5. began' \in Began BY <1>4 DEF UndoSetup, Settle, TypeOK, Began
  <2>6. backup' \in [Desktops -> Contents \cup {NoContents}] BY <1>4 DEF UndoSetup, TypeOK
  <2> QED BY <1>4, <2>3, <2>4, <2>5, <2>6 DEF UndoSetup, TypeOK
<1>5. CASE EndUnheard(d)
  BY <1>5 DEF EndUnheard, TypeOK
<1> QED BY <1>1, <1>2, <1>3, <1>4, <1>5 DEF ScriptStep

\* Verifying, committing and rolling back keep the types.
LEMMA EndTypeOK ==
  ASSUME TypeOK, NEW d \in Desktops, Verify(d) \/ Commit(d) \/ Rollback(d)
  PROVE  TypeOK'
<1>1. CASE Verify(d)
  <2>1. began' \in Began BY <1>1 DEF Verify, Settle, TypeOK, Began
  <2> QED BY <1>1, <2>1 DEF Verify, TypeOK, Goto, PCs, receiver
<1>2. CASE LinuxCommit(d)
  <2>0. job \in [Desktops -> Job] BY DEF TypeOK
  <2>1. job' \in [Desktops -> Job]
    BY <1>2, <2>0, JobTyped DEF LinuxCommit, Committed, Results
  <2>2. /\ pc' \in [Desktops -> PCs]
        /\ \A e \in Desktops : pc'[e] # "idle" => plan'[e] \in Plan
    BY <1>2 DEF LinuxCommit, Committed, TypeOK, Goto, PCs
  <2>3. staged' \in SUBSET Desktops BY <1>2 DEF LinuxCommit, TypeOK
  <2>4. backup' \in [Desktops -> Contents \cup {NoContents}] BY <1>2 DEF LinuxCommit, TypeOK
  <2> QED BY <1>2, <2>1, <2>2, <2>3, <2>4 DEF LinuxCommit, TypeOK
<1>3. CASE WindowsCommit(d)
  <2>1. job' \in [Desktops -> Job]
    <3>1. [open |-> FALSE, changed |-> TRUE, undone |-> FALSE, littered |-> TRUE,
           result |-> "none"] \in Job
      BY DEF Job, Results
    <3>2. job \in [Desktops -> Job] BY DEF TypeOK
    <3> QED BY <1>3, <3>1, <3>2, JobTyped DEF WindowsCommit, Committed, Results
  <2>2. /\ pc' \in [Desktops -> PCs]
        /\ \A e \in Desktops : pc'[e] # "idle" => plan'[e] \in Plan
    BY <1>3 DEF WindowsCommit, Committed, TypeOK, Goto, PCs
  <2>3. staged' \in SUBSET Desktops BY <1>3 DEF WindowsCommit, TypeOK
  <2>4. backup' \in [Desktops -> Contents \cup {NoContents}] BY <1>3 DEF WindowsCommit, TypeOK
  <2> QED BY <1>3, <2>1, <2>2, <2>3, <2>4 DEF WindowsCommit, TypeOK
<1>4. ASSUME NEW complete \in BOOLEAN, RolledBack(d, complete)
      PROVE  /\ job' \in [Desktops -> Job] /\ pc' \in [Desktops -> PCs]
             /\ \A e \in Desktops : pc'[e] # "idle" => plan'[e] \in Plan
             /\ UNCHANGED <<platform, script, plan, outcome>>
  <2>1. (IF complete THEN "restored" ELSE "incomplete") \in Results BY DEF Results
  <2>0. job \in [Desktops -> Job] BY DEF TypeOK
  <2>3. [NoJob EXCEPT !.result = IF complete THEN "restored" ELSE "incomplete"] \in Job
    BY <2>1 DEF NoJob, Job
  <2>2. job' \in [Desktops -> Job] BY <1>4, <2>0, <2>3, JobTyped DEF RolledBack
  <2> QED BY <1>4, <2>2 DEF RolledBack, TypeOK, Goto, PCs
<1>5. ASSUME NEW littered \in BOOLEAN, ReportOnly(d, littered) PROVE TypeOK'
  <2>1. (~littered /\ (job[d].changed => job[d].undone)) \in BOOLEAN BY DEF TypeOK, Job
  <2> QED BY <1>4, <1>5, <2>1 DEF ReportOnly, TypeOK
<1>6. ASSUME Restore(d) \/ WindowsRestore(d) PROVE TypeOK'
  <2>1. installed' \in Contents
    <3>1. CASE backup[d] = NoContents
      BY <1>6, <3>1 DEF Restore, WindowsRestore, TypeOK
    <3>2. CASE backup[d] \in Contents /\ backup[d] # NoContents
      <4>1. installed' = backup[d] \/ installed' \in PartOf(backup[d])
        BY <1>6, <3>2 DEF Restore, WindowsRestore
      <4>2. installed \in Contents BY DEF TypeOK
      <4>3. PartOf(backup[d]) \subseteq Contents BY <3>2, <4>2 DEF PartOf, Contents
      <4> QED BY <3>2, <4>1, <4>3
    <3> QED BY <3>1, <3>2 DEF TypeOK
  <2>2. began' \in Began BY <1>6 DEF Restore, WindowsRestore, Settle, TypeOK, Began
  <2>3. RolledBack(d, TRUE) \/ RolledBack(d, FALSE) BY <1>6 DEF Restore, WindowsRestore
  <2>4. staged' \in SUBSET Desktops BY <1>6 DEF Restore, WindowsRestore, TypeOK
  <2>5. backup' \in [Desktops -> Contents \cup {NoContents}]
    BY <1>6 DEF Restore, WindowsRestore, TypeOK
  <2> QED BY <1>4, <2>1, <2>2, <2>3, <2>4, <2>5 DEF TypeOK
<1>7. job[d].littered \in BOOLEAN BY DEF TypeOK, Job
<1> QED BY <1>1, <1>2, <1>3, <1>5, <1>6, <1>7
        DEF Commit, Rollback, LinuxRollback, MacRollback, WindowsRollback

\* Types are kept by every step: updates.check and updates.apply, the setup
\* script, and the death of a command.
THEOREM UpdateTypes == Spec => []TypeOK
<1>1. TypeOK /\ [Next]_vars => TypeOK'
  <2> SUFFICES ASSUME TypeOK, [Next]_vars PROVE TypeOK' OBVIOUS
  <2>1. CASE Next
    BY <2>1, PlanTypeOK, InstallTypeOK, ScriptTypeOK, EndTypeOK DEF Next, DesktopStep
  <2>2. CASE UNCHANGED vars BY <2>2 DEF vars, receiver, desktop, TypeOK
  <2> QED BY <2>1, <2>2
<1> QED BY <1>1, InitTypeOK, PTL DEF Spec

-----------------------------------------------------------------------------
(* Transactions that do not overlap                                        *)

\* What is known of the Receiver and of the desktop whose transaction is the
\* latest
Kept(d) == Phases(d) /\ installed \in Mixed /\ Recoverable /\ Cleaned(d)

\* Fetching, staging and keeping backups change nothing that is installed, and
\* the backups are complete before setup starts.
LEMMA InstallKeeps ==
  ASSUME TypeOK, NEW d \in Desktops, d = began.by, Kept(d), Fetch(d) \/ Install(d)
  PROVE  Kept(d)' /\ began'.by = d
<1> USE DEF Kept, Phases, Mixed, Recoverable, Cleaned, Before, AtRun, AtAwait, Scripted, AtVerify,
            AtRollback, AtCleanup, AtDrift, New, Adrift
<1>0. /\ pc \in [Desktops -> PCs] /\ job \in [Desktops -> Job]
      /\ backup \in [Desktops -> Contents \cup {NoContents}]
      /\ script \in [Desktops -> Script \cup {NoScript}]
  BY DEF TypeOK
<1>1. CASE Fetch(d)
  <2>1. pc[d] = "fetch" /\ pc'[d] \in {"create", "cleanup"} BY <1>0, <1>1 DEF Fetch, Goto
  <2>2. pc'[d] = "create" => job'[d] = NoJob BY <1>0, <1>1, <2>1 DEF Fetch, Goto
  <2>3. pc'[d] = "cleanup" => job'[d].result = "rejected" BY <1>0, <1>1, <2>1 DEF Fetch, Goto, Job
  <2> QED BY <1>1, <2>1, <2>2, <2>3 DEF Fetch, receiver
<1>2. ASSUME NEW next \in {"backup", "run"}, Stage(d, next), next = "run" => platform = "windows"
      PROVE  Kept(d)' /\ began'.by = d
  <2>1. pc[d] \in {"create", "copy"} /\ pc'[d] \in {"copy", "backup", "run", "rollback"}
    BY <1>0, <1>2 DEF Stage, Goto
  <2>2. pc'[d] = "run" => platform = "windows" BY <1>0, <1>2 DEF Stage, Goto
  <2>3. job[d] = NoJob BY <2>1
  <2> QED BY <1>2, <2>1, <2>2, <2>3 DEF Stage, NoJob
<1>3. ASSUME NEW from \in {"copy", "backup"}, NEW noticed \in BOOLEAN, GiveUp(d, from, noticed),
             noticed = (platform # "linux")
      PROVE  Kept(d)' /\ began'.by = d
  <2>1. pc[d] = from /\ pc'[d] = "rollback" BY <1>0, <1>3 DEF GiveUp, Goto
  <2>2. job[d] = NoJob /\ installed = began.what /\ backup[d] = NoContents BY <2>1
  <2>3. PICK gone \in BOOLEAN, heard \in BOOLEAN :
          /\ backup' \in IF gone \/ from = "copy" THEN {backup}
                         ELSE {backup, [backup EXCEPT ![d] = installed]}
          /\ job' = [job EXCEPT ![d].littered = noticed /\ ~(gone /\ heard)]
    BY <1>3 DEF GiveUp
  <2>4. ~job'[d].open /\ ~job'[d].changed /\ job'[d].littered = (noticed /\ ~(gone /\ heard))
    BY <1>0, <2>2, <2>3 DEF NoJob, Job
  <2>5. backup'[d] \in {NoContents, began.what} /\ (gone => backup'[d] = NoContents)
    BY <1>0, <2>2, <2>3
  <2> QED BY <1>3, <2>1, <2>2, <2>4, <2>5 DEF GiveUp
<1>4. CASE KeepBackup(d) /\ platform # "windows"
  <2>1. pc[d] = "backup" /\ pc'[d] = "run" /\ backup'[d] = installed
    BY <1>0, <1>4 DEF KeepBackup, Goto
  <2>2. job[d] = NoJob BY <2>1
  <2>3. job'[d].open /\ ~job'[d].changed /\ ~job'[d].undone /\ ~job'[d].littered
    BY <1>0, <1>4, <2>2 DEF KeepBackup, Job, NoJob
  <2> QED BY <1>4, <2>1, <2>3 DEF KeepBackup
<1>5. CASE RunScript(d)
  <2>1. pc[d] = "run" /\ pc'[d] = "await" BY <1>0, <1>5 DEF RunScript, Goto
  <2>2. script'[d] = [at |-> "begun", version |-> plan[d].meta.version, found |-> installed]
    BY <1>0, <1>5 DEF RunScript
  <2>3. /\ job'[d].changed /\ job'[d].open = job[d].open
        /\ ~job'[d].undone /\ ~job'[d].littered
    BY <1>0, <1>5, <2>1 DEF RunScript, Job
  <2>4. backup'[d] = began.what BY <1>0, <1>5, <2>1 DEF RunScript
  <2>5. script'[d] # NoScript /\ script'[d].at = "begun"
        /\ script'[d].version = began.target /\ script'[d].found = began.what
    BY <2>1, <2>2 DEF NoScript
  <2>6. job'[d].open = (platform' # "windows")
    BY <1>0, <1>5, <2>1, <2>3 DEF RunScript, Job
  <2> HIDE DEF AtAwait, Scripted
  <2>9. ~began'.settled BY <1>5, <2>1 DEF RunScript
  <2>7. AtAwait(d)' BY <2>3, <2>5, <2>6, <2>9 DEF AtAwait
  <2>8. Scripted(d)' BY <1>5, <2>1, <2>4, <2>5 DEF RunScript, Scripted
  <2> QED BY <1>5, <2>1, <2>4, <2>7, <2>8 DEF RunScript
<1>6. CASE PosixAnswer(d) /\ platform # "windows"
  <2>1. pc[d] = "await" /\ pc'[d] \in {"verify", "rollback"} BY <1>0, <1>6 DEF PosixAnswer, Goto
  <2>2. pc'[d] = "verify" => script[d].at = "done" BY <1>0, <1>6 DEF PosixAnswer, Goto
  <2>3. script'[d] = NoScript BY <1>0, <1>6 DEF PosixAnswer
  <2> QED BY <1>6, <2>1, <2>2, <2>3 DEF PosixAnswer
<1>7. CASE WindowsAnswer(d) /\ platform = "windows"
  <2>1. pc[d] = "await" /\ pc'[d] \in {"verify", "rollback"} BY <1>0, <1>7 DEF WindowsAnswer, Goto
  <2>2. pc'[d] = "verify" => script[d].at = "done" /\ job'[d].open /\ job'[d].changed /\ ~job'[d].undone
    <3>1. job[d].changed /\ ~job[d].undone /\ job[d] \in Job BY <1>0, <2>1
    <3>2. pc'[d] = "verify" => script[d].at = "done" /\ job' = [job EXCEPT ![d].open = TRUE]
      BY <1>0, <1>7 DEF WindowsAnswer, Goto
    <3> QED BY <1>0, <3>1, <3>2 DEF Job
  <2>3. pc'[d] = "rollback" =>
          ~job'[d].open /\ job'[d].changed /\ (job'[d].undone => script[d].at = "undone")
    <3>1. SUFFICES ASSUME pc'[d] = "rollback"
                   PROVE  ~job'[d].open /\ job'[d].changed /\ (job'[d].undone => script[d].at = "undone")
      OBVIOUS
    <3>2. PICK heard \in BOOLEAN, gone \in BOOLEAN, known \in BOOLEAN :
            Unnamed(d, heard /\ script[d].at = "undone", gone, known)
      BY <1>0, <1>7, <3>1 DEF WindowsAnswer, Goto
    <3>3. (heard /\ script[d].at = "undone") \in BOOLEAN OBVIOUS
    <3> QED BY <3>2, <3>3, UnnamedTyped
  <2>4. script'[d] = NoScript BY <1>0, <1>7 DEF WindowsAnswer
  <2> QED BY <1>7, <2>1, <2>2, <2>3, <2>4 DEF WindowsAnswer
<1>8. CASE BreakAway(d)
  <2>1. pc[d] = "await" /\ pc'[d] = "rollback" BY <1>0, <1>8 DEF BreakAway, Goto
  <2>2. job'[d].changed /\ ~job'[d].undone /\ job'[d].open = (platform # "windows")
    <3>1. CASE UNCHANGED <<staged, job>> /\ platform # "windows" BY <2>1, <3>1
    <3>2. CASE platform = "windows" /\ \E gone, known \in BOOLEAN : Unnamed(d, FALSE, gone, known)
      BY <3>2, UnnamedTyped
    <3> QED BY <1>8, <3>1, <3>2 DEF BreakAway
  <2>3. Running(d) BY <1>8 DEF BreakAway
  <2>4. ~began.settled /\ backup[d] = began.what BY <2>1, <2>3 DEF Running
  <2>5. /\ UNCHANGED <<platform, installed, backup, script, plan, outcome>>
        /\ began'.by = began.by /\ began'.what = began.what /\ began'.target = began.target
        /\ began'.settled = began.settled /\ began'.away
    BY <1>8 DEF BreakAway, TypeOK, Began
  <2>6. Scripted(d)'
    <3> HIDE DEF AtAwait, AtRun, Before, AtVerify, AtRollback, AtCleanup, AtDrift, Recoverable
    <3> QED BY <2>1, <2>2, <2>3, <2>5
  <2> HIDE DEF Scripted
  <2> QED BY <2>1, <2>2, <2>4, <2>5, <2>6
<1> QED BY <1>1, <1>2, <1>3, <1>4, <1>5, <1>6, <1>7, <1>8
        DEF Install, LinuxApply, MacApply, WindowsApply

\* The setup script changes the helper, then the keys; what its own roll-back
\* leaves behind is either exactly what it found or known to be settled.
LEMMA ScriptKeeps ==
  ASSUME TypeOK, NEW d \in Desktops, d = began.by, Kept(d), ScriptStep(d)
  PROVE  Kept(d)' /\ began'.by = d
<1> USE DEF Kept, Phases, Mixed, Recoverable, Cleaned, Before, AtRun, AtAwait, Scripted, AtVerify,
            AtRollback, AtCleanup, AtDrift, New, Adrift, desktop
<1>0. /\ pc \in [Desktops -> PCs] /\ job \in [Desktops -> Job]
      /\ backup \in [Desktops -> Contents \cup {NoContents}]
      /\ script \in [Desktops -> Script \cup {NoScript}]
      /\ began \in Began
  BY DEF TypeOK
<1>1. script[d] # NoScript BY DEF ScriptStep, InstallHelper, WriteKeys, ConfirmSetup, UndoSetup,
                                  EndUnheard, Running, Ended, NoScript
<1>2. pc[d] \in {"idle", "await"} \/ Adrift(d) BY <1>1
<1>3. installed \in Contents BY DEF TypeOK
<1>4. CASE InstallHelper(d)
  <2>1. /\ installed' = [helper |-> began.target, keys |-> installed.keys]
        /\ ~began.settled => installed = began.what
    BY <1>0, <1>1, <1>3, <1>4 DEF InstallHelper, Contents
  <2>2. script'[d] # NoScript /\ script'[d].at = "helper" /\ script'[d].version = script[d].version
        /\ script'[d].found = script[d].found
    BY <1>0, <1>1, <1>4 DEF InstallHelper, NoScript, Script
  <2> QED BY <1>1, <1>2, <1>4, <2>1, <2>2 DEF InstallHelper
<1>5. CASE WriteKeys(d)
  <2>1. /\ installed' = [helper |-> installed.helper, keys |-> d]
        /\ ~began.settled => installed.helper = began.target
    BY <1>0, <1>1, <1>3, <1>5 DEF WriteKeys, Contents
  <2>2. script'[d] # NoScript /\ script'[d].at = "keys" /\ script'[d].version = script[d].version
        /\ script'[d].found = script[d].found
    BY <1>0, <1>1, <1>5 DEF WriteKeys, NoScript, Script
  <2> QED BY <1>1, <1>2, <1>5, <2>1, <2>2 DEF WriteKeys
<1>6. CASE ConfirmSetup(d)
  <2>2. script'[d] # NoScript /\ script'[d].at = "done" /\ script'[d].version = script[d].version
        /\ script'[d].found = script[d].found
    BY <1>0, <1>1, <1>6 DEF ConfirmSetup, NoScript, Script
  <2> QED BY <1>1, <1>2, <1>6, <2>2 DEF ConfirmSetup
<1>7. CASE UndoSetup(d)
  <2>1. /\ script'[d] # NoScript /\ script'[d].at \in {"undone", "partly"}
        /\ script'[d].version = script[d].version /\ script'[d].found = script[d].found
        /\ script'[d].at = "undone" => installed' = began.what
    BY <1>0, <1>1, <1>7 DEF UndoSetup, NoScript, Script
  <2>2. /\ script'[d].at = "partly" => began'.settled
        /\ script'[d].at = "undone" => began' = began
    BY <1>0, <1>1, <1>7, <2>1 DEF UndoSetup, Settle, Script, Began
  <2>3. /\ began'.by = d /\ began'.what = began.what /\ began'.target = began.target
        /\ began.settled => began'.settled
        /\ began'.away = began.away
    BY <1>0, <1>7 DEF UndoSetup, Settle, Began
  <2>4. backup'[d] = IF platform = "windows" THEN NoContents ELSE backup[d]
    BY <1>0, <1>7 DEF UndoSetup
  <2>5. (installed \in Mixed)'
    <3>1. script[d].found = began.what /\ began.what \in Contents BY <1>0, <1>1 DEF Began
    <3>2. /\ installed.helper \in {began.what.helper, began.target}
          /\ installed.keys \in {began.what.keys, began.by}
      OBVIOUS
    <3>3. PartOf(began.what) \subseteq Mixed BY <3>2 DEF PartOf
    <3>4. began.what \in Mixed BY <3>1 DEF Contents
    <3>5. installed' \in Mixed BY <1>7, <3>1, <3>3, <3>4 DEF UndoSetup
    <3> QED BY <2>3, <3>5
  <2>6. UNCHANGED <<platform, pc, job, plan, outcome>> BY <1>7 DEF UndoSetup
  <2>7. script[d].at \in {"begun", "helper", "keys"} BY <1>7 DEF UndoSetup, Running
  <2>8. Scripted(d)' BY <1>1, <1>2, <2>1, <2>2, <2>3, <2>4, <2>6, <2>7
  <2>9. Recoverable' BY <2>1, <2>2, <2>3
  <2>10. AtAwait(d)' BY <1>1, <2>1, <2>2, <2>6, <2>7
  <2>11. AtRollback(d)' /\ AtCleanup(d)' /\ AtDrift(d)' BY <1>1, <1>2, <2>3, <2>4, <2>6
  <2>12. Before(d)' /\ AtRun(d)' /\ AtVerify(d)' BY <1>1, <1>2, <2>6
  <2>13. Cleaned(d)' BY <2>3, <2>4, <2>6
  <2> HIDE DEF Scripted, Recoverable, AtAwait, AtRollback, AtCleanup, AtDrift, Before, AtRun, AtVerify, Cleaned
  <2> QED BY <1>0, <2>3, <2>4, <2>5, <2>6, <2>8, <2>9, <2>10, <2>11, <2>12, <2>13
<1>8. CASE EndUnheard(d)
  <2>1. script'[d] = NoScript BY <1>0, <1>8 DEF EndUnheard
  <2> QED BY <1>8, <2>1 DEF EndUnheard
<1> QED BY <1>4, <1>5, <1>6, <1>7, <1>8 DEF ScriptStep

\* A verified update is settled with its backups in place, and a restore that
\* is said to be complete has put back exactly what was there.
LEMMA EndKeeps ==
  ASSUME TypeOK, NEW d \in Desktops, d = began.by, Kept(d), Verify(d) \/ Commit(d) \/ Rollback(d)
  PROVE  Kept(d)' /\ began'.by = d
<1> USE DEF Kept, Phases, Mixed, Recoverable, Cleaned, Before, AtRun, AtAwait, Scripted, AtVerify,
            AtRollback, AtCleanup, AtDrift, New, Adrift
<1>0. /\ pc \in [Desktops -> PCs] /\ job \in [Desktops -> Job]
      /\ backup \in [Desktops -> Contents \cup {NoContents}]
      /\ script \in [Desktops -> Script \cup {NoScript}]
      /\ began \in Began /\ installed \in Contents
  BY DEF TypeOK
<1>1. began.what \in Contents /\ NoContents \notin Contents BY <1>0, ContentsAreThere DEF Began
<1>2. CASE Verify(d)
  <2>1. pc[d] = "verify" /\ pc'[d] \in {"commit", "rollback"} BY <1>0, <1>2 DEF Verify, Goto
  <2>2. /\ began'.by = d /\ began'.what = began.what /\ began'.target = began.target
        /\ began.settled => began'.settled
        /\ pc'[d] = "commit" => began'.settled
        /\ began'.away = began.away
    BY <1>0, <1>2 DEF Verify, Settle, Began, Goto
  <2> QED BY <1>2, <2>1, <2>2 DEF Verify, receiver
<1>3. CASE LinuxCommit(d)
  <2>1. pc[d] = "commit" /\ pc'[d] \in {"cleanup", "rollback"}
    BY <1>0, <1>3 DEF LinuxCommit, Committed, Goto
  <2>2. pc'[d] = "cleanup" => job'[d].result = "updated" /\ backup'[d] = NoContents
    BY <1>0, <1>3, <2>1 DEF LinuxCommit, Committed, Goto, Job
  <2>3. pc'[d] = "rollback" => job' = job /\ backup'[d] \in {backup[d], NoContents}
    BY <1>0, <1>3, <2>1 DEF LinuxCommit, Committed, Goto
  <2> QED BY <1>3, <2>1, <2>2, <2>3 DEF LinuxCommit
<1>4. CASE WindowsCommit(d)
  <2>1. pc[d] = "commit" /\ pc'[d] \in {"cleanup", "rollback"}
    BY <1>0, <1>4 DEF WindowsCommit, Committed, Goto
  <2>2. pc'[d] = "cleanup" => job'[d].result = "updated" /\ backup'[d] = NoContents
    BY <1>0, <1>4, <2>1 DEF WindowsCommit, Committed, Goto, Job
  <2>3. pc'[d] = "rollback" =>
          /\ \/ job' = job
             \/ ~job'[d].open /\ job'[d].changed /\ ~job'[d].undone
          /\ backup'[d] \in {backup[d], NoContents}
    BY <1>0, <1>4, <2>1 DEF WindowsCommit, Committed, Goto
  <2> QED BY <1>4, <2>1, <2>2, <2>3 DEF WindowsCommit
<1>5. ASSUME NEW complete \in BOOLEAN, RolledBack(d, complete)
      PROVE  /\ pc[d] = "rollback" /\ pc'[d] = "cleanup"
             /\ job'[d].result = IF complete THEN "restored" ELSE "incomplete"
             /\ UNCHANGED <<platform, script, plan, outcome>>
  BY <1>0, <1>5 DEF RolledBack, Goto, NoJob
<1>6. ASSUME NEW littered \in BOOLEAN, ReportOnly(d, littered), littered = (platform # "linux" /\ job[d].littered)
      PROVE  Kept(d)' /\ began'.by = d
  <2>1. ~job[d].open /\ RolledBack(d, ~littered /\ (job[d].changed => job[d].undone))
        /\ UNCHANGED <<installed, staged, backup, began>>
    BY <1>6 DEF ReportOnly
  <2>2. (~littered /\ (job[d].changed => job[d].undone)) \in BOOLEAN BY <1>0 DEF Job
  <2>3. /\ pc[d] = "rollback" /\ pc'[d] = "cleanup" /\ UNCHANGED <<platform, script, plan, outcome>>
        /\ job'[d].result = IF ~littered /\ (job[d].changed => job[d].undone)
                            THEN "restored" ELSE "incomplete"
    BY <1>5, <2>1, <2>2
  <2> QED BY <1>6, <2>1, <2>3
<1>7. ASSUME Restore(d) \/ WindowsRestore(d) PROVE Kept(d)' /\ began'.by = d
  <2>1. /\ began'.by = d /\ began'.what = began.what /\ began'.target = began.target
        /\ began'.settled /\ began'.away = began.away
    BY <1>0, <1>7 DEF Restore, WindowsRestore, Settle, Began
  <2>2. \E complete \in BOOLEAN :
          /\ RolledBack(d, complete)
          /\ complete => installed' = began.what /\ backup'[d] = NoContents
    BY <1>0, <1>7 DEF Restore, WindowsRestore
  <2>3. /\ pc[d] = "rollback" /\ pc'[d] = "cleanup" /\ UNCHANGED <<platform, script, plan, outcome>>
        /\ job'[d].result \in {"restored", "incomplete"}
        /\ job'[d].result = "restored" => installed' = began.what /\ backup'[d] = NoContents
    BY <1>5, <2>2
  <2>4. backup'[d] \in {began.what, NoContents} BY <1>0, <1>7 DEF Restore, WindowsRestore
  <2>5. (installed \in Mixed)'
    <3>1. /\ installed.helper \in {began.what.helper, began.target}
          /\ installed.keys \in {began.what.keys, began.by}
      OBVIOUS
    <3>2. PartOf(began.what) \subseteq Mixed BY <3>1 DEF PartOf
    <3>3. began.what \in Mixed BY <1>1 DEF Contents
    <3>4. installed' \in {began.what, installed} \cup PartOf(began.what)
      BY <1>7 DEF Restore, WindowsRestore
    <3> QED BY <2>1, <3>2, <3>3, <3>4
  <2>6. script[d] # NoScript => began.away BY <2>3
  <2>7. Scripted(d)'
    <3>1. job[d].open BY <1>7 DEF Restore, WindowsRestore
    <3>2. script[d] # NoScript => platform # "windows" BY <2>3, <3>1
    <3> QED BY <2>1, <2>3, <2>4, <2>6, <3>2
  <2> HIDE DEF Scripted
  <2> QED BY <2>1, <2>3, <2>4, <2>5, <2>7
<1>8. job[d].littered \in BOOLEAN BY <1>0 DEF Job
<1> QED BY <1>2, <1>3, <1>4, <1>6, <1>7, <1>8
        DEF Commit, Rollback, LinuxRollback, MacRollback, WindowsRollback

\* Telling the user and dying change nothing on the Receiver.
LEMMA LeavingKeeps ==
  ASSUME TypeOK, NEW d \in Desktops, d = began.by, Kept(d), Finish(d) \/ Crash(d)
  PROVE  Kept(d)' /\ began'.by = d
<1> USE DEF Kept, Phases, Mixed, Recoverable, Cleaned, Before, AtRun, AtAwait, Scripted, AtVerify,
            AtRollback, AtCleanup, AtDrift, New, Adrift, receiver
<1>0. /\ pc \in [Desktops -> PCs] /\ job \in [Desktops -> Job]
      /\ outcome \in [Desktops -> Results \cup {"unclean"}]
  BY DEF TypeOK
<1>1. CASE Finish(d)
  <2>1. pc[d] = "cleanup" /\ pc'[d] = "idle" BY <1>0, <1>1 DEF Finish, Goto
  <2>2. \/ outcome'[d] = job[d].result
        \/ outcome'[d] = "unclean" /\ job[d].result = "updated"
    BY <1>0, <1>1 DEF Finish
  <2>3. UNCHANGED <<platform, installed, script, backup, began>> BY <1>1 DEF Finish
  <2>4. Cleaned(d)'
    <3>1. AtCleanup(d) /\ UNCHANGED <<platform, backup>> BY <1>1 DEF Finish
    <3>2. CASE job[d].result = "updated"
      <4>1. backup'[d] = NoContents BY <2>1, <3>1, <3>2
      <4> QED BY <4>1
    <3>3. CASE outcome'[d] = job[d].result
      <4>1. CASE outcome'[d] = "restored" /\ platform = "linux" BY <3>1, <4>1
      <4>2. CASE outcome'[d] = "restored" /\ platform # "linux"
        <5>1. backup'[d] = NoContents BY <2>1, <3>1, <3>3, <4>2
        <5> QED BY <5>1
      <4>3. CASE outcome'[d] \notin {"updated", "unclean", "restored"} BY <4>3
      <4>4. CASE outcome'[d] = "unclean" BY <1>0, <3>3, <4>4 DEF Job, Results
      <4> QED BY <3>2, <3>3, <4>1, <4>2, <4>3, <4>4
    <3> QED BY <2>2, <3>2, <3>3
  <2>5. Scripted(d)' BY <2>1, <2>3
  <2> HIDE DEF Scripted, Cleaned
  <2> QED BY <2>1, <2>3, <2>4, <2>5
<1>2. CASE Crash(d)
  <2>1. pc[d] # "idle" /\ pc'[d] = "idle" BY <1>0, <1>2 DEF Crash
  <2> QED BY <1>2, <2>1 DEF Crash
<1> QED BY <1>1, <1>2

\* Only the desktop of the latest transaction, or the script it has left, is at
\* work, and Consistent is kept.
LEMMA StepConsistent ==
  ASSUME "overlap" \notin Happens, TypeOK, Consistent, [Next]_vars
  PROVE  Consistent'
<1>1. ASSUME NEW d \in Desktops, d = began.by, began'.by = d, Kept(d)',
             \A e \in Desktops \ {d} : pc'[e] = pc[e] /\ script'[e] = script[e]
      PROVE  Consistent'
  BY <1>1 DEF Consistent, Kept, Busy, NothingLeft, Cleaned
<1>2. ASSUME NEW d \in Desktops, DesktopStep(d) \/ ScriptStep(d) \/ Crash(d)
      PROVE  Consistent'
  <2>1. Busy(d)
    <3>1. CASE DesktopStep(d) \/ Crash(d)
      BY <3>1 DEF Busy, DesktopStep, Fetch, Install, LinuxApply, MacApply, WindowsApply, Stage, GiveUp,
                  KeepBackup, RunScript, PosixAnswer, WindowsAnswer, BreakAway, Verify, Commit,
                  LinuxCommit, WindowsCommit, Committed, Rollback, LinuxRollback, MacRollback,
                  WindowsRollback, ReportOnly, Restore, WindowsRestore, RolledBack, Finish, Crash, Goto
    <3>2. CASE ScriptStep(d)
      BY <3>2 DEF Busy, ScriptStep, InstallHelper, WriteKeys, ConfirmSetup, UndoSetup, EndUnheard,
                  Running, Ended, NoScript
    <3> QED BY <1>2, <3>1, <3>2
  <2>2. d = began.by /\ Kept(d) BY <2>1 DEF Consistent, Kept, NothingLeft
  <2>3. Kept(d)' /\ began'.by = d
    BY <1>2, <2>2, InstallKeeps, ScriptKeeps, EndKeeps, LeavingKeeps DEF DesktopStep
  <2>4. \A e \in Desktops \ {d} : pc'[e] = pc[e] /\ script'[e] = script[e]
    BY <1>2 DEF TypeOK, DesktopStep, Fetch, Install, LinuxApply, MacApply, WindowsApply, Stage, GiveUp,
                KeepBackup, RunScript, PosixAnswer, WindowsAnswer, BreakAway, Verify, Commit, LinuxCommit,
                WindowsCommit, Committed, Rollback, LinuxRollback, MacRollback, WindowsRollback,
                ReportOnly, Restore, WindowsRestore, RolledBack, Finish, Crash, Goto, ScriptStep,
                InstallHelper, WriteKeys, ConfirmSetup, UndoSetup, EndUnheard, receiver, desktop
  <2> QED BY <1>1, <2>2, <2>3, <2>4
<1>3. ASSUME NEW d \in Desktops, Check(d) PROVE Consistent'
  <2>1. pc[d] = "idle" /\ UNCHANGED <<platform, receiver, pc, job, outcome, began>>
        /\ \A e \in Desktops \ {d} : plan'[e] = plan[e]
    BY <1>3 DEF Check, TypeOK
  <2> QED
    BY <2>1 DEF Consistent, Phases, Before, AtRun, AtAwait, Scripted, Adrift, AtVerify, AtRollback, AtCleanup, AtDrift,
                Mixed, New, Recoverable, NothingLeft, Cleaned, Busy, receiver
<1>4. ASSUME NEW d \in Desktops, Execute(d) PROVE Consistent'
  <2>1. \A e \in Desktops : pc[e] = "idle" /\ script[e] = NoScript BY <1>4 DEF Execute, Approved, Busy
  <2>2. /\ began'.by = d /\ began'.what = installed /\ began'.target = plan[d].meta.version
        /\ ~began'.settled /\ ~began'.away
        /\ pc' = [pc EXCEPT ![d] = "fetch"] /\ job'[d] = NoJob
        /\ outcome' = [e \in Desktops |-> "none"]
        /\ backup' = [e \in Desktops |-> NoContents]
        /\ UNCHANGED <<platform, installed, script, plan>>
    BY <1>4, <2>1 DEF Execute, Approved, TypeOK, Goto, Busy
  <2>3. pc'[d] = "fetch" /\ (\A e \in Desktops \ {d} : pc'[e] = "idle") /\ installed \in Contents
    BY <2>1, <2>2 DEF TypeOK
  <2>4. (installed \in Mixed)' BY <2>2, <2>3 DEF Mixed, Contents
  <2>5. Phases(d)'
    BY <2>1, <2>2, <2>3 DEF Phases, Before, AtRun, AtAwait, Scripted, AtVerify, AtRollback, AtCleanup, AtDrift
  <2> QED BY <2>1, <2>2, <2>3, <2>4, <2>5 DEF Consistent, Busy, Recoverable, NothingLeft, Cleaned
<1>5. CASE UNCHANGED vars
  BY <1>5 DEF vars, receiver, desktop, Consistent, Phases, Before, AtRun, AtAwait, Scripted, Adrift,
              AtVerify, AtRollback, AtCleanup, AtDrift, Mixed, New, Recoverable, NothingLeft, Cleaned, Busy
<1> QED BY <1>2, <1>3, <1>4, <1>5 DEF Next

\* Before the first transaction nothing is staged and nobody is busy.
LEMMA InitConsistent == Init => Consistent
  BY DEF Init, Consistent, Mixed, Recoverable, NothingLeft, Cleaned, Busy, Contents, NoScript, NoContents

\* From the first change on a Receiver until the new helper is verified or a
\* restore is tried, what was there is kept on it (apply with
\* retain_transaction), whatever fails, is lost or dies on the way.
THEOREM UpdateRecoverable ==
  ASSUME "overlap" \notin Happens
  PROVE  Spec => []Recoverable
<1>1. TypeOK /\ Consistent /\ [Next]_vars => Consistent' BY StepConsistent
<1>2. Consistent => Recoverable BY DEF Consistent
<1> QED BY <1>1, <1>2, InitConsistent, UpdateTypes, PTL DEF Spec

\* An update that ended well leaves no backups on the Receiver (commit and
\* rollback of the bootstraps).
THEOREM UpdateLeavesNothing ==
  ASSUME "overlap" \notin Happens
  PROVE  Spec => []NothingLeft
<1>1. TypeOK /\ Consistent /\ [Next]_vars => Consistent' BY StepConsistent
<1>2. Consistent => NothingLeft BY DEF Consistent
<1> QED BY <1>1, <1>2, InitConsistent, UpdateTypes, PTL DEF Spec

-----------------------------------------------------------------------------
(* Updates implement UpdateTransaction                                     *)

\* The Receiver begins with its helper and keys, and no one owns a transaction.
LEMMA InitRefines == Init => Transaction!Init
  BY DEF Init, Transaction!Init, Owner, Contents, Transaction!Contents, Versions, Transaction!Versions

\* What the desktop does before it reports is a change of the Receiver or
\* nothing to the user.
LEMMA WorkRefines ==
  ASSUME TypeOK, Consistent, Consistent', NEW d \in Desktops, d = began.by, Busy(d), Busy(d)',
         began'.by = d, began'.what = began.what, began'.target = began.target,
         began'.away = began.away, outcome' = outcome
  PROVE  Transaction!Change
<1>1. Owner = d /\ Owner' = d BY UpdateAssumption DEF Owner
<1>2. (installed \in Mixed)' BY DEF Consistent
<1>3. installed' \in [helper : {began.what.helper, began.target}, keys : {began.what.keys, d}]
  BY <1>2 DEF Mixed
<1> QED BY <1>1, <1>3 DEF Transaction!Change

\* Every step of an update is a step of the transaction or is not seen there.
LEMMA StepRefines ==
  ASSUME {"overlap", "stalePlan"} \cap Happens = {},
         TypeOK, Consistent, Consistent', [Next]_vars
  PROVE  [Transaction!Next]_(Transaction!vars)
<1> USE DEF Transaction!vars
<1>0. \A d \in Desktops : Busy(d) => d = began.by /\ Owner = d BY DEF Consistent, Owner
<1>1. CASE UNCHANGED vars
  BY <1>1 DEF vars, receiver, desktop, Owner, Busy
<1>2. ASSUME NEW d \in Desktops, Check(d) PROVE UNCHANGED Transaction!vars
  BY <1>2 DEF Check, receiver, Owner, Busy
<1>3. ASSUME NEW d \in Desktops, Execute(d)
      PROVE  \E v \in Transaction!Versions : Transaction!Begin(d, v)
  <2>1. \A e \in Desktops : ~Busy(e) BY <1>3 DEF Execute, Approved
  <2>2. Owner = NoOne BY <2>1 DEF Owner, TypeOK, Began
  <2>3. plan[d] \in Plan BY <1>3 DEF Execute, Approved, TypeOK, NoPlan
  <2>4. plan[d].meta.version \in Versions /\ plan[d].meta.version >= installed.helper
    BY <1>3, <2>3 DEF Execute, Approved, Plans, Plan, Metadata
  <2>5. began'.by = d /\ began'.what = installed /\ began'.target = plan[d].meta.version
    BY <1>3 DEF Execute, Approved
  <2>6. pc'[d] = "fetch" BY <1>3 DEF Execute, Approved, Goto, TypeOK
  <2>7. Owner' = d BY <2>5, <2>6, UpdateAssumption DEF Owner, Busy
  <2>8. outcome' = [e \in Desktops |-> "none"] /\ began'.away = FALSE /\ UNCHANGED installed
    BY <1>3 DEF Execute, Approved
  <2>9. Transaction!Begin(d, plan[d].meta.version)
    BY <2>2, <2>4, <2>5, <2>7, <2>8 DEF Transaction!Begin
  <2> QED BY <2>4, <2>9 DEF Versions, Transaction!Versions
<1>4. ASSUME NEW d \in Desktops, Fetch(d) \/ Install(d) \/ Verify(d) \/ Commit(d) \/ Rollback(d)
      PROVE  Transaction!Change \/ Transaction!Break
  <2>1. pc[d] # "idle" /\ pc'[d] # "idle" /\ outcome' = outcome
    BY <1>4 DEF TypeOK, Fetch, Install, LinuxApply, MacApply, WindowsApply, Stage, GiveUp,
                KeepBackup, RunScript, PosixAnswer, WindowsAnswer, BreakAway, Verify, Commit, LinuxCommit,
                WindowsCommit, Committed, Rollback, LinuxRollback, MacRollback, WindowsRollback,
                ReportOnly, Restore, WindowsRestore, RolledBack, Goto
  <2>2. began \in Began BY DEF TypeOK
  <2>3. began'.by = began.by /\ began'.what = began.what /\ began'.target = began.target
    BY <1>4, <2>2
       DEF Began, Fetch, Install, LinuxApply, MacApply, WindowsApply, Stage, GiveUp,
           KeepBackup, RunScript, PosixAnswer, WindowsAnswer, BreakAway, Verify, Settle, Commit, LinuxCommit,
           WindowsCommit, Committed, Rollback, LinuxRollback, MacRollback, WindowsRollback,
           ReportOnly, Restore, WindowsRestore
  <2>4. Busy(d) /\ Busy(d)' BY <2>1 DEF Busy
  <2>5. CASE BreakAway(d)
    <3>1. began'.away = TRUE /\ UNCHANGED installed BY <2>2, <2>5 DEF BreakAway, Began
    <3>2. Owner = d /\ Owner' = d BY <1>0, <2>3, <2>4, UpdateAssumption DEF Owner
    <3> QED BY <2>1, <2>3, <3>1, <3>2, UpdateAssumption DEF Transaction!Break
  <2>6. CASE ~BreakAway(d)
    <3>1. began'.away = began.away
      BY <1>4, <2>2, <2>6
         DEF Began, Fetch, Install, LinuxApply, MacApply, WindowsApply, Stage, GiveUp,
             KeepBackup, RunScript, PosixAnswer, WindowsAnswer, Verify, Settle, Commit, LinuxCommit,
             WindowsCommit, Committed, Rollback, LinuxRollback, MacRollback, WindowsRollback,
             ReportOnly, Restore, WindowsRestore
    <3> QED BY <1>0, <2>1, <2>3, <2>4, <3>1, WorkRefines
  <2> QED BY <2>5, <2>6
<1>5. ASSUME NEW d \in Desktops, ScriptStep(d), ~EndUnheard(d) PROVE Transaction!Change
  <2>1. script[d] # NoScript /\ script'[d] # NoScript /\ outcome' = outcome
    BY <1>5 DEF TypeOK, ScriptStep, InstallHelper, WriteKeys, ConfirmSetup, UndoSetup, Running,
                NoScript, Script, desktop
  <2>2. began \in Began BY DEF TypeOK
  <2>3. began'.by = began.by /\ began'.what = began.what /\ began'.target = began.target
        /\ began'.away = began.away
    BY <1>5, <2>2 DEF Began, ScriptStep, InstallHelper, WriteKeys, ConfirmSetup, UndoSetup, Settle
  <2>4. Busy(d) /\ Busy(d)' BY <2>1 DEF Busy
  <2> QED BY <1>0, <2>1, <2>3, <2>4, WorkRefines
<1>6. ASSUME NEW d \in Desktops, EndUnheard(d)
      PROVE  Transaction!Vanish \/ UNCHANGED Transaction!vars
  <2>1. script[d] # NoScript /\ script'[d] = NoScript /\ pc[d] # "await"
        /\ UNCHANGED <<installed, pc, outcome, began>>
    BY <1>6 DEF TypeOK, EndUnheard, Ended, NoScript, desktop
  <2>2. Owner = d /\ d = began.by BY <1>0, <2>1 DEF Busy
  <2>3. CASE pc[d] = "idle"
    <3>1. Owner' = NoOne BY <2>1, <2>2, <2>3 DEF Owner, Busy
    <3> QED BY <2>1, <2>2, <3>1, UpdateAssumption DEF Transaction!Vanish
  <2>4. CASE pc[d] # "idle"
    <3>1. Owner' = d BY <2>1, <2>2, <2>4, UpdateAssumption DEF Owner, Busy
    <3> QED BY <2>1, <2>2, <3>1
  <2> QED BY <2>3, <2>4
<1>7. ASSUME NEW d \in Desktops, Finish(d)
      PROVE  \E o \in Transaction!Outcomes : Transaction!Report(o) \/ Transaction!ReportAdrift(o)
  <2>1. pc[d] = "cleanup" /\ pc'[d] = "idle" /\ UNCHANGED <<installed, script, began>>
    BY <1>7 DEF TypeOK, Finish, Goto, receiver
  <2>2. Owner = d /\ d = began.by BY <1>0, <2>1 DEF Busy
  <2>3. Phases(d) BY <2>2 DEF Consistent
  <2>4. AtCleanup(d) /\ AtDrift(d) BY <2>3 DEF Phases
  <2>5. job[d].result \in Results BY DEF TypeOK, Job
  <2>6. CASE began.away
    <3>1. job[d].result \in {"restored", "incomplete"} BY <2>1, <2>4, <2>6 DEF AtDrift
    <3>2. outcome' = [outcome EXCEPT ![d] = job[d].result] BY <1>7, <3>1 DEF Finish
    <3>3. Owner' \in {d, NoOne} BY <2>1, <2>2 DEF Owner
    <3>4. Transaction!ReportAdrift(job[d].result)
      BY <2>1, <2>2, <2>6, <3>1, <3>2, <3>3, UpdateAssumption DEF Transaction!ReportAdrift
    <3> QED BY <3>1, <3>4 DEF Transaction!Outcomes
  <2>7. CASE ~began.away
    <3>1. script[d] = NoScript BY <2>1, <2>3, <2>7 DEF Phases, Scripted, Adrift
    <3>2. Owner' = NoOne BY <2>1, <2>2, <3>1 DEF Owner, Busy
    <3>3. /\ job[d].result = "updated" => installed = [helper |-> began.target, keys |-> d]
          /\ job[d].result \in {"restored", "rejected"} => installed = began.what
      BY <2>1, <2>2, <2>4, <2>7 DEF AtCleanup, New
    <3>4. CASE outcome' = [outcome EXCEPT ![d] = job[d].result]
      <4>1. job[d].result # "unclean" BY <2>5 DEF Results
      <4>2. Transaction!Report(job[d].result)
        BY <2>1, <2>2, <2>7, <3>2, <3>3, <3>4, <4>1, UpdateAssumption DEF Transaction!Report
      <4> QED BY <2>5, <4>2 DEF Results, Transaction!Outcomes
    <3>5. CASE job[d].result = "updated" /\ outcome' = [outcome EXCEPT ![d] = "unclean"]
      <4>1. Transaction!Report("unclean")
        BY <2>1, <2>2, <2>7, <3>2, <3>3, <3>5, UpdateAssumption DEF Transaction!Report
      <4> QED BY <4>1 DEF Transaction!Outcomes
    <3> QED BY <1>7, <3>4, <3>5 DEF Finish
  <2> QED BY <2>6, <2>7
<1>8. ASSUME NEW d \in Desktops, Crash(d)
      PROVE  Transaction!Vanish \/ UNCHANGED Transaction!vars
  <2>1. pc[d] # "idle" /\ pc'[d] = "idle" /\ UNCHANGED <<installed, script, outcome, began>>
    BY <1>8 DEF TypeOK, Crash, receiver
  <2>2. Owner = d /\ d = began.by BY <1>0, <2>1 DEF Busy
  <2>3. CASE script[d] = NoScript
    <3>1. Owner' = NoOne BY <2>1, <2>2, <2>3 DEF Owner, Busy
    <3> QED BY <2>1, <2>2, <3>1, UpdateAssumption DEF Transaction!Vanish
  <2>4. CASE script[d] # NoScript
    <3>1. Owner' = Owner BY <2>1, <2>2, <2>4, UpdateAssumption DEF Owner, Busy
    <3> QED BY <2>1, <3>1
  <2> QED BY <2>3, <2>4
<1> QED BY <1>1, <1>2, <1>3, <1>4, <1>5, <1>6, <1>7, <1>8 DEF Next, DesktopStep, Transaction!Next

\* An update is one transaction on the Receiver and its report is honest: each
\* step of UpdateService.execute, the bootstraps and Companion Setup is a step
\* of UpdateTransaction or invisible in it, also when ssh returns before the
\* script it has started, of which UpdateTransaction then promises less.
THEOREM UpdateRefines ==
  ASSUME {"overlap", "stalePlan"} \cap Happens = {}
  PROVE  Spec => OneTransaction
<1>1. TypeOK /\ Consistent /\ [Next]_vars => Consistent' BY StepConsistent
<1>2. TypeOK /\ Consistent /\ Consistent' /\ [Next]_vars => [Transaction!Next]_(Transaction!vars)
  BY StepRefines
<1> QED BY <1>1, <1>2, InitConsistent, InitRefines, UpdateTypes, PTL
        DEF Spec, OneTransaction, Transaction!Spec
=============================================================================
