--------------------------- MODULE ReceiverProofs ---------------------------
(***************************************************************************)
(* Proofs about setup, removal and uninstall, for any Receivers, commands  *)
(* and keys, with crashes, lost answers and failing files, while commands  *)
(* other than removals do not overlap and a Receiver is not added again    *)
(* between its revocation and the end of its cleanup (Orderly). README,    *)
(* section 5, has what breaks when they do.                                *)
(***************************************************************************)
EXTENDS ReceiverProperties, TLAPS

USE ReceiversAssumption DEF files, told

-----------------------------------------------------------------------------
(* Types                                                                   *)

PCs == {"idle", "starting"} \cup SetupPCs \cup RemovalPCs

\* The values that stand for nothing have their types.
LEMMA NothingTyped == EmptyConfig \in Config /\ NoJob \in Job /\ NoEntry \in Entry
<1>1. EmptyConfig \in Config BY DEF EmptyConfig, Config, Levels
<1>2. NoJob \in Job BY <1>1 DEF NoJob, Job
<1>3. NoEntry \in Entry BY DEF NoEntry, Entry, Statuses, Levels
<1> QED BY <1>1, <1>2, <1>3

\* So have the configurations that loading and selecting make.
LEMMA NormalizeTyped ==
  ASSUME NEW k \in Config PROVE Normalize(k) \in Config
  BY DEF Normalize, Config

\* A Connection that is taken into use is one of the configuration.
LEMMA UseTyped ==
  ASSUME NEW k \in Config, NEW r \in Receivers, NEW l \in Levels
  PROVE  Use(k, r, l) \in Config
<1>1. [k EXCEPT !.current = r, !.level = l] \in Config BY DEF Config
<1> QED BY <1>1, NormalizeTyped DEF Use

\* A command that ends is idle, has no job, and gives its lock back.
LEMMA EndsTyped ==
  ASSUME TypeOK, NEW c \in Commands, Ends(c)
  PROVE  /\ pc' \in [Commands -> PCs] /\ job' \in [Commands -> Job]
         /\ lock' \in Commands \cup {NoOne}
         /\ pc' = [pc EXCEPT ![c] = "idle"]
<1>1. "idle" \in PCs BY DEF PCs
<1> QED BY <1>1, NothingTyped DEF Ends, TypeOK, PCs

\* One that goes on stays in the code.
LEMMA GotoTyped ==
  ASSUME TypeOK, NEW c \in Commands, NEW p, NEW q \in PCs, Goto(c, p, q)
  PROVE  pc' \in [Commands -> PCs]
  BY DEF Goto, TypeOK, PCs

\* The requests that read and write config.json or a Trust Record.
LEMMA EditTyped ==
  ASSUME TypeOK, NEW c \in Commands, Connections(c) PROVE TypeOK'
<1> USE DEF TypeOK
<1>0. PICK r \in Receivers :
        \/ ApproveTrust(c, r) \/ SaveConnection(c, r) \/ SelectConnection(c, r)
        \/ RenameConnection(c, r) \/ SaveProfile(c, r) \/ DeleteProfile(c, r) \/ LoadProfile(c, r)
  BY DEF Connections
<1>1. CASE ApproveTrust(c, r) BY <1>1 DEF ApproveTrust
<1>l. config.saved[r] \in Levels /\ config.profile[r] \in Levels /\ config.level \in Levels
      /\ "user-managed" \in Levels /\ "none" \in Levels
  BY DEF Config, Levels
<1>e. ASSUME NEW k \in Config, Edit(c, k) PROVE TypeOK'
  BY <1>e DEF Edit
<1>2. CASE SaveConnection(c, r) BY <1>2, <1>l, <1>e, UseTyped DEF SaveConnection
<1>3. CASE SelectConnection(c, r) BY <1>3, <1>l, <1>e, UseTyped DEF SelectConnection
<1>4. CASE LoadProfile(c, r) BY <1>4, <1>l, <1>e, UseTyped DEF LoadProfile
<1>5. CASE SaveProfile(c, r)
  <2>1. [config EXCEPT !.profile[r] = config.level] \in Config BY <1>l DEF Config
  <2> QED BY <2>1, <1>5, <1>e, NormalizeTyped DEF SaveProfile
<1>6. CASE DeleteProfile(c, r)
  <2>1. [config EXCEPT !.profile[r] = "none"] \in Config BY <1>l DEF Config
  <2> QED BY <2>1, <1>6, <1>e, NormalizeTyped DEF DeleteProfile
<1>7. CASE RenameConnection(c, r)
  <2> DEFINE copy == config.saved[r]
  <2> DEFINE k == [config EXCEPT !.level = IF config.current = r THEN copy ELSE @,
                                 !.profile[r] = IF @ = "none" THEN @ ELSE copy]
  <2>1. k \in Config BY <1>l DEF Config
  <2>2. Edit(c, Normalize(k)) BY <1>7 DEF RenameConnection
  <2> HIDE DEF k
  <2> QED BY <2>1, <2>2, <1>e, NormalizeTyped
<1> QED BY <1>0, <1>1, <1>2, <1>3, <1>4, <1>5, <1>6, <1>7

\* A command that is under way knows the Receiver and the key it is about.
Named(c) ==
  /\ pc[c] \in SetupPCs => job[c].r \in Receivers /\ job[c].key \in Keys
  /\ pc[c] \in RemovalPCs \ {"mark", "purge"} => job[c].r \in Receivers

\* The steps of a setup.
LEMMA SetupTyped ==
  ASSUME TypeOK, NEW c \in Commands, Named(c), Setup(c) PROVE TypeOK'
<1> USE DEF TypeOK
<1>p. SetupPCs \cup {"idle"} \subseteq PCs BY DEF PCs
<1>j. job[c] \in Job /\ pc[c] \in PCs BY DEF PCs
<1>1. ASSUME NEW r \in Receivers, SetupGenerate(c, r) PROVE TypeOK'
  <2>1. made + 1 \in Keys BY <1>1 DEF SetupGenerate, Keys, NoKey
  <2>2. [NoJob EXCEPT !.r = r, !.key = made + 1] \in Job BY <2>1, NothingTyped DEF Job
  <2>3. pc' \in [Commands -> PCs] BY <1>1, <1>p, GotoTyped DEF SetupGenerate, SetupPCs
  <2> QED BY <1>1, <2>1, <2>2, <2>3 DEF SetupGenerate, PCs
<1>2. CASE SetupApply(c)
  <2>1. pc' \in [Commands -> PCs] BY <1>2, <1>p, GotoTyped DEF SetupApply, SetupPCs
  <2>2. job[c].r \in Receivers /\ job[c].key \in Keys BY <1>2 DEF Named, SetupApply, Goto, SetupPCs
  <2> QED BY <1>2, <2>2, <2>1 DEF SetupApply, PCs
<1>3. CASE SetupFails(c)
  <2>1. pc' \in [Commands -> PCs]
    <3>1. \E p \in {"forget", "unsave"} : \E q : Goto(c, q, p) BY <1>3 DEF SetupFails
    <3> QED BY <3>1, <1>p, GotoTyped DEF SetupPCs
  <2>2. job[c].r \in Receivers BY <1>3 DEF Named, SetupFails, Goto, SetupPCs
  <2>3. PICK complete \in BOOLEAN, left \in BOOLEAN :
          /\ job' = [job EXCEPT ![c].ok = complete]
          /\ authorized' = [authorized EXCEPT ![job[c].r] =
                              IF left THEN @ ELSE @ \ {job[c].key}]
    BY <1>3 DEF SetupFails, RolledBack
  <2>4. [job[c] EXCEPT !.ok = complete] \in Job BY <1>j DEF Job
  <2>5. job' \in [Commands -> Job] BY <2>3, <2>4
  <2>6. authorized' \in [Receivers -> SUBSET Keys] BY <2>2, <2>3
  <2> QED BY <1>3, <2>1, <2>5, <2>6 DEF SetupFails, PCs
<1>4. CASE SetupSave(c)
  <2>2. job[c].r \in Receivers /\ job[c].key \in Keys BY <1>4 DEF Named, SetupSave, SetupPCs
  <2>3. config' \in Config BY <1>4, <2>2, UseTyped DEF SetupSave, Levels
  <2>4. [job[c] EXCEPT !.old = config] \in Job BY <1>j DEF Job
  <2>5. CASE Goto(c, "verify", "commit") /\ job' = [job EXCEPT ![c].old = config]
               /\ UNCHANGED <<lock, owned>>
    <3>1. pc' \in [Commands -> PCs] BY <2>5, <1>p, GotoTyped DEF SetupPCs
    <3> QED BY <1>4, <2>3, <2>4, <2>5, <3>1 DEF SetupSave, PCs
  <2>6. CASE Ends(c) /\ owned' = [owned EXCEPT ![job[c].r] = @ \cup {job[c].key}]
    <3>1. owned' \in [Receivers -> SUBSET Keys] BY <2>2, <2>6
    <3> QED BY <1>4, <2>3, <2>6, <3>1, EndsTyped DEF SetupSave, PCs
  <2> QED BY <1>4, <2>5, <2>6 DEF SetupSave
<1>5. CASE SetupCommit(c)
  <2>1. job[c].r \in Receivers /\ job[c].key \in Keys BY <1>5 DEF Named, SetupCommit, SetupPCs
  <2>2. owned' \in [Receivers -> SUBSET Keys] BY <1>5, <2>1 DEF SetupCommit
  <2> QED BY <1>5, <2>2, EndsTyped DEF SetupCommit, PCs
<1>6. CASE SetupUnsave(c)
  <2>1. pc' \in [Commands -> PCs] BY <1>6, <1>p, GotoTyped DEF SetupUnsave, SetupPCs
  <2>2. [job[c] EXCEPT !.ok = FALSE] \in Job /\ job[c].old \in Config BY <1>j DEF Job
  <2>3. job' \in [Commands -> Job] BY <1>6, <2>2 DEF SetupUnsave
  <2>4. config' \in Config BY <1>6, <2>2 DEF SetupUnsave
  <2> QED BY <1>6, <2>1, <2>3, <2>4 DEF SetupUnsave, PCs
<1>7. CASE SetupForget(c)
  <2>1. identity' \in [Receivers -> Keys \cup {NoKey}] BY <1>7 DEF SetupForget
  <2> QED BY <1>7, <2>1, EndsTyped DEF SetupForget, PCs
<1> QED BY <1>1, <1>2, <1>3, <1>4, <1>5, <1>6, <1>7 DEF Setup

\* The steps of a removal and of an uninstall.
LEMMA RemovalTyped ==
  ASSUME TypeOK, NEW c \in Commands, Named(c), Removal(c) PROVE TypeOK'
<1> USE DEF TypeOK
<1>p. RemovalPCs \cup {"idle"} \subseteq PCs BY DEF PCs
<1>j. job[c] \in Job /\ pc[c] \in PCs BY DEF PCs
<1>n. NoJob \in Job /\ NoEntry \in Entry /\ EmptyConfig \in Config BY NothingTyped
<1>1. ASSUME NEW u \in BOOLEAN, NEW a \in BOOLEAN, RemovalBegins(c, u, a) PROVE TypeOK'
  <2> DEFINE targets == IF u THEN Listed ELSE Target
  <2>1. targets \in SUBSET Receivers BY DEF Listed, Target, Config
  <2> DEFINE b == a /\ targets # {}
  <2>2. b \in BOOLEAN OBVIOUS
  <2>3. /\ job' = [job EXCEPT ![c] = [NoJob EXCEPT !.uninstall = u, !.queue = targets,
                                                   !.abandon = b]]
        /\ Goto(c, "idle", IF targets = {} THEN "purge" ELSE "mark")
        /\ lock' = c /\ UNCHANGED <<files, session, authorized, made, told>>
    BY <1>1 DEF RemovalBegins
  <2> HIDE DEF targets, b
  <2>4. [NoJob EXCEPT !.uninstall = u, !.queue = targets, !.abandon = b] \in Job
    BY <2>1, <2>2, <1>n DEF Job
  <2>5. (IF targets = {} THEN "purge" ELSE "mark") \in PCs BY <1>p DEF RemovalPCs
  <2>6. pc' \in [Commands -> PCs] BY <2>3, <2>5, GotoTyped
  <2> QED BY <2>3, <2>4, <2>6 DEF PCs
<1>2. CASE Mark(c)
  <2> DEFINE level(r) ==
        IF config.saved[r] # "none" THEN config.saved[r] ELSE pending[r].level
  <2> DEFINE status(r) ==
        IF level(r) # "receiver-only" /\ ~job[c].abandon THEN "pending" ELSE pending[r].status
  <2>1. PICK r \in job[c].queue :
          /\ pending' = [pending EXCEPT ![r] =
               [status |-> status(r), verified |-> pending[r].verified, level |-> level(r)]]
          /\ owned' = IF job[c].abandon THEN [owned EXCEPT ![r] = {}] ELSE owned
          /\ \/ Ends(c)
             \/ /\ \E q \in {"config", "remote"} : Goto(c, "mark", q)
                /\ job' = [job EXCEPT ![c].r = r, ![c].ok = pending[r].verified]
                /\ UNCHANGED lock
          /\ UNCHANGED <<config, trust, identity, session, authorized, made, claimed>>
    BY <1>2 DEF Mark
  <2>0. r \in Receivers /\ pending[r] \in Entry BY <1>j DEF Job
  <2>7. level(r) \in Levels /\ status(r) \in Statuses
    BY <2>0 DEF Config, Entry, Statuses
  <2> HIDE DEF level, status
  <2>2. r \in Receivers /\ pending[r] \in Entry BY <1>j DEF Job
  <2>3. [status |-> status(r), verified |-> pending[r].verified, level |-> level(r)] \in Entry
    BY <2>2, <2>7 DEF Entry
  <2>4. pending' \in [Receivers -> Entry] /\ owned' \in [Receivers -> SUBSET Keys]
    BY <2>1, <2>3
  <2>5. CASE Ends(c) BY <2>1, <2>4, <2>5, EndsTyped DEF PCs
  <2>6. ASSUME NEW q \in {"config", "remote"}, Goto(c, "mark", q),
               job' = [job EXCEPT ![c].r = r, ![c].ok = pending[r].verified], UNCHANGED lock
        PROVE  TypeOK'
    <3>1. [job[c] EXCEPT !.r = r, !.ok = pending[r].verified] \in Job
      BY <1>j, <2>2 DEF Job, Entry
    <3>2. job' \in [Commands -> Job] BY <2>6, <3>1
    <3>3. pc' \in [Commands -> PCs] BY <2>6, <1>p, GotoTyped DEF RemovalPCs, LocalPCs
    <3> QED BY <2>1, <2>4, <2>6, <3>2, <3>3 DEF PCs
  <2> QED BY <2>1, <2>5, <2>6
<1>r. pc[c] \in RemovalPCs \ {"mark", "purge"} => job[c].r \in Receivers BY DEF Named
<1>u. \A r \in Receivers :
        [authorized EXCEPT ![r] = @ \ {identity[r]}] \in [Receivers -> SUBSET Keys]
  OBVIOUS
<1>3. CASE Revoke(c)
  <2>1. job[c].r \in Receivers BY <1>3, <1>r DEF Revoke, Goto, RemovalPCs
  <2>2. pc' \in [Commands -> PCs] BY <1>3, <1>p, GotoTyped DEF Revoke, RemovalPCs
  <2> QED BY <1>3, <1>u, <2>1, <2>2 DEF Revoke, KeyRevoked, PCs
<1>s. ASSUME NEW r \in Receivers, NEW s \in Statuses, NEW v \in BOOLEAN
      PROVE  /\ [pending EXCEPT ![r].status = s] \in [Receivers -> Entry]
             /\ [pending EXCEPT ![r].status = s, ![r].verified = v] \in [Receivers -> Entry]
  <2>1. pending[r] \in Entry OBVIOUS
  <2>2. [pending[r] EXCEPT !.status = s] \in Entry BY <2>1 DEF Entry
  <2>3. [pending[r] EXCEPT !.status = s, !.verified = v] \in Entry BY <2>1 DEF Entry
  <2> QED BY <2>2, <2>3
<1>4. CASE RevokeFails(c)
  <2>1. job[c].r \in Receivers BY <1>4, <1>r DEF RevokeFails, RemovalPCs
  <2>2. pending' \in [Receivers -> Entry] BY <1>4, <2>1, <1>s DEF RevokeFails, Statuses
  <2>3. authorized' \in [Receivers -> SUBSET Keys] BY <1>4, <2>1, <1>u DEF RevokeFails, KeyRevoked
  <2> QED BY <1>4, <2>2, <2>3, EndsTyped DEF RevokeFails, PCs
<1>5. CASE Record(c)
  <2>1. job[c].r \in Receivers BY <1>5, <1>r DEF Record, Goto, RemovalPCs
  <2>2. pending' \in [Receivers -> Entry] BY <1>5, <2>1, <1>s DEF Record, Statuses
  <2>3. pc' \in [Commands -> PCs] BY <1>5, <1>p, GotoTyped DEF Record, RemovalPCs, LocalPCs
  <2>4. [job[c] EXCEPT !.ok = TRUE] \in Job BY <1>j DEF Job
  <2> QED BY <1>5, <2>2, <2>3, <2>4 DEF Record, PCs
<1>6. CASE DropConnection(c)
  <2>1. config' \in Config
    <3>1. config' = [current |-> IF config.current = job[c].r THEN NoOne ELSE config.current,
                   level   |-> IF config.current = job[c].r THEN "none" ELSE config.level,
                   saved   |-> [config.saved EXCEPT ![job[c].r] = "none"],
                   profile |-> [config.profile EXCEPT ![job[c].r] = "none"]]
      BY <1>6 DEF DropConnection
    <3> QED BY <3>1 DEF Config, Levels
  <2>2. pc' \in [Commands -> PCs] BY <1>6, <1>p, GotoTyped DEF DropConnection, RemovalPCs, LocalPCs
  <2> QED BY <1>6, <2>1, <2>2 DEF DropConnection, PCs
<1>7. CASE DropTrust(c)
  <2>1. \E q \in {"identity", "finish"} : Goto(c, "trust", q) BY <1>7 DEF DropTrust
  <2>2. pc' \in [Commands -> PCs] BY <2>1, <1>p, GotoTyped DEF RemovalPCs, LocalPCs
  <2> QED BY <1>7, <2>2 DEF DropTrust, PCs
<1>8. CASE DropIdentity(c)
  <2>2. pc' \in [Commands -> PCs] BY <1>8, <1>p, GotoTyped DEF DropIdentity, RemovalPCs, LocalPCs
  <2>3. identity' \in [Receivers -> Keys \cup {NoKey}] BY <1>8 DEF DropIdentity
  <2> QED BY <1>8, <2>2, <2>3 DEF DropIdentity, PCs
<1>9. CASE LocalFails(c)
  <2>1. job[c].r \in Receivers BY <1>9, <1>r DEF LocalFails, RemovalPCs, LocalPCs
  <2>2. pending' \in [Receivers -> Entry]
    BY <1>9, <1>j, <2>1, <1>s DEF LocalFails, Statuses, Job
  <2> QED BY <1>9, <2>2, EndsTyped DEF LocalFails, PCs
<1>c. \A r \in Receivers : Claim(r) \in [Receivers -> SUBSET Keys] BY DEF Claim
<1>10. CASE FinishOne(c)
  <2>1. job[c].r \in Receivers BY <1>10, <1>r DEF FinishOne, RemovalPCs, LocalPCs
  <2>2. pending' \in [Receivers -> Entry] BY <1>10, <1>n DEF FinishOne
  <2>3. claimed' \in [Receivers -> SUBSET Keys] BY <1>10, <1>c, <2>1 DEF FinishOne
  <2>4. UNCHANGED <<config, trust, identity, session, authorized, made, owned>>
    BY <1>10 DEF FinishOne
  <2>5. CASE Ends(c) BY <2>2, <2>3, <2>4, <2>5, EndsTyped DEF PCs
  <2>6. CASE ~Ends(c)
    <3> DEFINE rest == job[c].queue \ {job[c].r}
    <3>1. (\E q \in {"purge", "mark"} : Goto(c, "finish", q))
          /\ job' = [job EXCEPT ![c].queue = rest] /\ UNCHANGED lock
      BY <1>10, <2>6 DEF FinishOne
    <3>2. [job[c] EXCEPT !.queue = rest] \in Job BY <1>j DEF Job
    <3>3. pc' \in [Commands -> PCs] BY <3>1, <1>p, GotoTyped DEF RemovalPCs
    <3> QED BY <2>2, <2>3, <2>4, <3>1, <3>2, <3>3 DEF PCs
  <2> QED BY <2>5, <2>6
<1>11. CASE Purge(c)
  <2>1. UNCHANGED <<files, claimed>>
        \/ (/\ config' = EmptyConfig /\ trust' = {} /\ pending' = pending
            /\ identity' = [r \in Receivers |-> NoKey]
            /\ claimed' = IF job[c].abandon THEN claimed ELSE [r \in Receivers |-> Claim(r)[r]])
    BY <1>11 DEF Purge
  <2>2. \A r \in Receivers : Claim(r)[r] \in SUBSET Keys BY <1>c
  <2>3. claimed' \in [Receivers -> SUBSET Keys] BY <2>1, <2>2
  <2>4. config' \in Config /\ trust' \in SUBSET Receivers /\ pending' \in [Receivers -> Entry]
        /\ identity' \in [Receivers -> Keys \cup {NoKey}]
    BY <2>1, <1>n
  <2> QED BY <1>11, <2>3, <2>4, EndsTyped DEF Purge, PCs
<1> QED BY <1>1, <1>2, <1>3, <1>4, <1>5, <1>6, <1>7, <1>8, <1>9, <1>10, <1>11 DEF Removal

\* Start, and a command that is killed.
LEMMA OtherTyped ==
  ASSUME TypeOK, NEW c \in Commands, StartChecks(c) \/ StartSpawns(c) \/ Crash(c) PROVE TypeOK'
<1> USE DEF TypeOK
<1>1. CASE StartChecks(c)
  <2>1. pc' \in [Commands -> PCs] BY <1>1, GotoTyped DEF StartChecks, PCs
  <2> QED BY <1>1, <2>1 DEF StartChecks, PCs
<1>2. CASE StartSpawns(c)
  <2>1. pc' \in [Commands -> PCs] BY <1>2, GotoTyped DEF StartSpawns, PCs
  <2> QED BY <1>2, <2>1 DEF StartSpawns, PCs
<1>3. CASE Crash(c) BY <1>3, EndsTyped DEF Crash, PCs
<1> QED BY <1>1, <1>2, <1>3

-----------------------------------------------------------------------------
(* The inductive invariant                                                *)

\* The keys of a reported setup that the Receiver still accepts
Live(r) == owned[r] \cap authorized[r]

\* The security levels of all copies of a Connection in a configuration
Copies(k, r) ==
  {k.saved[r], k.profile[r]} \cup (IF k.current = r THEN {k.level} ELSE {})

\* What load and save make of a configuration they leave as it is
Normal(k) ==
  /\ k.current # NoOne => k.level # "none"
  /\ \A r \in Receivers :
       /\ k.profile[r] # "none" => k.saved[r] = k.profile[r]
       /\ k.profile[r] = "none" /\ k.current = r => k.saved[r] = k.level

\* What every configuration satisfies that is saved, or may come back when a
\* setup is undone
Sound(k) ==
  /\ Normal(k)
  /\ \A r \in Receivers :
       /\ Live(r) # {} => k.saved[r] # "none" \/ IsPending(r)
       /\ pending[r].verified => k.saved[r] # "user-managed"
       /\ "receiver-only" \in Copies(k, r) /\ ~IsPending(r) => identity[r] # NoKey /\ r \in trust

\* One command at a time: the Panel's, or the one that holds removal.lock
Solo ==
  /\ \A c, d \in Commands : pc[c] # "idle" /\ pc[d] # "idle" => c = d
  /\ \A c \in Commands : pc[c] \in RemovalPCs => lock = c

\* What a verified entry of pending-removals.json stands for
Verified ==
  \A r \in Receivers :
    pending[r].verified =>
      Live(r) = {} /\ pending[r].status # "pending" /\ pending[r].level = "receiver-only"

\* Keys are generated once.
Numbered == \A r \in Receivers : \A k \in owned[r] : k <= made

\* What a setup has done at each of its steps
InSetup(c) ==
  LET r == job[c].r
      k == job[c].key
      Unsaved(f) == "receiver-only" \in Copies(f, r) => IsPending(r)
  IN  /\ r \in trust
      /\ k # NoKey /\ k = identity[r] /\ k <= made /\ k \notin owned[r]
      /\ Live(r) = {} /\ ~pending[r].verified
      /\ pc[c] \in {"apply", "verify"} \/ (pc[c] = "forget" /\ job[c].ok) => Unsaved(config)
      /\ pc[c] = "commit" => config.saved[r] # "none"
      /\ pc[c] \in {"commit", "unsave"} => Sound(job[c].old) /\ Unsaved(job[c].old)

\* What a removal or an uninstall has done at each of its steps
InRemoval(c) ==
  LET r == job[c].r
  IN  /\ ~session
      /\ job[c].uninstall => \A q \in Receivers : Live(q) # {} => q \in job[c].queue
      /\ pc[c] = "purge" => job[c].uninstall /\ job[c].queue = {}
      /\ pc[c] \notin {"mark", "purge"} => r \in Receivers /\ IsPending(r)
      /\ pc[c] \in {"remote", "record"} =>
           pending[r].level = "receiver-only" /\ config.saved[r] # "user-managed"
      /\ pc[c] = "remote" => ~pending[r].verified
      /\ pc[c] \in {"record"} \cup LocalPCs => Live(r) = {}
      /\ pc[c] \in LocalPCs => job[c].ok = pending[r].verified
      /\ pc[c] \in {"trust", "identity", "finish"} => Copies(config, r) = {"none"}

InCommand(c) ==
  /\ pc[c] \in SetupPCs => InSetup(c)
  /\ pc[c] \in RemovalPCs => InRemoval(c)
  /\ pc[c] = "starting" => \A r \in Receivers : ~IsPending(r)

Facts ==
  /\ Sound(config) /\ Verified /\ Numbered
  /\ VerifiedMeansRevoked /\ CredentialsKept /\ BlockedWhilePending

RInv == TypeOK /\ Solo /\ Facts /\ \A c \in Commands : InCommand(c)

\* The outside events that the theorems leave out
Orderly == "overlap" \notin Happens /\ "readd" \notin Happens

\* Every other command is idle and stays so.
Others(c) == \A d \in Commands \ {c} : pc[d] = "idle" /\ pc'[d] = "idle"

\* A setup names its Receiver and key, a removal its Receiver.
LEMMA NamedInCommand ==
  ASSUME RInv, NEW c \in Commands PROVE Named(c)
<1>1. InCommand(c) BY DEF RInv
<1>2. CASE pc[c] \in SetupPCs
  <2>1. InSetup(c) BY <1>1, <1>2 DEF InCommand
  <2>2. job[c].key \in Keys BY <2>1 DEF InSetup, RInv, TypeOK, Job
  <2>3. pc[c] \notin RemovalPCs BY <1>2 DEF SetupPCs, RemovalPCs, LocalPCs
  <2> QED BY <2>1, <2>2, <2>3 DEF InSetup, Named, RInv, TypeOK
<1>3. CASE pc[c] \in RemovalPCs
  <2>1. InRemoval(c) BY <1>1, <1>3 DEF InCommand
  <2>2. pc[c] \notin SetupPCs BY <1>3 DEF SetupPCs, RemovalPCs, LocalPCs
  <2> QED BY <2>1, <2>2 DEF InRemoval, Named
<1> QED BY <1>2, <1>3 DEF Named

\* One command at a time: the rest is idle and stays idle.
LEMMA OthersIdle ==
  ASSUME RInv, Orderly, NEW c \in Commands,
         \/ Connections(c) \/ Setup(c) \/ Removal(c)
         \/ StartChecks(c) \/ StartSpawns(c) \/ Crash(c)
  PROVE  Others(c)
<1> USE DEF RInv, TypeOK, Goto, Ends
<1>a. pc[c] # "idle" => \A d \in Commands \ {c} : pc[d] = "idle" BY DEF Solo
<1>b. Alone(c, {}) => \A d \in Commands \ {c} : pc[d] = "idle" BY DEF Alone, Orderly
<1>1. CASE Connections(c)
  <2>1. Alone(c, {}) /\ UNCHANGED pc
    BY <1>1 DEF Connections, ApproveTrust, SaveConnection, SelectConnection, RenameConnection,
                SaveProfile, DeleteProfile, LoadProfile, Edit
  <2> QED BY <1>b, <2>1 DEF Others
<1>2. CASE Setup(c)
  <2>1. Alone(c, {}) \/ pc[c] # "idle"
    BY <1>2 DEF Setup, SetupGenerate, SetupApply, SetupFails, SetupSave, SetupCommit,
                SetupUnsave, SetupForget
  <2>2. \A d \in Commands \ {c} : pc'[d] = pc[d]
    BY <1>2 DEF Setup, SetupGenerate, SetupApply, SetupFails, SetupSave, SetupCommit,
                SetupUnsave, SetupForget
  <2> QED BY <1>a, <1>b, <2>1, <2>2 DEF Others
<1>3. CASE Removal(c)
  <2>1. \/ pc[c] # "idle"
        \/ Alone(c, RemovalPCs) /\ lock = NoOne
    BY <1>3 DEF Removal, RemovalBegins, Mark, Revoke, RevokeFails, Record, DropConnection,
                DropTrust, DropIdentity, LocalFails, FinishOne, Purge, LocalPCs
  <2>2. \A d \in Commands \ {c} : pc'[d] = pc[d]
    BY <1>3 DEF Removal, RemovalBegins, Mark, Revoke, RevokeFails, Record, DropConnection,
                DropTrust, DropIdentity, LocalFails, FinishOne, Purge
  <2>3. lock = NoOne => \A d \in Commands : pc[d] \notin RemovalPCs BY DEF Solo
  <2>4. Alone(c, RemovalPCs) /\ lock = NoOne => \A d \in Commands \ {c} : pc[d] = "idle"
    BY <2>3 DEF Alone, Orderly
  <2> QED BY <1>a, <2>1, <2>2, <2>4 DEF Others
<1>4. CASE StartChecks(c) \/ StartSpawns(c) \/ Crash(c)
  BY <1>4, <1>a, <1>b DEF StartChecks, StartSpawns, Crash, Others
<1> QED BY <1>1, <1>2, <1>3, <1>4

\* With one command at a time its own step is all there is to look at.
LEMMA Conclude ==
  ASSUME NEW c \in Commands, Others(c), TypeOK', Facts', InCommand(c)',
         pc'[c] \in RemovalPCs => lock' = c
  PROVE  RInv'
<1> USE DEF Others
<1>0. "idle" \notin SetupPCs /\ "idle" \notin RemovalPCs BY DEF SetupPCs, RemovalPCs, LocalPCs
<1>1. \A d \in Commands \ {c} : InCommand(d)' BY <1>0 DEF InCommand
<1>2. \A d \in Commands \ {c} : pc'[d] \notin RemovalPCs BY <1>0
<1>3. Solo' BY <1>2 DEF Solo
<1> QED BY <1>1, <1>3 DEF RInv

\* What is true of the files and the Receivers stays true when they do not change.
LEMMA SameFacts ==
  ASSUME Facts, UNCHANGED <<config, trust, identity, pending, session, authorized, made, told>>
  PROVE  Facts'
  BY DEF Facts, Sound, Normal, Verified, Numbered, VerifiedMeansRevoked, CredentialsKept,
         BlockedWhilePending, Live, IsPending

\* A command that has ended promises nothing more.
LEMMA EndsEnd ==
  ASSUME TypeOK, NEW c \in Commands, Ends(c)
  PROVE  pc'[c] = "idle" /\ InCommand(c)' /\ pc'[c] \notin RemovalPCs
<1>1. pc'[c] = "idle" BY DEF Ends, TypeOK
<1> QED BY <1>1 DEF InCommand, SetupPCs, RemovalPCs, LocalPCs

\* A command is where it goes.
LEMMA GotoGoes ==
  ASSUME TypeOK, NEW c \in Commands, NEW p, NEW q, Goto(c, p, q)
  PROVE  pc[c] = p /\ pc'[c] = q
  BY DEF TypeOK, Goto

-----------------------------------------------------------------------------
(* Configurations                                                          *)

\* normalize_config makes every configuration normal and keeps the copies.
LEMMA NormalizeNormal ==
  ASSUME NEW k \in Config, k.current # NoOne => k.level # "none"
  PROVE  /\ Normal(Normalize(k))
         /\ Normalize(k).current = k.current /\ Normalize(k).level = k.level
         /\ Normalize(k).profile = k.profile
         /\ \A r \in Receivers : Normalize(k).saved[r] =
              IF k.profile[r] # "none" THEN k.profile[r]
              ELSE IF k.current = r THEN k.level ELSE k.saved[r]
  BY DEF Normalize, Normal, Config

\* So does using a Connection, with the copy it is used by.
LEMMA UseNormal ==
  ASSUME NEW k \in Config, Normal(k), NEW r \in Receivers, NEW l \in Levels, l # "none"
  PROVE  /\ Normal(Use(k, r, l))
         /\ Use(k, r, l).saved[r] # "none"
         /\ \A q \in Receivers :
              /\ k.saved[q] # "none" => Use(k, r, l).saved[q] # "none"
              /\ Copies(Use(k, r, l), q) \subseteq Copies(k, q) \cup {l}
              /\ q # r => /\ Use(k, r, l).saved[q] = k.saved[q]
                          /\ Copies(Use(k, r, l), q) \subseteq Copies(k, q)
<1> DEFINE n == [k EXCEPT !.current = r, !.level = l]
<1>1. n \in Config /\ n.current = r /\ n.level = l /\ n.saved = k.saved /\ n.profile = k.profile
  BY DEF Config
<1>2. Use(k, r, l) = Normalize(n) BY DEF Use
<1> HIDE DEF n
<1>3. r # NoOne OBVIOUS
<1>4. /\ Normal(Normalize(n)) /\ Normalize(n).current = r /\ Normalize(n).level = l
      /\ Normalize(n).profile = k.profile
      /\ \A q \in Receivers : Normalize(n).saved[q] =
           IF k.profile[q] # "none" THEN k.profile[q]
           ELSE IF r = q THEN l ELSE k.saved[q]
  BY <1>1, <1>3, NormalizeNormal
<1> DEFINE u == Normalize(n)
<1> HIDE DEF u
<1>5. \A q \in Receivers :
        /\ k.saved[q] # "none" => u.saved[q] # "none"
        /\ q # r => u.saved[q] = k.saved[q]
  BY <1>4 DEF u, Normal
<1>6. \A q \in Receivers :
        /\ Copies(u, q) \subseteq Copies(k, q) \cup {l}
        /\ q # r => Copies(u, q) \subseteq Copies(k, q)
  BY <1>4, <1>5 DEF u, Copies
<1>7. u.saved[r] # "none" BY <1>4 DEF u
<1> QED BY <1>2, <1>4, <1>5, <1>6, <1>7 DEF u

\* A change of the configuration that copies what is there keeps it sound.
LEMMA EditKeeps ==
  ASSUME TypeOK, Sound(config), Orderly, NEW c \in Commands, NEW k, Edit(c, k), Normal(k),
         \A r \in Receivers :
           /\ config.saved[r] # "none" => k.saved[r] # "none"
           /\ "receiver-only" \in Copies(k, r) => "receiver-only" \in Copies(config, r)
  PROVE  Sound(config)'
<1>1. config' = k /\ UNCHANGED <<trust, identity, pending, authorized, owned>>
      /\ \A r \in Receivers : pending[r].verified => k.saved[r] # "user-managed"
  BY DEF Edit, Orderly
<1> QED BY <1>1 DEF Sound, Normal, Live, IsPending

\* The requests that edit the configuration keep what is true of the files and
\* the Receivers, and take one step.
LEMMA ConnectionsKeep ==
  ASSUME RInv, Orderly, NEW c \in Commands, Connections(c)
  PROVE  Facts' /\ UNCHANGED pc
<1> USE DEF RInv, Facts
<1>0. PICK r \in Receivers :
        \/ ApproveTrust(c, r) \/ SaveConnection(c, r) \/ SelectConnection(c, r)
        \/ RenameConnection(c, r) \/ SaveProfile(c, r) \/ DeleteProfile(c, r) \/ LoadProfile(c, r)
  BY DEF Connections
<1>1. CASE ApproveTrust(c, r)
  <2>1. /\ trust \subseteq trust'
        /\ UNCHANGED <<config, identity, pending, session, authorized, pc, made, told>>
    BY <1>1 DEF ApproveTrust
  <2>2. Sound(config)' BY <2>1 DEF Sound, Normal, Live, IsPending
  <2>3. (Verified /\ Numbered /\ VerifiedMeansRevoked /\ CredentialsKept /\ BlockedWhilePending)'
    BY <2>1 DEF Verified, Numbered, VerifiedMeansRevoked, CredentialsKept, BlockedWhilePending,
                Live, IsPending
  <2> QED BY <2>1, <2>2, <2>3
<1>t. config \in Config /\ Normal(config) BY DEF TypeOK, Sound
<1>l. /\ config.saved[r] \in Levels /\ config.profile[r] \in Levels /\ config.level \in Levels
      /\ "user-managed" \in Levels /\ "none" \in Levels /\ r # NoOne
      /\ config.saved \in [Receivers -> Levels] /\ config.profile \in [Receivers -> Levels]
  BY <1>t DEF Config, Levels
<1>e. ASSUME NEW k, Edit(c, k), Normal(k),
             \A q \in Receivers :
               /\ config.saved[q] # "none" => k.saved[q] # "none"
               /\ "receiver-only" \in Copies(k, q) => "receiver-only" \in Copies(config, q)
      PROVE  Facts' /\ UNCHANGED pc
  <2>1. UNCHANGED <<trust, identity, pending, session, authorized, pc, made, told>> BY <1>e DEF Edit
  <2>2. Sound(config)' BY <1>e, EditKeeps
  <2>3. (Verified /\ Numbered /\ VerifiedMeansRevoked /\ CredentialsKept /\ BlockedWhilePending)'
    BY <2>1 DEF Verified, Numbered, VerifiedMeansRevoked, CredentialsKept, BlockedWhilePending,
                Live, IsPending
  <2> QED BY <2>1, <2>2, <2>3
<1>u. ASSUME NEW l \in {config.saved[r], config.profile[r], "user-managed"}, l # "none",
             Edit(c, Use(config, r, l))
      PROVE  Facts' /\ UNCHANGED pc
  <2>1. l \in Levels BY <1>l
  <2>2. "receiver-only" = l => "receiver-only" \in Copies(config, r) BY DEF Copies
  <2>3. Normal(Use(config, r, l)) BY <1>t, <1>u, <2>1, UseNormal
  <2>4. \A q \in Receivers :
          /\ config.saved[q] # "none" => Use(config, r, l).saved[q] # "none"
          /\ "receiver-only" \in Copies(Use(config, r, l), q)
               => "receiver-only" \in Copies(config, q)
    BY <1>t, <1>u, <2>1, <2>2, UseNormal
  <2> QED BY <1>u, <1>e, <2>3, <2>4
<1>2. CASE SaveConnection(c, r) BY <1>2, <1>u DEF SaveConnection
<1>3. CASE SelectConnection(c, r) BY <1>3, <1>u DEF SelectConnection
<1>4. CASE LoadProfile(c, r) BY <1>4, <1>u DEF LoadProfile
<1>n. ASSUME NEW k \in Config, Edit(c, Normalize(k)), k.current # NoOne => k.level # "none",
             \A q \in Receivers :
               /\ "receiver-only" \in Copies(k, q) => "receiver-only" \in Copies(config, q)
               /\ k.saved[q] = config.saved[q]
      PROVE  Facts' /\ UNCHANGED pc
  <2> DEFINE n == Normalize(k)
  <2>1. /\ Normal(n) /\ n.current = k.current /\ n.level = k.level /\ n.profile = k.profile
        /\ \A q \in Receivers : n.saved[q] =
             IF k.profile[q] # "none" THEN k.profile[q]
             ELSE IF k.current = q THEN k.level ELSE k.saved[q]
    BY <1>n, NormalizeNormal
  <2> HIDE DEF n
  <2>2. \A q \in Receivers : Copies(n, q) \subseteq Copies(k, q) BY <2>1 DEF Copies
  <2>3. \A q \in Receivers : config.saved[q] # "none" => n.saved[q] # "none"
    BY <1>n, <2>1
  <2> QED BY <1>n, <1>e, <2>1, <2>2, <2>3 DEF n
<1>5. CASE SaveProfile(c, r)
  <2> DEFINE k == [config EXCEPT !.profile[r] = config.level]
  <2>1. /\ k \in Config /\ k.current = config.current /\ k.level = config.level
        /\ k.saved = config.saved /\ k.profile = [config.profile EXCEPT ![r] = config.level]
    BY <1>t, <1>l DEF Config
  <2>2. Edit(c, Normalize(k)) /\ config.current = r BY <1>5 DEF SaveProfile
  <2> HIDE DEF k
  <2>3. \A q \in Receivers : Copies(k, q) \subseteq Copies(config, q)
    BY <1>l, <2>1, <2>2 DEF Copies
  <2>4. k.current # NoOne => k.level # "none" BY <1>t, <2>1 DEF Normal
  <2> QED BY <1>n, <2>1, <2>2, <2>3, <2>4
<1>6. CASE DeleteProfile(c, r)
  <2> DEFINE k == [config EXCEPT !.profile[r] = "none"]
  <2>1. /\ k \in Config /\ k.current = config.current /\ k.level = config.level
        /\ k.saved = config.saved /\ k.profile = [config.profile EXCEPT ![r] = "none"]
    BY <1>t, <1>l DEF Config
  <2>2. Edit(c, Normalize(k)) BY <1>6 DEF DeleteProfile
  <2> HIDE DEF k
  <2>3. \A q \in Receivers : Copies(k, q) \subseteq Copies(config, q) \cup {"none"}
    BY <1>l, <2>1, <2>2 DEF Copies
  <2>4. k.current # NoOne => k.level # "none" BY <1>t, <2>1 DEF Normal
  <2> QED BY <1>n, <2>1, <2>2, <2>3, <2>4
<1>7. CASE RenameConnection(c, r)
  <2> DEFINE copy == config.saved[r]
  <2> DEFINE k == [config EXCEPT !.level = IF config.current = r THEN copy ELSE @,
                                 !.profile[r] = IF @ = "none" THEN @ ELSE copy]
  <2>1. /\ k \in Config /\ k.current = config.current
        /\ k.level = (IF config.current = r THEN copy ELSE config.level)
        /\ k.saved = config.saved
        /\ k.profile = [config.profile EXCEPT ![r] =
                          IF config.profile[r] = "none" THEN config.profile[r] ELSE copy]
    BY <1>t, <1>l DEF Config
  <2>2. Edit(c, Normalize(k)) /\ copy # "none" BY <1>7 DEF RenameConnection
  <2> HIDE DEF k
  <2>3. \A q \in Receivers : Copies(k, q) \subseteq Copies(config, q)
    BY <1>l, <2>1, <2>2 DEF Copies
  <2>4. k.current # NoOne => k.level # "none" BY <1>t, <2>1, <2>2 DEF Normal
  <2> QED BY <1>n, <2>1, <2>2, <2>3, <2>4
<1> QED BY <1>0, <1>1, <1>2, <1>3, <1>4, <1>5, <1>6, <1>7

-----------------------------------------------------------------------------
(* One lemma per kind of command                                           *)

\* In a setup only what a setup promises matters.
LEMMA InSetupIsIn ==
  ASSUME NEW c \in Commands, pc'[c] \in SetupPCs, InSetup(c)'
  PROVE  InCommand(c)' /\ pc'[c] \notin RemovalPCs
<1>1. pc'[c] \notin RemovalPCs /\ pc'[c] # "starting" BY DEF SetupPCs, RemovalPCs, LocalPCs
<1> QED BY <1>1 DEF InCommand

\* A setup keeps it too, on its way forward and when it goes back.
LEMMA SetupKeeps ==
  ASSUME RInv, Orderly, NEW c \in Commands, Setup(c), TypeOK'
  PROVE  Facts' /\ InCommand(c)' /\ pc'[c] \notin RemovalPCs
<1> USE DEF RInv, Facts
<1>t. config \in Config /\ Normal(config) /\ job[c] \in Job BY DEF TypeOK, Sound
<1>s. ASSUME pc[c] \in SetupPCs PROVE InSetup(c) /\ job[c].r \in Receivers /\ job[c].key \in Keys
  <2>1. InCommand(c) OBVIOUS
  <2>2. InSetup(c) BY <1>s, <2>1 DEF InCommand
  <2>3. job[c].key \in Keys BY <2>2, <1>t DEF InSetup, Job
  <2> QED BY <2>2, <2>3 DEF InSetup, TypeOK
<1>1. ASSUME NEW r \in Receivers, SetupGenerate(c, r)
      PROVE  Facts' /\ InCommand(c)' /\ pc'[c] \notin RemovalPCs
  <2>1. /\ pc'[c] = "apply" /\ r \in trust /\ identity[r] = NoKey
        /\ ~pending[r].verified
        /\ made' = made + 1 /\ identity' = [identity EXCEPT ![r] = made + 1]
        /\ UNCHANGED <<config, trust, pending, session, authorized, told>>
    BY <1>1, GotoGoes DEF SetupGenerate, Orderly
  <2>2. job'[c] = [NoJob EXCEPT !.r = r, !.key = made + 1] BY <1>1 DEF SetupGenerate, TypeOK
  <2>3. job'[c].r = r /\ job'[c].key = made + 1 BY <2>2 DEF NoJob
  <2>4. made \in Nat /\ made + 1 # NoKey BY DEF TypeOK, Keys, NoKey
  <2>5. Live(r) = {}
    <3>1. \A k \in Live(r) : k # NoKey BY DEF Live, TypeOK, Keys, NoKey
    <3> QED BY <3>1, <2>1 DEF CredentialsKept, Live
  <2>6. made + 1 \notin owned[r] BY <2>4 DEF Numbered
  <2>7. "receiver-only" \in Copies(config, r) => IsPending(r) BY <2>1 DEF Sound
  <2>8. \A q \in Receivers : identity'[q] = IF q = r THEN made + 1 ELSE identity[q]
    BY <2>1 DEF TypeOK
  <2>9. Sound(config)' BY <2>1, <2>4, <2>8 DEF Sound, Normal, Live, IsPending
  <2>10. CredentialsKept' BY <2>1, <2>5, <2>8 DEF CredentialsKept, Live
  <2>11. Numbered'
    <3>1. \A q \in Receivers : \A k \in owned[q] : k <= made /\ k \in Nat
      BY DEF Numbered, TypeOK, Keys
    <3> QED BY <2>1, <2>4, <3>1 DEF Numbered
  <2>12. (Verified /\ VerifiedMeansRevoked /\ BlockedWhilePending)'
    BY <2>1 DEF Verified, VerifiedMeansRevoked, BlockedWhilePending, Live, IsPending
  <2>13. InSetup(c)'
    BY <2>1, <2>3, <2>4, <2>5, <2>6, <2>7, <2>8 DEF InSetup, Live, IsPending
  <2>14. pc'[c] \in SetupPCs BY <2>1 DEF SetupPCs
  <2> QED BY <2>9, <2>10, <2>11, <2>12, <2>13, <2>14, InSetupIsIn
<1>2. CASE SetupApply(c)
  <2>0. pc[c] = "apply" /\ pc'[c] = "verify" BY <1>2, GotoGoes DEF SetupApply
  <2>1. InSetup(c) /\ job[c].r \in Receivers /\ job[c].key \in Keys BY <2>0, <1>s DEF SetupPCs
  <2>r. PICK r \in Receivers : r = job[c].r BY <2>1
  <2>2. /\ UNCHANGED <<config, trust, identity, pending, session, job, made, told>>
        /\ \A q \in Receivers : authorized'[q] =
             IF q = r THEN authorized[q] \cup {job[c].key} ELSE authorized[q]
    BY <2>r, <1>2 DEF SetupApply, TypeOK
  <2>3. \A q \in Receivers : Live(q)' = Live(q) BY <2>1, <2>r, <2>2 DEF Live, InSetup
  <2>4. Sound(config)' BY <2>2, <2>3 DEF Sound, Normal, IsPending
  <2>5. CredentialsKept' BY <2>2, <2>3 DEF CredentialsKept, Live
  <2>6. (Verified /\ Numbered /\ VerifiedMeansRevoked /\ BlockedWhilePending)'
    BY <2>2, <2>3 DEF Verified, Numbered, VerifiedMeansRevoked, BlockedWhilePending, IsPending
  <2>7. InSetup(c)' BY <2>0, <2>1, <2>r, <2>2, <2>3 DEF InSetup, IsPending
  <2>8. pc'[c] \in SetupPCs BY <2>0 DEF SetupPCs
  <2> QED BY <2>4, <2>5, <2>6, <2>7, <2>8, InSetupIsIn
<1>3. CASE SetupFails(c)
  <2>0. \/ pc[c] \in {"apply", "verify"} /\ pc'[c] = "forget"
        \/ pc[c] = "commit" /\ pc'[c] = "unsave"
    BY <1>3, GotoGoes DEF SetupFails
  <2>1. InSetup(c) /\ job[c].r \in Receivers /\ job[c].key \in Keys BY <2>0, <1>s DEF SetupPCs
  <2>r. PICK r \in Receivers : r = job[c].r BY <2>1
  <2>2. PICK complete \in BOOLEAN, left \in BOOLEAN :
          /\ job' = [job EXCEPT ![c].ok = complete]
          /\ authorized' = [authorized EXCEPT ![r] = IF left THEN @ ELSE @ \ {job[c].key}]
    BY <2>r, <1>3 DEF SetupFails, RolledBack
  <2>3. /\ UNCHANGED <<config, trust, identity, pending, session, made, told>>
        /\ job'[c].r = r /\ job'[c].key = job[c].key /\ job'[c].old = job[c].old
    BY <2>r, <1>3, <2>2, <1>t DEF SetupFails, TypeOK, Job
  <2>k. job[c].key \notin owned[r] BY <2>1, <2>r, <2>r DEF InSetup
  <2>4. \A q \in Receivers : Live(q)' = Live(q)
    <3>1. \A q \in Receivers \ {r} : authorized'[q] = authorized[q] BY <2>2 DEF TypeOK
    <3>2. authorized'[r] \in {authorized[r], authorized[r] \ {job[c].key}} BY <2>2 DEF TypeOK
    <3> QED BY <2>3, <2>k, <3>1, <3>2 DEF Live
  <2>5. Sound(config)' /\ (pc[c] = "commit" => Sound(job[c].old)')
    <3>2. Sound(config)' BY <2>3, <2>4 DEF Sound, Normal, IsPending
    <3>3. pc[c] = "commit" => Sound(job[c].old) BY <2>1, <2>r DEF InSetup
    <3>4. pc[c] = "commit" => Sound(job[c].old)'
      BY <3>3, <2>3, <2>4 DEF Sound, Normal, IsPending
    <3> QED BY <3>2, <3>4
  <2>6. CredentialsKept' BY <2>3, <2>4 DEF CredentialsKept, Live
  <2>7. (Verified /\ Numbered /\ VerifiedMeansRevoked /\ BlockedWhilePending)'
    BY <2>3, <2>4 DEF Verified, Numbered, VerifiedMeansRevoked, BlockedWhilePending, IsPending
  <2>8. InSetup(c)' BY <2>0, <2>1, <2>r, <2>3, <2>4, <2>5 DEF InSetup, IsPending
  <2>9. pc'[c] \in SetupPCs BY <2>0 DEF SetupPCs
  <2> QED BY <2>5, <2>6, <2>7, <2>8, <2>9, InSetupIsIn
<1>4. CASE SetupSave(c)
  <2>0. pc[c] = "verify" BY <1>4 DEF SetupSave
  <2>1. InSetup(c) /\ job[c].r \in Receivers /\ job[c].key \in Keys BY <2>0, <1>s DEF SetupPCs
  <2>r. PICK r \in Receivers : r = job[c].r BY <2>1
  <2>2. config' = Use(config, r, "receiver-only")
        /\ UNCHANGED <<trust, identity, pending, session, authorized, made, claimed>>
    BY <2>r, <1>4 DEF SetupSave
  <2>3. /\ Normal(config') /\ config'.saved[r] # "none"
        /\ \A q \in Receivers :
             /\ config.saved[q] # "none" => config'.saved[q] # "none"
             /\ q # r => config'.saved[q] = config.saved[q]
             /\ "receiver-only" \in Copies(config', q)
                  => q = r \/ "receiver-only" \in Copies(config, q)
    <3>1. "receiver-only" \in Levels /\ "receiver-only" # "none" BY DEF Levels
    <3> QED BY <3>1, <2>1, <2>r, <2>2, <1>t, UseNormal
  <2>4. /\ r \in trust /\ identity[r] # NoKey /\ ~pending[r].verified /\ Live(r) = {}
        /\ identity[r] = job[c].key /\ job[c].key <= made
        /\ "receiver-only" \in Copies(config, r) => IsPending(r)
    BY <2>0, <2>1, <2>r DEF InSetup
  <2>5. ASSUME \A q \in Receivers \ {r} : owned'[q] = owned[q],
               owned'[r] \in {owned[r], owned[r] \cup {job[c].key}}
        PROVE  Facts'
    <3>1. \A q \in Receivers : q # r => Live(q)' = Live(q)
      BY <2>2, <2>5 DEF Live
    <3>2. Live(r)' \subseteq Live(r) \cup {job[c].key} BY <2>1, <2>r, <2>2, <2>5 DEF Live
    <3>3. Sound(config)'
      BY <2>1, <2>r, <2>2, <2>3, <2>4, <3>1 DEF Sound, IsPending
    <3>4. CredentialsKept'
      <4>1. \A q \in Receivers : \A k \in Live(q)' : identity'[q] = k
        BY <2>2, <2>4, <3>1, <3>2 DEF CredentialsKept, Live
      <4> QED BY <4>1 DEF CredentialsKept, Live
    <3>5. Verified' BY <2>2, <2>4, <3>1 DEF Verified
    <3>6. Numbered' BY <2>2, <2>4, <2>5 DEF Numbered
    <3>7. (VerifiedMeansRevoked /\ BlockedWhilePending)'
      BY <2>2 DEF VerifiedMeansRevoked, BlockedWhilePending, IsPending
    <3> QED BY <3>3, <3>4, <3>5, <3>6, <3>7
  <2>6. CASE Ends(c) /\ owned' = [owned EXCEPT ![r] = @ \cup {job[c].key}]
    <3>1. Facts' BY <2>1, <2>r, <2>6, <2>5 DEF TypeOK
    <3> QED BY <2>6, <3>1, EndsEnd
  <2>7. CASE Goto(c, "verify", "commit") /\ job' = [job EXCEPT ![c].old = config]
               /\ UNCHANGED <<lock, owned>>
    <3>1. Facts' BY <2>7, <2>5
    <3>2. pc'[c] = "commit" BY <2>7, GotoGoes
    <3>3. job'[c].r = r /\ job'[c].key = job[c].key /\ job'[c].old = config
      BY <2>r, <2>7, <1>t DEF TypeOK, Job
    <3>4. \A q \in Receivers : Live(q)' = Live(q) BY <2>2, <2>7 DEF Live
    <3>5. Sound(config) OBVIOUS
    <3>6. Sound(job[c].old)' BY <3>3, <3>4, <3>5, <2>2 DEF Sound, Normal, IsPending
    <3>7. InSetup(c)'
      BY <2>1, <2>r, <2>2, <2>3, <2>4, <2>7, <3>2, <3>3, <3>4, <3>6 DEF InSetup, IsPending
    <3>8. pc'[c] \in SetupPCs BY <3>2 DEF SetupPCs
    <3> QED BY <3>1, <3>7, <3>8, InSetupIsIn
  <2> QED BY <2>r, <1>4, <2>6, <2>7 DEF SetupSave
<1>5. CASE SetupCommit(c)
  <2>0. pc[c] = "commit" /\ Ends(c) BY <1>5 DEF SetupCommit
  <2>1. InSetup(c) /\ job[c].r \in Receivers /\ job[c].key \in Keys BY <2>0, <1>s DEF SetupPCs
  <2>r. PICK r \in Receivers : r = job[c].r BY <2>1
  <2>2. UNCHANGED <<config, trust, identity, pending, session, authorized, made, claimed>>
    BY <1>5 DEF SetupCommit
  <2>3. \A q \in Receivers : owned'[q] = IF q = r THEN owned[q] \cup {job[c].key} ELSE owned[q]
    BY <2>r, <1>5 DEF SetupCommit, TypeOK
  <2>4. /\ r \in trust /\ identity[r] # NoKey /\ ~pending[r].verified /\ Live(r) = {}
        /\ identity[r] = job[c].key /\ job[c].key <= made /\ config.saved[r] # "none"
    BY <2>0, <2>1, <2>r DEF InSetup
  <2>5. \A q \in Receivers : q # r => Live(q)' = Live(q) BY <2>2, <2>3 DEF Live
  <2>6. Live(r)' \subseteq Live(r) \cup {job[c].key} BY <2>1, <2>r, <2>2, <2>3 DEF Live
  <2>7. Sound(config)' BY <2>2, <2>4, <2>5 DEF Sound, Normal, IsPending
  <2>8. CredentialsKept'
    <3>1. \A q \in Receivers : \A k \in Live(q)' : identity'[q] = k
      BY <2>2, <2>4, <2>5, <2>6 DEF CredentialsKept, Live
    <3> QED BY <3>1 DEF CredentialsKept, Live
  <2>9. Verified' BY <2>2, <2>4, <2>5 DEF Verified
  <2>10. Numbered' BY <2>2, <2>4, <2>3 DEF Numbered
  <2>11. (VerifiedMeansRevoked /\ BlockedWhilePending)'
    BY <2>2 DEF VerifiedMeansRevoked, BlockedWhilePending, IsPending
  <2> QED BY <2>0, <2>7, <2>8, <2>9, <2>10, <2>11, EndsEnd
<1>6. CASE SetupUnsave(c)
  <2>0. pc[c] = "unsave" /\ pc'[c] = "forget" BY <1>6, GotoGoes DEF SetupUnsave
  <2>1. InSetup(c) /\ job[c].r \in Receivers BY <2>0, <1>s DEF SetupPCs
  <2>2. UNCHANGED <<trust, identity, pending, session, authorized, made, told>>
    BY <1>6 DEF SetupUnsave
  <2>3. \A q \in Receivers : Live(q)' = Live(q) BY <2>2 DEF Live
  <2>4. \/ config' = job[c].old /\ job' = job
        \/ config' = config /\ job' = [job EXCEPT ![c].ok = FALSE]
    BY <1>6 DEF SetupUnsave
  <2>5. /\ job'[c].r = job[c].r /\ job'[c].key = job[c].key
        /\ config' = job[c].old \/ (config' = config /\ ~job'[c].ok)
    BY <2>4, <1>t DEF TypeOK, Job
  <2>6. Sound(config) /\ Sound(job[c].old) BY <2>0, <2>1 DEF InSetup
  <2>7. Sound(config)'
    <3>1. CASE config' = config BY <3>1, <2>2, <2>3, <2>6 DEF Sound, Normal, IsPending
    <3>2. CASE config' = job[c].old BY <3>2, <2>2, <2>3, <2>6 DEF Sound, Normal, IsPending
    <3> QED BY <2>5, <3>1, <3>2
  <2>8. (Verified /\ Numbered /\ VerifiedMeansRevoked /\ CredentialsKept /\ BlockedWhilePending)'
    BY <2>2 DEF Verified, Numbered, VerifiedMeansRevoked, CredentialsKept, BlockedWhilePending,
                Live, IsPending
  <2>9. InSetup(c)' BY <2>0, <2>1, <2>2, <2>3, <2>5 DEF InSetup, IsPending
  <2>10. pc'[c] \in SetupPCs BY <2>0 DEF SetupPCs
  <2> QED BY <2>7, <2>8, <2>9, <2>10, InSetupIsIn
<1>7. CASE SetupForget(c)
  <2>0. pc[c] = "forget" /\ Ends(c) BY <1>7 DEF SetupForget
  <2>1. InSetup(c) /\ job[c].r \in Receivers BY <2>0, <1>s DEF SetupPCs
  <2>r. PICK r \in Receivers : r = job[c].r BY <2>1
  <2>2. UNCHANGED <<config, trust, pending, session, authorized, made, told>>
    BY <1>7 DEF SetupForget
  <2>3. \A q \in Receivers : Live(q)' = Live(q) BY <2>2 DEF Live
  <2>4. /\ \A q \in Receivers : q # r => identity'[q] = identity[q]
        /\ identity'[r] = identity[r] \/ job[c].ok
    BY <2>r, <1>7 DEF SetupForget, TypeOK
  <2>5. Live(r) = {} /\ (job[c].ok => ("receiver-only" \in Copies(config, r) => IsPending(r)))
    BY <2>0, <2>1, <2>r DEF InSetup
  <2>6. Sound(config)' BY <2>2, <2>3, <2>4, <2>5 DEF Sound, Normal, IsPending
  <2>7. CredentialsKept'
    <3>1. \A q \in Receivers : \A k \in Live(q)' : identity'[q] = k
      BY <2>3, <2>4, <2>5 DEF CredentialsKept, Live
    <3> QED BY <3>1 DEF CredentialsKept, Live
  <2>8. (Verified /\ Numbered /\ VerifiedMeansRevoked /\ BlockedWhilePending)'
    BY <2>2 DEF Verified, Numbered, VerifiedMeansRevoked, BlockedWhilePending, Live, IsPending
  <2> QED BY <2>0, <2>6, <2>7, <2>8, EndsEnd
<1> QED BY <1>1, <1>2, <1>3, <1>4, <1>5, <1>6, <1>7 DEF Setup

\* In a removal only what a removal promises matters.
LEMMA InRemovalIsIn ==
  ASSUME NEW c \in Commands, pc'[c] \in RemovalPCs, InRemoval(c)'
  PROVE  InCommand(c)'
<1>1. pc'[c] \notin SetupPCs /\ pc'[c] # "starting" BY DEF SetupPCs, RemovalPCs, LocalPCs
<1> QED BY <1>1 DEF InCommand

\* A removal's step that only notes what it has found out.
LEMMA NoteKeeps ==
  ASSUME TypeOK, Facts, ~session, NEW r \in Receivers,
         UNCHANGED <<config, trust, identity, session, made, claimed>>,
         \A q \in Receivers :
           owned'[q] \subseteq owned[q] /\ authorized'[q] \subseteq authorized[q],
         \A q \in Receivers \ {r} : pending'[q] = pending[q],
         IsPending(r)',
         pending'[r].verified =>
           /\ Live(r)' = {} /\ config.saved[r] # "user-managed"
           /\ pending'[r].status # "pending" /\ pending'[r].level = "receiver-only"
  PROVE  Facts' /\ \A q \in Receivers : Live(q)' \subseteq Live(q)
<1> USE DEF Facts
<1>1. \A q \in Receivers : Live(q)' \subseteq Live(q) BY DEF Live
<1>2. \A q \in Receivers : IsPending(q) => IsPending(q)' BY DEF IsPending
<1>3. Sound(config)' BY <1>1, <1>2 DEF Sound, Normal
<1>4. Verified' BY <1>1 DEF Verified
<1>5. CredentialsKept' BY DEF CredentialsKept
<1>6. (Numbered /\ VerifiedMeansRevoked /\ BlockedWhilePending)'
  BY DEF Numbered, VerifiedMeansRevoked, BlockedWhilePending
<1> QED BY <1>1, <1>3, <1>4, <1>5, <1>6

\* A removal keeps it in every phase, and holds removal.lock while it lasts.
LEMMA RemovalKeeps ==
  ASSUME RInv, Orderly, NEW c \in Commands, Removal(c), TypeOK'
  PROVE  Facts' /\ InCommand(c)' /\ (pc'[c] \in RemovalPCs => lock' = c)
<1> USE DEF RInv, Facts
<1>t. config \in Config /\ Normal(config) /\ job[c] \in Job
      /\ \A q \in Receivers : config.saved[q] \in Levels /\ pending[q] \in Entry
  BY DEF TypeOK, Sound, Config
<1>s. ASSUME pc[c] \in RemovalPCs PROVE InRemoval(c) /\ lock = c
  <2>1. InCommand(c) OBVIOUS
  <2> QED BY <1>s, <2>1 DEF InCommand, Solo
<1>q. ASSUME NEW r \in Receivers, pending[r].verified, NEW l,
             l = IF config.saved[r] # "none" THEN config.saved[r] ELSE pending[r].level
      PROVE  l = "receiver-only" /\ pending[r].status # "pending" /\ Live(r) = {}
             /\ config.saved[r] # "user-managed"
  <2>1. config.saved[r] # "user-managed" BY <1>q DEF Sound
  <2>2. pending[r].level = "receiver-only" /\ pending[r].status # "pending" /\ Live(r) = {}
    BY <1>q DEF Verified
  <2>3. config.saved[r] \in {"none", "receiver-only"} BY <2>1, <1>t DEF Levels
  <2> QED BY <1>q, <2>1, <2>2, <2>3
<1>1. ASSUME NEW u \in BOOLEAN, NEW a \in BOOLEAN, RemovalBegins(c, u, a)
      PROVE  Facts' /\ InCommand(c)' /\ (pc'[c] \in RemovalPCs => lock' = c)
  <2> DEFINE targets == IF u THEN Listed ELSE Target
  <2>1. /\ job' = [job EXCEPT ![c] = [NoJob EXCEPT !.uninstall = u, !.queue = targets,
                                                   !.abandon = a /\ targets # {}]]
        /\ pc'[c] = (IF targets = {} THEN "purge" ELSE "mark")
        /\ lock' = c /\ ~session /\ (u \/ targets # {})
        /\ UNCHANGED <<files, session, authorized, made, told>>
    BY <1>1, GotoGoes DEF RemovalBegins
  <2>2. job'[c].uninstall = u /\ job'[c].queue = targets
    <3>1. job'[c] = [NoJob EXCEPT !.uninstall = u, !.queue = targets, !.abandon = a /\ targets # {}]
      BY <2>1 DEF TypeOK
    <3> HIDE DEF targets
    <3> QED BY <3>1 DEF NoJob
  <2>3. Facts' BY <2>1, SameFacts
  <2>4. u => \A q \in Receivers : Live(q) # {} => q \in targets
    BY DEF Listed, Sound
  <2>5. \A q \in Receivers : Live(q)' = Live(q) BY <2>1 DEF Live
  <2> HIDE DEF targets
  <2>6. InRemoval(c)'
    BY <2>1, <2>2, <2>4, <2>5 DEF InRemoval, RemovalPCs, LocalPCs
  <2>7. pc'[c] \in RemovalPCs BY <2>1 DEF RemovalPCs
  <2> QED BY <2>1, <2>3, <2>6, <2>7, InRemovalIsIn
<1>2. CASE Mark(c)
  <2>0. pc[c] = "mark" /\ InRemoval(c) /\ lock = c BY <1>2, <1>s DEF Mark, RemovalPCs
  <2> DEFINE level(r) ==
        IF config.saved[r] # "none" THEN config.saved[r] ELSE pending[r].level
  <2> DEFINE status(r) ==
        IF level(r) # "receiver-only" /\ ~job[c].abandon THEN "pending" ELSE pending[r].status
  <2>1. PICK r \in job[c].queue :
          /\ level(r) # "none"
          /\ pending' = [pending EXCEPT ![r] =
               [status |-> status(r), verified |-> pending[r].verified, level |-> level(r)]]
          /\ owned' = IF job[c].abandon THEN [owned EXCEPT ![r] = {}] ELSE owned
          /\ IF level(r) # "receiver-only" /\ ~job[c].abandon THEN Ends(c)
             ELSE /\ Goto(c, "mark",
                          IF job[c].abandon \/ pending[r].verified THEN "config" ELSE "remote")
                  /\ job' = [job EXCEPT ![c].r = r, ![c].ok = pending[r].verified]
                  /\ UNCHANGED lock
          /\ UNCHANGED <<config, trust, identity, session, authorized, made, claimed>>
    BY <1>2 DEF Mark
  <2>2. r \in Receivers BY <1>t DEF Job
  <2>3. /\ \A q \in Receivers \ {r} : pending'[q] = pending[q]
        /\ pending'[r].status = status(r) /\ pending'[r].verified = pending[r].verified
        /\ pending'[r].level = level(r)
    BY <2>1, <2>2 DEF TypeOK
  <2>4. \A q \in Receivers :
          owned'[q] \subseteq owned[q] /\ (q = r /\ job[c].abandon => owned'[q] = {})
    BY <2>1, <2>2 DEF TypeOK
  <2>5. ~session BY <2>0 DEF InRemoval
  <2>6. pending[r].verified => level(r) = "receiver-only" /\ pending[r].status # "pending"
          /\ Live(r) = {} /\ config.saved[r] # "user-managed"
    BY <2>2, <1>q
  <2>7. pending[r].verified => status(r) = pending[r].status BY <2>6
  <2>8. level(r) = "receiver-only" => config.saved[r] # "user-managed" OBVIOUS
  <2> HIDE DEF level, status
  <2>9. Live(r)' \subseteq Live(r) /\ (job[c].abandon => Live(r)' = {}) BY <2>1, <2>2, <2>4 DEF Live
  <2>10. Facts' /\ \A q \in Receivers : Live(q)' \subseteq Live(q)
    <3>1. IsPending(r)' BY <2>1, <2>3 DEF IsPending
    <3>2. pending'[r].verified =>
           /\ Live(r)' = {} /\ config.saved[r] # "user-managed"
           /\ pending'[r].status # "pending" /\ pending'[r].level = "receiver-only"
      BY <2>3, <2>6, <2>7, <2>9
    <3>3. \A q \in Receivers :
            owned'[q] \subseteq owned[q] /\ authorized'[q] \subseteq authorized[q]
      BY <2>1, <2>4
    <3>4. UNCHANGED <<config, trust, identity, session, made, claimed>> BY <2>1
    <3> QED BY <2>2, <2>3, <2>5, <3>1, <3>2, <3>3, <3>4, NoteKeeps
  <2>11. CASE level(r) # "receiver-only" /\ ~job[c].abandon
    BY <2>1, <2>10, <2>11, EndsEnd
  <2>12. CASE level(r) = "receiver-only" \/ job[c].abandon
    <3>1. /\ pc'[c] = (IF job[c].abandon \/ pending[r].verified THEN "config" ELSE "remote")
          /\ job' = [job EXCEPT ![c].r = r, ![c].ok = pending[r].verified]
          /\ lock' = lock
      BY <2>1, <2>12, GotoGoes
    <3>2. /\ job'[c].r = r /\ job'[c].ok = pending[r].verified
          /\ job'[c].queue = job[c].queue /\ job'[c].uninstall = job[c].uninstall
      BY <3>1, <1>t DEF TypeOK, Job
    <3>3. IsPending(r)' BY <2>1, <2>3 DEF IsPending
    <3>4. InRemoval(c)'
      BY <2>0, <2>1, <2>2, <2>3, <2>5, <2>6, <2>8, <2>9, <2>10, <2>12, <3>1, <3>2, <3>3
      DEF InRemoval, LocalPCs
    <3>5. pc'[c] \in RemovalPCs BY <3>1 DEF RemovalPCs, LocalPCs
    <3> QED BY <2>0, <2>10, <3>1, <3>4, <3>5, InRemovalIsIn
  <2> QED BY <2>11, <2>12
<1>3. CASE Revoke(c)
  <2>0. pc[c] = "remote" /\ pc'[c] = "record" BY <1>3, GotoGoes DEF Revoke
  <2>1. InRemoval(c) /\ lock = c BY <2>0, <1>s DEF RemovalPCs
  <2>r. PICK r \in Receivers : r = job[c].r BY <2>0, <2>1 DEF InRemoval
  <2>2. UNCHANGED <<files, session, lock, job, made, told>> BY <1>3 DEF Revoke
  <2>3. /\ authorized'[r] = authorized[r] \ {identity[r]}
        /\ \A q \in Receivers : authorized'[q] \subseteq authorized[q]
    BY <1>3, <2>r DEF Revoke, KeyRevoked, TypeOK
  <2>4. Live(r)' = {} BY <2>2, <2>3 DEF Live, CredentialsKept
  <2>5. ~session /\ IsPending(r) /\ pending[r].level = "receiver-only"
        /\ config.saved[r] # "user-managed" /\ ~pending[r].verified
    BY <2>0, <2>1, <2>r DEF InRemoval
  <2>6. Facts' /\ \A q \in Receivers : Live(q)' \subseteq Live(q)
    <3>1. IsPending(r)' BY <2>2, <2>5 DEF IsPending
    <3> QED BY <2>2, <2>3, <2>5, <3>1, NoteKeeps
  <2>7. InRemoval(c)'
    BY <2>0, <2>1, <2>r, <2>2, <2>4, <2>5, <2>6 DEF InRemoval, LocalPCs, IsPending
  <2>8. pc'[c] \in RemovalPCs BY <2>0 DEF RemovalPCs
  <2> QED BY <2>1, <2>2, <2>6, <2>7, <2>8, InRemovalIsIn
<1>4. CASE RevokeFails(c)
  <2>0. pc[c] = "remote" /\ Ends(c) BY <1>4 DEF RevokeFails
  <2>1. InRemoval(c) BY <2>0, <1>s DEF RemovalPCs
  <2>r. PICK r \in Receivers : r = job[c].r BY <2>0, <2>1 DEF InRemoval
  <2>2. UNCHANGED <<config, trust, identity, session, made, told>>
        /\ pending' = [pending EXCEPT ![r].status = "pending"]
    BY <1>4, <2>r DEF RevokeFails
  <2>3. \A q \in Receivers : authorized'[q] \subseteq authorized[q]
    BY <1>4, <2>r DEF RevokeFails, KeyRevoked, TypeOK
  <2>4. /\ \A q \in Receivers \ {r} : pending'[q] = pending[q]
        /\ pending'[r].verified = pending[r].verified /\ pending'[r].level = pending[r].level
    BY <2>2, <1>t DEF TypeOK, Entry
  <2>5. ~session /\ IsPending(r) /\ ~pending[r].verified
    BY <2>0, <2>1, <2>r DEF InRemoval
  <2>6. Facts'
    <3>1. IsPending(r)' BY <2>4, <2>5 DEF IsPending
    <3> QED BY <2>2, <2>3, <2>4, <2>5, <3>1, NoteKeeps
  <2> QED BY <2>0, <2>6, EndsEnd
<1>5. CASE Record(c)
  <2>0. pc[c] = "record" /\ pc'[c] = "config" BY <1>5, GotoGoes DEF Record
  <2>1. InRemoval(c) /\ lock = c BY <2>0, <1>s DEF RemovalPCs
  <2>r. PICK r \in Receivers : r = job[c].r BY <2>0, <2>1 DEF InRemoval
  <2>2. /\ UNCHANGED <<config, trust, identity, session, authorized, lock, made, told>>
        /\ pending' = [pending EXCEPT ![r].status = "remote-verified", ![r].verified = TRUE]
        /\ job' = [job EXCEPT ![c].ok = TRUE]
    BY <1>5, <2>r DEF Record
  <2>3. /\ job'[c].r = r /\ job'[c].ok = TRUE
        /\ job'[c].queue = job[c].queue /\ job'[c].uninstall = job[c].uninstall
    BY <2>r, <2>2, <1>t DEF TypeOK, Job
  <2>4. /\ \A q \in Receivers \ {r} : pending'[q] = pending[q]
        /\ pending'[r].verified = TRUE /\ pending'[r].level = pending[r].level
        /\ pending'[r].status = "remote-verified"
    BY <2>2, <1>t DEF TypeOK, Entry
  <2>5. ~session /\ IsPending(r) /\ Live(r) = {} /\ pending[r].level = "receiver-only"
        /\ config.saved[r] # "user-managed"
    BY <2>0, <2>1, <2>r DEF InRemoval
  <2>6. Live(r)' = {} /\ IsPending(r)' BY <2>2, <2>4, <2>5 DEF Live, IsPending
  <2>7. Facts' /\ \A q \in Receivers : Live(q)' \subseteq Live(q)
    BY <2>2, <2>4, <2>5, <2>6, NoteKeeps
  <2>8. InRemoval(c)'
    BY <2>0, <2>1, <2>r, <2>2, <2>3, <2>4, <2>5, <2>6, <2>7 DEF InRemoval, LocalPCs
  <2>9. pc'[c] \in RemovalPCs BY <2>0 DEF RemovalPCs, LocalPCs
  <2> QED BY <2>1, <2>2, <2>7, <2>8, <2>9, InRemovalIsIn
<1>6. CASE DropConnection(c)
  <2>0. pc[c] = "config" /\ pc'[c] = "trust" BY <1>6, GotoGoes DEF DropConnection
  <2>1. InRemoval(c) /\ lock = c BY <2>0, <1>s DEF RemovalPCs, LocalPCs
  <2>r. PICK r \in Receivers : r = job[c].r BY <2>0, <2>1 DEF InRemoval
  <2>2. /\ UNCHANGED <<trust, identity, pending, session, authorized, lock, job, made, told>>
        /\ config' = [current |-> IF config.current = r THEN NoOne ELSE config.current,
                      level   |-> IF config.current = r THEN "none" ELSE config.level,
                      saved   |-> [config.saved EXCEPT ![r] = "none"],
                      profile |-> [config.profile EXCEPT ![r] = "none"]]
    BY <1>6, <2>r DEF DropConnection
  <2>3. /\ config.saved \in [Receivers -> Levels] /\ config.profile \in [Receivers -> Levels]
        /\ r # NoOne
    BY <1>t DEF Config
  <2>4. /\ config'.saved[r] = "none" /\ Copies(config', r) = {"none"}
        /\ \A q \in Receivers \ {r} :
             config'.saved[q] = config.saved[q] /\ Copies(config', q) \subseteq Copies(config, q)
    BY <2>2, <2>3 DEF Copies
  <2>5. Normal(config') BY <1>t, <2>2, <2>3 DEF Normal
  <2>6. ~session /\ IsPending(r) /\ Live(r) = {} /\ job[c].ok = pending[r].verified
    BY <2>0, <2>1, <2>r DEF InRemoval, LocalPCs
  <2>7. \A q \in Receivers : Live(q)' = Live(q) BY <2>2 DEF Live
  <2>8. Sound(config)' BY <2>2, <2>4, <2>5, <2>6, <2>7 DEF Sound, IsPending
  <2>9. (Verified /\ Numbered /\ VerifiedMeansRevoked /\ CredentialsKept /\ BlockedWhilePending)'
    BY <2>2 DEF Verified, Numbered, VerifiedMeansRevoked, CredentialsKept, BlockedWhilePending,
                Live, IsPending
  <2>10. InRemoval(c)'
    BY <2>0, <2>1, <2>r, <2>2, <2>4, <2>6, <2>7 DEF InRemoval, LocalPCs, IsPending
  <2>11. pc'[c] \in RemovalPCs BY <2>0 DEF RemovalPCs, LocalPCs
  <2> QED BY <2>1, <2>2, <2>8, <2>9, <2>10, <2>11, InRemovalIsIn
<1>7. CASE DropTrust(c)
  <2>0. pc[c] = "trust" /\ pc'[c] \in {"identity", "finish"} BY <1>7, GotoGoes DEF DropTrust
  <2>1. InRemoval(c) /\ lock = c BY <2>0, <1>s DEF RemovalPCs, LocalPCs
  <2>r. PICK r \in Receivers : r = job[c].r BY <2>0, <2>1 DEF InRemoval
  <2>2. /\ UNCHANGED <<config, identity, pending, session, authorized, lock, job, made, told>>
        /\ trust' = trust \ {r}
    BY <1>7, <2>r DEF DropTrust
  <2>3. ~session /\ IsPending(r) BY <2>0, <2>1, <2>r DEF InRemoval
  <2>4. \A q \in Receivers : Live(q)' = Live(q) BY <2>2 DEF Live
  <2>5. Sound(config)' BY <2>2, <2>3, <2>4 DEF Sound, Normal, IsPending
  <2>6. (Verified /\ Numbered /\ VerifiedMeansRevoked /\ CredentialsKept /\ BlockedWhilePending)'
    BY <2>2 DEF Verified, Numbered, VerifiedMeansRevoked, CredentialsKept, BlockedWhilePending,
                Live, IsPending
  <2>7. InRemoval(c)' BY <2>0, <2>1, <2>r, <2>2, <2>4 DEF InRemoval, LocalPCs, IsPending
  <2>8. pc'[c] \in RemovalPCs BY <2>0 DEF RemovalPCs, LocalPCs
  <2> QED BY <2>1, <2>2, <2>5, <2>6, <2>7, <2>8, InRemovalIsIn
<1>8. CASE DropIdentity(c)
  <2>0. pc[c] = "identity" /\ pc'[c] = "finish" BY <1>8, GotoGoes DEF DropIdentity
  <2>1. InRemoval(c) /\ lock = c BY <2>0, <1>s DEF RemovalPCs, LocalPCs
  <2>r. PICK r \in Receivers : r = job[c].r BY <2>0, <2>1 DEF InRemoval
  <2>2. /\ UNCHANGED <<config, trust, pending, session, authorized, lock, job, made, told>>
        /\ \A q \in Receivers \ {r} : identity'[q] = identity[q]
    BY <1>8, <2>r DEF DropIdentity, TypeOK
  <2>3. ~session /\ IsPending(r) /\ Live(r) = {} BY <2>0, <2>1, <2>r DEF InRemoval, LocalPCs
  <2>4. \A q \in Receivers : Live(q)' = Live(q) BY <2>2 DEF Live
  <2>5. Sound(config)' BY <2>2, <2>3, <2>4 DEF Sound, Normal, IsPending
  <2>6. CredentialsKept'
    <3>1. \A q \in Receivers : \A k \in Live(q)' : identity'[q] = k
      BY <2>2, <2>3, <2>4 DEF CredentialsKept, Live
    <3> QED BY <3>1 DEF CredentialsKept, Live
  <2>7. (Verified /\ Numbered /\ VerifiedMeansRevoked /\ BlockedWhilePending)'
    BY <2>2 DEF Verified, Numbered, VerifiedMeansRevoked, BlockedWhilePending, Live, IsPending
  <2>8. InRemoval(c)' BY <2>0, <2>1, <2>r, <2>2, <2>4 DEF InRemoval, LocalPCs, IsPending
  <2>9. pc'[c] \in RemovalPCs BY <2>0 DEF RemovalPCs, LocalPCs
  <2> QED BY <2>1, <2>2, <2>5, <2>6, <2>7, <2>8, <2>9, InRemovalIsIn
<1>9. CASE LocalFails(c)
  <2>0. pc[c] \in LocalPCs /\ Ends(c) BY <1>9 DEF LocalFails
  <2>1. InRemoval(c) BY <2>0, <1>s DEF RemovalPCs
  <2>r. PICK r \in Receivers : r = job[c].r BY <2>0, <2>1 DEF InRemoval, LocalPCs
  <2>2. UNCHANGED <<config, trust, identity, session, authorized, made, told>>
        /\ pending' = [pending EXCEPT ![r].status = "pending-local-cleanup",
                                      ![r].verified = job[c].ok]
    BY <1>9, <2>r DEF LocalFails
  <2>3. ~session /\ IsPending(r) /\ Live(r) = {} /\ job[c].ok = pending[r].verified
    BY <2>0, <2>1, <2>r DEF InRemoval, LocalPCs
  <2>4. /\ \A q \in Receivers \ {r} : pending'[q] = pending[q]
        /\ pending'[r].verified = job[c].ok /\ pending'[r].level = pending[r].level
        /\ pending'[r].status = "pending-local-cleanup"
    BY <2>2, <1>t DEF TypeOK, Entry
  <2>5. job[c].ok => pending[r].level = "receiver-only" /\ config.saved[r] # "user-managed"
    BY <2>3 DEF Verified, Sound
  <2>6. Live(r)' = {} /\ IsPending(r)' BY <2>2, <2>3, <2>4 DEF Live, IsPending
  <2>7. Facts' BY <2>2, <2>3, <2>4, <2>5, <2>6, NoteKeeps
  <2> QED BY <2>0, <2>7, EndsEnd
<1>c. \A q \in Receivers : Live(q) = {} => Claim(q) = claimed BY DEF Claim, Live, TypeOK
<1>10. CASE FinishOne(c)
  <2>0. pc[c] = "finish" BY <1>10 DEF FinishOne
  <2>1. InRemoval(c) /\ lock = c BY <2>0, <1>s DEF RemovalPCs, LocalPCs
  <2>r. PICK r \in Receivers : r = job[c].r BY <2>0, <2>1 DEF InRemoval
  <2>2. ~session /\ Live(r) = {} /\ Copies(config, r) = {"none"}
    BY <2>0, <2>1, <2>r DEF InRemoval, LocalPCs
  <2>3. /\ UNCHANGED <<config, trust, identity, session, authorized, made, owned, claimed>>
        /\ pending' = [pending EXCEPT ![r] = NoEntry]
    BY <1>10, <1>c, <2>r, <2>2 DEF FinishOne
  <2>4. /\ \A q \in Receivers \ {r} : pending'[q] = pending[q]
        /\ ~pending'[r].verified
    BY <2>3 DEF TypeOK, NoEntry
  <2>5. \A q \in Receivers : Live(q)' = Live(q) BY <2>3 DEF Live
  <2>6. Sound(config)' BY <2>2, <2>3, <2>4, <2>5 DEF Sound, Normal, IsPending
  <2>7. Verified' BY <2>3, <2>4, <2>5 DEF Verified
  <2>8. (Numbered /\ VerifiedMeansRevoked /\ CredentialsKept /\ BlockedWhilePending)'
    BY <2>2, <2>3 DEF Numbered, VerifiedMeansRevoked, CredentialsKept, BlockedWhilePending
  <2>9. CASE Ends(c) BY <2>6, <2>7, <2>8, <2>9, EndsEnd
  <2>10. CASE ~Ends(c)
    <3> DEFINE rest == job[c].queue \ {r}
    <3>1. /\ job[c].uninstall /\ job' = [job EXCEPT ![c].queue = rest] /\ UNCHANGED lock
          /\ pc'[c] = IF rest = {} THEN "purge" ELSE "mark"
      BY <1>10, <2>10, <2>r, GotoGoes DEF FinishOne
    <3>2. job'[c].queue = rest /\ job'[c].uninstall = job[c].uninstall
      BY <3>1, <1>t DEF TypeOK, Job
    <3>3. \A q \in Receivers : Live(q)' # {} => q \in rest
      BY <2>1, <2>2, <2>5, <3>1 DEF InRemoval
    <3>4. InRemoval(c)' BY <2>2, <2>3, <3>1, <3>2, <3>3 DEF InRemoval, LocalPCs
    <3>5. pc'[c] \in RemovalPCs BY <3>1 DEF RemovalPCs
    <3> QED BY <2>1, <2>6, <2>7, <2>8, <3>1, <3>4, <3>5, InRemovalIsIn
  <2> QED BY <2>9, <2>10
<1>11. CASE Purge(c)
  <2>0. pc[c] = "purge" /\ Ends(c) BY <1>11 DEF Purge
  <2>1. InRemoval(c) BY <2>0, <1>s DEF RemovalPCs
  <2>2. \A q \in Receivers : Live(q) = {} BY <2>0, <2>1 DEF InRemoval
  <2>3. UNCHANGED <<session, authorized, made, owned, pending>>
        /\ \/ UNCHANGED <<files, claimed>>
           \/ /\ config' = EmptyConfig /\ \A r \in Receivers : ~IsPending(r)
              /\ claimed' = IF job[c].abandon THEN claimed ELSE [r \in Receivers |-> Claim(r)[r]]
    BY <1>11 DEF Purge
  <2>4. \A q \in Receivers : claimed'[q] = {}
    <3>1. \A q \in Receivers : Claim(q)[q] = {} BY <1>c, <2>2 DEF VerifiedMeansRevoked
    <3> QED BY <2>3, <3>1 DEF VerifiedMeansRevoked
  <2>5. \A q \in Receivers : Live(q)' = {} BY <2>2, <2>3 DEF Live
  <2>6. Sound(config)'
    <3>1. CASE UNCHANGED <<files, claimed>>
      BY <2>3, <2>5, <3>1 DEF Sound, Normal, IsPending
    <3>2. CASE config' = EmptyConfig
      <4>1. \A q \in Receivers : Copies(EmptyConfig, q) = {"none"} /\ EmptyConfig.saved[q] = "none"
              /\ EmptyConfig.profile[q] = "none"
        BY DEF Copies, EmptyConfig
      <4>2. EmptyConfig.current = NoOne BY DEF EmptyConfig
      <4> QED BY <2>5, <3>2, <4>1, <4>2 DEF Sound, Normal
    <3> QED BY <2>3, <3>1, <3>2
  <2>7. CredentialsKept' BY <2>5 DEF CredentialsKept, Live
  <2>8. (Verified /\ Numbered /\ VerifiedMeansRevoked /\ BlockedWhilePending)'
    BY <2>3, <2>4, <2>5 DEF Verified, Numbered, VerifiedMeansRevoked, BlockedWhilePending, IsPending
  <2> QED BY <2>0, <2>6, <2>7, <2>8, EndsEnd
<1> QED BY <1>1, <1>2, <1>3, <1>4, <1>5, <1>6, <1>7, <1>8, <1>9, <1>10, <1>11 DEF Removal

\* Start and a killed command keep it.
LEMMA OthersKeep ==
  ASSUME RInv, Orderly, NEW c \in Commands, StartChecks(c) \/ StartSpawns(c) \/ Crash(c)
  PROVE  Facts' /\ InCommand(c)' /\ (pc'[c] \in RemovalPCs => lock' = c)
<1> USE DEF RInv
<1>0. "starting" \notin SetupPCs /\ "starting" \notin RemovalPCs
      /\ "idle" \notin SetupPCs /\ "idle" \notin RemovalPCs
  BY DEF SetupPCs, RemovalPCs, LocalPCs
<1>1. CASE StartChecks(c)
  <2>1. pc'[c] = "starting" /\ UNCHANGED <<config, trust, identity, pending>>
        /\ UNCHANGED <<session, authorized, made, told>> /\ \A r \in Receivers : ~IsPending(r)
    BY <1>1, GotoGoes DEF StartChecks
  <2>2. Facts' BY <2>1, SameFacts
  <2>3. InCommand(c)' BY <1>0, <2>1 DEF InCommand, IsPending
  <2> QED BY <1>0, <2>1, <2>2, <2>3
<1>2. CASE StartSpawns(c)
  <2>1. pc[c] = "starting" /\ pc'[c] = "idle"
        /\ UNCHANGED <<config, trust, identity, pending, authorized, made, told>>
    BY <1>2, GotoGoes DEF StartSpawns
  <2>2. \A r \in Receivers : ~IsPending(r) BY <2>1 DEF InCommand
  <2>3. (Sound(config) /\ Verified /\ Numbered /\ VerifiedMeansRevoked /\ CredentialsKept)'
    BY <2>1 DEF Facts, Sound, Normal, Verified, Numbered, VerifiedMeansRevoked,
                CredentialsKept, Live, IsPending
  <2>4. BlockedWhilePending' BY <2>1, <2>2 DEF BlockedWhilePending, IsPending
  <2>5. InCommand(c)' BY <1>0, <2>1 DEF InCommand
  <2> QED BY <1>0, <2>1, <2>3, <2>4, <2>5 DEF Facts
<1>3. CASE Crash(c)
  <2>1. Ends(c) /\ UNCHANGED <<config, trust, identity, pending, session, authorized, made, told>>
    BY <1>3 DEF Crash
  <2> QED BY <2>1, SameFacts, EndsEnd
<1> QED BY <1>1, <1>2, <1>3

\* So does a Session that ends.
LEMMA SessionEndKeeps ==
  ASSUME RInv, SessionEnds PROVE RInv'
<1> USE DEF RInv
<1>1. /\ UNCHANGED <<config, trust, identity, pending, authorized, lock, pc, job, made, told>>
      /\ session' = FALSE
  BY DEF SessionEnds
<1>2. TypeOK' BY <1>1 DEF TypeOK
<1>3. Solo' BY <1>1 DEF Solo
<1>4. Facts'
  BY <1>1 DEF Facts, Sound, Normal, Verified, Numbered, VerifiedMeansRevoked, CredentialsKept,
              BlockedWhilePending, Live, IsPending
<1>5. ASSUME NEW c \in Commands PROVE InCommand(c)'
  <2>1. InCommand(c) OBVIOUS
  <2>2. InSetup(c) => InSetup(c)' BY <1>1 DEF InSetup, Sound, Normal, Live, IsPending
  <2>3. InRemoval(c) => InRemoval(c)' BY <1>1 DEF InRemoval, Live, IsPending
  <2> QED BY <1>1, <2>1, <2>2, <2>3 DEF InCommand, IsPending
<1> QED BY <1>2, <1>3, <1>4, <1>5

-----------------------------------------------------------------------------
(* The invariant holds.                                                    *)

\* At first nothing is set up and nothing is removed.
LEMMA InitRInv == Init => RInv
<1> SUFFICES ASSUME Init PROVE RInv OBVIOUS
<1> USE DEF Init
<1>0. "idle" \notin SetupPCs /\ "idle" \notin RemovalPCs BY DEF SetupPCs, RemovalPCs, LocalPCs
<1>1. TypeOK BY NothingTyped DEF TypeOK
<1>2. Solo BY <1>0 DEF Solo
<1>3. \A r \in Receivers : ~IsPending(r) /\ ~pending[r].verified /\ Live(r) = {}
  BY DEF IsPending, NoEntry, Live
<1>4. Sound(config) BY <1>3 DEF EmptyConfig, Sound, Normal, Copies
<1>5. Verified /\ Numbered /\ VerifiedMeansRevoked /\ CredentialsKept /\ BlockedWhilePending
  BY <1>3 DEF Verified, Numbered, VerifiedMeansRevoked, CredentialsKept, BlockedWhilePending
<1>6. \A c \in Commands : InCommand(c) BY <1>0 DEF InCommand
<1> QED BY <1>1, <1>2, <1>4, <1>5, <1>6 DEF RInv, Facts

\* Every step is of one command, while the others are idle, or ends the Session.
LEMMA StepRInv == RInv /\ Orderly /\ [Next]_vars => RInv'
<1> SUFFICES ASSUME RInv, Orderly, [Next]_vars PROVE RInv' OBVIOUS
<1>t. TypeOK BY DEF RInv
<1>1. ASSUME NEW c \in Commands, Connections(c) PROVE RInv'
  <2>1. TypeOK' BY <1>1, <1>t, EditTyped
  <2>2. Facts' /\ UNCHANGED pc BY <1>1, ConnectionsKeep
  <2>3. Others(c) BY <1>1, OthersIdle
  <2>4. pc[c] = "idle"
    BY <1>1 DEF Connections, ApproveTrust, SaveConnection, SelectConnection, RenameConnection,
                SaveProfile, DeleteProfile, LoadProfile, Edit
  <2>5. InCommand(c)' /\ pc'[c] \notin RemovalPCs
    BY <2>2, <2>4 DEF InCommand, SetupPCs, RemovalPCs, LocalPCs
  <2> QED BY <2>1, <2>2, <2>3, <2>5, Conclude
<1>2. ASSUME NEW c \in Commands, Setup(c) PROVE RInv'
  <2>1. TypeOK' BY <1>2, <1>t, NamedInCommand, SetupTyped
  <2>2. Others(c) BY <1>2, OthersIdle
  <2> QED BY <1>2, <2>1, <2>2, SetupKeeps, Conclude
<1>3. ASSUME NEW c \in Commands, Removal(c) PROVE RInv'
  <2>1. TypeOK' BY <1>3, <1>t, NamedInCommand, RemovalTyped
  <2>2. Others(c) BY <1>3, OthersIdle
  <2> QED BY <1>3, <2>1, <2>2, RemovalKeeps, Conclude
<1>4. ASSUME NEW c \in Commands, StartChecks(c) \/ StartSpawns(c) \/ Crash(c) PROVE RInv'
  <2>1. TypeOK' BY <1>4, <1>t, OtherTyped
  <2>2. Others(c) BY <1>4, OthersIdle
  <2> QED BY <1>4, <2>1, <2>2, OthersKeep, Conclude
<1>5. CASE SessionEnds BY <1>5, SessionEndKeeps
<1>6. CASE UNCHANGED vars
  <2>1. UNCHANGED <<config, trust, identity, pending, session, authorized>>
        /\ UNCHANGED <<lock, pc, job, made, told>>
    BY <1>6 DEF vars
  <2>2. TypeOK' BY <1>t, <2>1 DEF TypeOK
  <2>3. Solo' BY <2>1 DEF RInv, Solo
  <2>4. Facts' BY <2>1, SameFacts DEF RInv
  <2>5. ASSUME NEW c \in Commands PROVE InCommand(c)'
    <3>1. InCommand(c) BY DEF RInv
    <3>2. InSetup(c) => InSetup(c)' BY <2>1 DEF InSetup, Sound, Normal, Live, IsPending
    <3>3. InRemoval(c) => InRemoval(c)' BY <2>1 DEF InRemoval, Live, IsPending
    <3> QED BY <2>1, <3>1, <3>2, <3>3 DEF InCommand, IsPending
  <2> QED BY <2>2, <2>3, <2>4, <2>5 DEF RInv
<1> QED BY <1>1, <1>2, <1>3, <1>4, <1>5, <1>6 DEF Next

\* The invariant that all the theorems below follow from.
LEMMA Invariance == ASSUME Orderly PROVE Spec => []RInv
BY InitRInv, StepRInv, PTL DEF Spec

-----------------------------------------------------------------------------
(* Whose private key goes: also that of a setup nobody was told about      *)

Accepted(r) == identity[r] \in authorized[r]

\* A complete roll-back has taken the key away.
Undone(c) ==
  pc[c] \in {"unsave", "forget"} /\ job[c].ok => job[c].key \notin authorized[job[c].r]

\* A removal that was not told to abandon the Receiver deletes what is revoked.
Cleared(c) ==
  pc[c] = "record" \/ (pc[c] \in LocalPCs /\ ~job[c].abandon) => ~Accepted(job[c].r)

Gone ==
  /\ \A r \in Receivers : pending[r].verified => ~Accepted(r)
  /\ \A c \in Commands : Undone(c) /\ Cleared(c)

\* Idle commands promise nothing.
LEMMA GoneConclude ==
  ASSUME NEW c \in Commands, Others(c), Undone(c)', Cleared(c)',
         \A r \in Receivers : pending'[r].verified => ~Accepted(r)'
  PROVE  Gone'
<1>1. \A d \in Commands \ {c} : Undone(d)' /\ Cleared(d)'
  BY DEF Others, Undone, Cleared, LocalPCs
<1> QED BY <1>1 DEF Gone

\* Where a command has nothing to promise, the files decide.
LEMMA GoneOnIdle ==
  ASSUME Gone, NEW c \in Commands, Others(c),
         pc'[c] \notin {"unsave", "forget", "record"} \cup LocalPCs,
         \A r \in Receivers : pending'[r].verified => pending[r].verified,
         \A r \in Receivers : Accepted(r)' => Accepted(r)
  PROVE  Gone'
<1>1. Undone(c)' /\ Cleared(c)' BY DEF Undone, Cleared, LocalPCs
<1> QED BY <1>1, GoneConclude DEF Gone

\* A setup's step: only SetupGenerate and SetupApply make a key accepted, and
\* the Receiver they do it for has no verified removal.
LEMMA SetupGone ==
  ASSUME RInv, Gone, Orderly, NEW c \in Commands, Setup(c)
  PROVE  Gone'
<1> USE DEF RInv
<1>o. Others(c) BY OthersIdle
<1>l. {"idle", "apply", "verify", "commit", "unsave", "forget"} \cap ({"record"} \cup LocalPCs) = {}
  BY DEF LocalPCs
<1>s. ASSUME pc[c] \in SetupPCs
      PROVE  /\ job[c].r \in Receivers /\ ~pending[job[c].r].verified
             /\ job[c].key = identity[job[c].r] /\ job[c].key \in Keys
  <2>1. InCommand(c) OBVIOUS
  <2> QED BY <1>s, <2>1 DEF InCommand, InSetup, TypeOK, Job
<1>n. ASSUME NEW r \in Receivers PROVE NoKey \notin authorized[r]
  BY DEF TypeOK, Keys, NoKey
<1>1. ASSUME NEW r \in Receivers, SetupGenerate(c, r) PROVE Gone'
  <2>1. /\ pc'[c] = "apply" /\ ~pending[r].verified /\ UNCHANGED <<pending, authorized>>
        /\ \A q \in Receivers \ {r} : identity'[q] = identity[q]
    BY <1>1, GotoGoes DEF SetupGenerate, Orderly, TypeOK
  <2>2. Undone(c)' /\ Cleared(c)' BY <1>l, <2>1 DEF Undone, Cleared
  <2>3. \A q \in Receivers : pending'[q].verified => ~Accepted(q)'
    BY <2>1 DEF Gone, Accepted
  <2> QED BY <1>o, <2>2, <2>3, GoneConclude
<1>2. CASE SetupApply(c)
  <2>1. pc[c] = "apply" /\ pc'[c] = "verify" BY <1>2, GotoGoes DEF SetupApply
  <2>2. job[c].r \in Receivers /\ ~pending[job[c].r].verified BY <1>s, <2>1 DEF SetupPCs
  <2>3. /\ UNCHANGED <<pending, identity>>
        /\ \A q \in Receivers \ {job[c].r} : authorized'[q] = authorized[q]
    BY <1>2 DEF SetupApply, TypeOK
  <2>4. Undone(c)' /\ Cleared(c)' BY <1>l, <2>1 DEF Undone, Cleared
  <2>5. \A q \in Receivers : pending'[q].verified => ~Accepted(q)'
    BY <2>2, <2>3 DEF Gone, Accepted
  <2> QED BY <1>o, <2>4, <2>5, GoneConclude
<1>3. CASE SetupFails(c)
  <2>1. pc[c] \in {"apply", "verify", "commit"} /\ pc'[c] \in {"forget", "unsave"}
    BY <1>3, GotoGoes DEF SetupFails
  <2>2. job[c].r \in Receivers BY <1>s, <2>1 DEF SetupPCs
  <2>r. PICK r \in Receivers : r = job[c].r BY <2>2
  <2>3. PICK complete \in BOOLEAN, left \in BOOLEAN :
          /\ ~(complete /\ left)
          /\ job' = [job EXCEPT ![c].ok = complete]
          /\ authorized' = [authorized EXCEPT ![r] = IF left THEN @ ELSE @ \ {job[c].key}]
    BY <2>r, <1>3 DEF SetupFails, RolledBack
  <2>4. job'[c].r = r /\ job'[c].key = job[c].key /\ job'[c].ok = complete
    BY <2>r, <2>3 DEF TypeOK, Job
  <2>5. complete => job[c].key \notin authorized'[r] BY <2>3 DEF TypeOK
  <2>6. Undone(c)' /\ Cleared(c)' BY <1>l, <2>1, <2>4, <2>5 DEF Undone, Cleared
  <2>7. UNCHANGED <<pending, identity>> /\ \A q \in Receivers : authorized'[q] \subseteq authorized[q]
    BY <1>3, <2>3 DEF SetupFails, TypeOK
  <2>8. \A q \in Receivers : pending'[q].verified => ~Accepted(q)' BY <2>7 DEF Gone, Accepted
  <2> QED BY <1>o, <2>6, <2>8, GoneConclude
<1>4. CASE SetupSave(c) \/ SetupCommit(c)
  <2>1. pc'[c] \in {"commit", "idle"} BY <1>4, GotoGoes, EndsEnd DEF SetupSave, SetupCommit
  <2>2. UNCHANGED <<pending, identity, authorized>> BY <1>4 DEF SetupSave, SetupCommit
  <2> QED BY <1>o, <1>l, <2>1, <2>2, GoneOnIdle DEF Accepted
<1>5. CASE SetupUnsave(c)
  <2>1. pc[c] = "unsave" /\ pc'[c] = "forget" /\ UNCHANGED <<pending, identity, authorized>>
    BY <1>5, GotoGoes DEF SetupUnsave
  <2>2. job'[c].r = job[c].r /\ job'[c].key = job[c].key /\ (job'[c].ok => job[c].ok)
    BY <1>5 DEF SetupUnsave, TypeOK, Job
  <2>3. Undone(c)' /\ Cleared(c)' BY <1>l, <2>1, <2>2 DEF Undone, Cleared, Gone
  <2>4. \A q \in Receivers : pending'[q].verified => ~Accepted(q)' BY <2>1 DEF Gone, Accepted
  <2> QED BY <1>o, <2>3, <2>4, GoneConclude
<1>6. CASE SetupForget(c)
  <2>1. pc'[c] = "idle" /\ UNCHANGED <<pending, authorized>>
        /\ \A q \in Receivers : identity'[q] \in {identity[q], NoKey}
    BY <1>6, EndsEnd DEF SetupForget, TypeOK
  <2> QED BY <1>o, <1>l, <1>n, <2>1, GoneOnIdle DEF Accepted
<1> QED BY <1>1, <1>2, <1>3, <1>4, <1>5, <1>6 DEF Setup

\* A removal's step: no removal makes a key accepted, and it goes on to the local
\* deletions only after the Receiver's answer, an earlier one's, or an abandonment.
LEMMA RemovalGone ==
  ASSUME RInv, Gone, Orderly, NEW c \in Commands, Removal(c)
  PROVE  Gone'
<1> USE DEF RInv
<1>o. Others(c) BY OthersIdle
<1>l. {"idle", "mark", "remote", "purge", "record"} \cap LocalPCs = {} BY DEF LocalPCs
<1>s. ASSUME pc[c] \in RemovalPCs PROVE InRemoval(c)
  <2>1. InCommand(c) OBVIOUS
  <2> QED BY <1>s, <2>1 DEF InCommand
<1>n. ASSUME NEW r \in Receivers PROVE NoKey \notin authorized[r]
  BY DEF TypeOK, Keys, NoKey
<1>1. ASSUME NEW u \in BOOLEAN, NEW a \in BOOLEAN, RemovalBegins(c, u, a) PROVE Gone'
  <2>1. pc'[c] \in {"purge", "mark"} /\ UNCHANGED <<pending, identity, authorized>>
    BY <1>1, GotoGoes DEF RemovalBegins
  <2> QED BY <1>o, <1>l, <2>1, GoneOnIdle DEF Accepted
<1>2. CASE Mark(c)
  <2> DEFINE level(r) ==
        IF config.saved[r] # "none" THEN config.saved[r] ELSE pending[r].level
  <2> DEFINE status(r) ==
        IF level(r) # "receiver-only" /\ ~job[c].abandon THEN "pending" ELSE pending[r].status
  <2>m. PICK r \in job[c].queue :
          /\ pending' = [pending EXCEPT ![r] =
               [status |-> status(r), verified |-> pending[r].verified, level |-> level(r)]]
          /\ UNCHANGED <<identity, authorized>>
          /\ \/ Ends(c)
             \/ /\ Goto(c, "mark",
                        IF job[c].abandon \/ pending[r].verified THEN "config" ELSE "remote")
                /\ job' = [job EXCEPT ![c].r = r, ![c].ok = pending[r].verified]
    BY <1>2 DEF Mark
  <2>2. r \in Receivers BY DEF TypeOK, Job
  <2>1. UNCHANGED <<identity, authorized>>
        /\ \A q \in Receivers : pending'[q].verified = pending[q].verified
    <3> HIDE DEF level, status
    <3> QED BY <2>m, <2>2 DEF TypeOK
  <2>3. \A q \in Receivers : pending'[q].verified => ~Accepted(q)' BY <2>1 DEF Gone, Accepted
  <2>4. CASE Ends(c)
    <3>1. pc'[c] = "idle" BY <2>4, EndsEnd
    <3> QED BY <1>o, <1>l, <2>1, <3>1, GoneOnIdle DEF Accepted
  <2>5. CASE ~Ends(c)
    <3>1. /\ job'[c].r = r /\ job'[c].abandon = job[c].abandon
          /\ pc'[c] \in {"config", "remote"}
          /\ pc'[c] = "config" => job[c].abandon \/ pending[r].verified
      BY <2>m, <2>2, <2>5, GotoGoes DEF TypeOK, Job
    <3>2. Undone(c)' /\ Cleared(c)'
      BY <1>l, <2>1, <2>2, <3>1 DEF Undone, Cleared, Gone, Accepted
    <3> QED BY <1>o, <2>3, <3>2, GoneConclude
  <2> QED BY <2>4, <2>5
<1>3. CASE Revoke(c)
  <2>0. pc[c] = "remote" /\ pc'[c] = "record" BY <1>3, GotoGoes DEF Revoke
  <2>1. InRemoval(c) BY <2>0, <1>s DEF RemovalPCs
  <2>r. PICK r \in Receivers : r = job[c].r BY <2>0, <2>1 DEF InRemoval
  <2>2. UNCHANGED <<pending, identity, job>>
        /\ authorized' = [authorized EXCEPT ![r] = @ \ {identity[r]}]
    BY <1>3, <2>r DEF Revoke, KeyRevoked
  <2>3. authorized'[r] = authorized[r] \ {identity[r]}
        /\ \A q \in Receivers : authorized'[q] \subseteq authorized[q]
    BY <2>2 DEF TypeOK
  <2>4. Undone(c)' /\ Cleared(c)' BY <2>0, <2>r, <2>2, <2>3 DEF Undone, Cleared, Accepted
  <2>5. \A q \in Receivers : pending'[q].verified => ~Accepted(q)'
    BY <2>2, <2>3 DEF Gone, Accepted
  <2> QED BY <1>o, <2>4, <2>5, GoneConclude
<1>4. CASE RevokeFails(c)
  <2>1. pc'[c] = "idle" /\ UNCHANGED identity
        /\ \A q \in Receivers : pending'[q].verified = pending[q].verified
    BY <1>4, EndsEnd DEF RevokeFails, TypeOK, Entry
  <2>2. \A q \in Receivers : authorized'[q] \subseteq authorized[q]
    BY <1>4 DEF RevokeFails, KeyRevoked, TypeOK
  <2> QED BY <1>o, <1>l, <2>1, <2>2, GoneOnIdle DEF Accepted
<1>5. CASE Record(c)
  <2>0. pc[c] = "record" /\ pc'[c] = "config" BY <1>5, GotoGoes DEF Record
  <2>1. /\ UNCHANGED <<identity, authorized>> /\ job'[c].r = job[c].r
        /\ \A q \in Receivers \ {job[c].r} : pending'[q] = pending[q]
    BY <1>5 DEF Record, TypeOK, Job
  <2>2. ~Accepted(job[c].r) BY <2>0 DEF Gone, Cleared
  <2>3. Undone(c)' /\ Cleared(c)' BY <2>0, <2>1, <2>2 DEF Undone, Cleared, Accepted
  <2>4. \A q \in Receivers : pending'[q].verified => ~Accepted(q)'
    BY <2>1, <2>2 DEF Gone, Accepted
  <2> QED BY <1>o, <2>3, <2>4, GoneConclude
<1>6. CASE DropConnection(c) \/ DropTrust(c) \/ DropIdentity(c)
  <2>0. pc[c] \in LocalPCs /\ pc'[c] \in LocalPCs
    BY <1>6, GotoGoes DEF DropConnection, DropTrust, DropIdentity, LocalPCs
  <2>1. UNCHANGED <<pending, authorized, job>>
    BY <1>6 DEF DropConnection, DropTrust, DropIdentity
  <2>2. \A q \in Receivers : identity'[q] \in {identity[q], NoKey}
    BY <1>6 DEF DropConnection, DropTrust, DropIdentity, TypeOK
  <2>3. \A q \in Receivers : Accepted(q)' => Accepted(q) BY <1>n, <2>1, <2>2 DEF Accepted
  <2>4. job[c].r \in Receivers BY <2>0, <1>s DEF InRemoval, RemovalPCs, LocalPCs
  <2>5. Undone(c)' /\ Cleared(c)'
    BY <2>0, <2>1, <2>3, <2>4 DEF Undone, Cleared, Gone, LocalPCs
  <2>6. \A q \in Receivers : pending'[q].verified => ~Accepted(q)' BY <2>1, <2>3 DEF Gone
  <2> QED BY <1>o, <2>5, <2>6, GoneConclude
<1>7. CASE LocalFails(c)
  <2>0. pc[c] \in LocalPCs /\ pc'[c] = "idle" BY <1>7, EndsEnd DEF LocalFails
  <2>1. InRemoval(c) BY <2>0, <1>s DEF RemovalPCs
  <2>2. job[c].r \in Receivers /\ job[c].ok = pending[job[c].r].verified
    BY <2>0, <2>1 DEF InRemoval, LocalPCs
  <2>3. UNCHANGED <<identity, authorized>>
        /\ \A q \in Receivers : pending'[q].verified = pending[q].verified
    BY <1>7, <2>2 DEF LocalFails, TypeOK, Entry
  <2> QED BY <1>o, <1>l, <2>0, <2>3, GoneOnIdle DEF Accepted
<1>8. CASE FinishOne(c)
  <2>1. pc'[c] \in {"purge", "mark", "idle"} BY <1>8, GotoGoes, EndsEnd DEF FinishOne
  <2>2. UNCHANGED <<identity, authorized>>
        /\ \A q \in Receivers : pending'[q].verified => pending[q].verified
    BY <1>8 DEF FinishOne, NoEntry, TypeOK
  <2> QED BY <1>o, <1>l, <2>1, <2>2, GoneOnIdle DEF Accepted
<1>9. CASE Purge(c)
  <2>1. pc'[c] = "idle" /\ UNCHANGED <<pending, authorized>>
        /\ \A q \in Receivers : identity'[q] \in {identity[q], NoKey}
    BY <1>9, EndsEnd DEF Purge, TypeOK
  <2> QED BY <1>o, <1>l, <1>n, <2>1, GoneOnIdle DEF Accepted
<1> QED BY <1>1, <1>2, <1>3, <1>4, <1>5, <1>6, <1>7, <1>8, <1>9 DEF Removal

\* Every step keeps it.
LEMMA StepGone == RInv /\ Gone /\ Orderly /\ [Next]_vars => Gone'
<1> SUFFICES ASSUME RInv, Gone, Orderly, [Next]_vars PROVE Gone' OBVIOUS
<1>1. ASSUME NEW c \in Commands, Connections(c) PROVE Gone'
  <2>1. UNCHANGED <<identity, pending, authorized, pc, job>>
    BY <1>1 DEF Connections, ApproveTrust, SaveConnection, SelectConnection, RenameConnection,
                SaveProfile, DeleteProfile, LoadProfile, Edit
  <2> QED BY <2>1 DEF Gone, Undone, Cleared, Accepted
<1>2. ASSUME NEW c \in Commands, StartChecks(c) \/ StartSpawns(c) \/ Crash(c) PROVE Gone'
  <2>0. TypeOK /\ Others(c) BY <1>2, OthersIdle DEF RInv
  <2>1. UNCHANGED <<identity, pending, authorized>> /\ pc'[c] \in {"idle", "starting"}
    BY <1>2, <2>0, GotoGoes, EndsEnd DEF StartChecks, StartSpawns, Crash
  <2> QED BY <2>0, <2>1, GoneOnIdle DEF Accepted, LocalPCs
<1>3. CASE SessionEnds BY <1>3 DEF SessionEnds, Gone, Undone, Cleared, Accepted
<1>4. CASE UNCHANGED vars BY <1>4 DEF vars, Gone, Undone, Cleared, Accepted
<1> QED BY <1>1, <1>2, <1>3, <1>4, SetupGone, RemovalGone DEF Next

\* A step that deletes or replaces an accepted key's private half is the last of
\* an uninstall or one of an abandonment.
LEMMA StepKeepsKeys ==
  RInv /\ Gone /\ [Next]_vars =>
    [\A r \in Receivers : identity[r] \in authorized[r] /\ identity'[r] # identity[r] =>
       \E c \in Commands : pc[c] = "purge" \/ job[c].abandon]_vars
<1> SUFFICES ASSUME RInv, Gone, Next, NEW r \in Receivers, Accepted(r), identity'[r] # identity[r]
             PROVE  \E c \in Commands : pc[c] = "purge" \/ job[c].abandon
  BY DEF Accepted
<1> USE DEF RInv
<1>n. identity[r] # NoKey BY DEF Accepted, TypeOK, Keys, NoKey
<1>1. PICK c \in Commands :
        \/ \E q \in Receivers : SetupGenerate(c, q)
        \/ SetupForget(c) \/ DropIdentity(c) \/ Purge(c)
  <2>0. identity' # identity OBVIOUS
  <2>1. ASSUME NEW c \in Commands, Connections(c) PROVE FALSE
    BY <2>0, <2>1 DEF Connections, ApproveTrust, SaveConnection, SelectConnection,
                      RenameConnection, SaveProfile, DeleteProfile, LoadProfile, Edit
  <2>2. ASSUME NEW c \in Commands, StartChecks(c) \/ StartSpawns(c) \/ Crash(c) PROVE FALSE
    BY <2>0, <2>2 DEF StartChecks, StartSpawns, Crash
  <2>3. ASSUME NEW c \in Commands, Setup(c)
        PROVE  (\E q \in Receivers : SetupGenerate(c, q)) \/ SetupForget(c)
    BY <2>0, <2>3 DEF Setup, SetupApply, SetupFails, SetupSave, SetupCommit, SetupUnsave
  <2>4. ASSUME NEW c \in Commands, Removal(c) PROVE DropIdentity(c) \/ Purge(c)
    BY <2>0, <2>4 DEF Removal, RemovalBegins, Mark, Revoke, RevokeFails, Record,
                      DropConnection, DropTrust, LocalFails, FinishOne
  <2>5. ~SessionEnds BY <2>0 DEF SessionEnds
  <2> QED BY <2>1, <2>2, <2>3, <2>4, <2>5 DEF Next
<1>2. ASSUME NEW q \in Receivers, SetupGenerate(c, q) PROVE FALSE
  BY <1>2, <1>n DEF SetupGenerate, TypeOK
<1>3. CASE SetupForget(c)
  <2>1. pc[c] = "forget" /\ job[c].ok /\ job[c].r = r BY <1>3 DEF SetupForget, TypeOK
  <2>2. InCommand(c) OBVIOUS
  <2>3. job[c].key = identity[r] BY <2>1, <2>2 DEF InCommand, InSetup, SetupPCs
  <2> QED BY <2>1, <2>3 DEF Gone, Undone, Accepted
<1>4. CASE DropIdentity(c)
  <2>1. pc[c] = "identity" /\ job[c].r = r BY <1>4 DEF DropIdentity, Goto, TypeOK
  <2> QED BY <2>1 DEF Gone, Cleared, LocalPCs
<1>5. CASE Purge(c) BY <1>5 DEF Purge
<1> QED BY <1>1, <1>2, <1>3, <1>4, <1>5

-----------------------------------------------------------------------------
(* What follows from it                                                    *)

\* Every reachable state is well typed, whatever setups, removals, edits and
\* crashes follow each other (application.py, removal.py, identity.py).
THEOREM ReceiverTypes == ASSUME Orderly PROVE Spec => []TypeOK
<1>1. RInv => TypeOK BY DEF RInv
<1> QED BY <1>1, Invariance, PTL

\* RemovalService reports a key as revoked only if the Receiver has stopped
\* accepting it, however often answers are lost and removals are repeated.
THEOREM RevocationIsTrue == ASSUME Orderly PROVE Spec => []VerifiedMeansRevoked
<1>1. RInv => VerifiedMeansRevoked BY DEF RInv, Facts
<1> QED BY <1>1, Invariance, PTL

\* The private key of a setup that was reported as done is deleted only after the
\* Receiver has dropped the public one, also by an uninstall (_cleanup_local,
\* revoke_local, generate, _remove_all_local_state).
THEOREM CredentialsAreKept == ASSUME Orderly PROVE Spec => []CredentialsKept
<1>1. RInv => CredentialsKept BY DEF RInv, Facts
<1> QED BY <1>1, Invariance, PTL

\* The key a failed or killed setup has left on a Receiver, like any other, keeps
\* its private half here until an uninstall ends or the user abandons something
\* (generate, revoke_local after a roll-back, _cleanup_local).
THEOREM RetryKeysAreKept == ASSUME Orderly PROVE Spec => RetryKeyKept
<1>1. Init => Gone
  <2> SUFFICES ASSUME Init PROVE Gone OBVIOUS
  <2>1. \A c \in Commands : pc[c] = "idle" BY DEF Init
  <2>2. \A r \in Receivers : ~pending[r].verified BY DEF Init, NoEntry
  <2> QED BY <2>1, <2>2 DEF Gone, Undone, Cleared, LocalPCs
<1>2. Spec => []Gone BY <1>1, Invariance, StepGone, PTL DEF Spec
<1> QED BY <1>2, Invariance, StepKeepsKeys, PTL DEF Spec, RetryKeyKept

\* A Receiver listed as set up, with nothing pending, has identity and trust: a
\* removal or a roll-back that stopped half way is never taken for finished.
THEOREM NothingIsHalfRemoved == ASSUME Orderly PROVE Spec => []NothingHalfRemoved
<1>1. RInv => NothingHalfRemoved BY DEF RInv, Facts, Sound, Copies, NothingHalfRemoved
<1> QED BY <1>1, Invariance, PTL

\* No Session starts or runs while a removal is pending
\* (require_no_pending_removal and the status check under removal.lock).
THEOREM SessionsAreBlocked == ASSUME Orderly PROVE Spec => []BlockedWhilePending
<1>1. RInv => BlockedWhilePending BY DEF RInv, Facts
<1> QED BY <1>1, Invariance, PTL

\* _load_pending never meets an entry it refuses: an entry once verified does
\* not go back to pending, through any failure or retry.
THEOREM PendingStaysReadable == ASSUME Orderly PROVE Spec => []PendingIsReadable
<1>1. RInv => PendingIsReadable BY DEF RInv, Facts, Verified, PendingIsReadable, Readable
<1> QED BY <1>1, Invariance, PTL
=============================================================================
