----------------------------- MODULE Receivers -----------------------------
(***************************************************************************)
(* The life of a Receiver on the source computer: trust, Companion Setup   *)
(* (application.py, *_setup.py, *_bootstrap.py), the saved Connections and *)
(* Mix Profiles (config.py, connections.py), the Managed Identities        *)
(* (identity.py) and verified removal and uninstall (removal.py), with the *)
(* keys the Receivers authorize on the other side.                         *)
(*                                                                         *)
(* Every operation runs in a backend command of its own, one action per    *)
(* effect that survives a crash: a file written or deleted, a request that *)
(* reached the Receiver.                                                   *)
(***************************************************************************)
EXTENDS Naturals, FiniteSets

CONSTANTS
  Receivers,  \* Connection ids
  Commands,   \* backend commands that may run at the same time
  MaxKeys,    \* bound on the identities generated
  Happens     \* which outside events occur, from Events below

NoOne == "nobody"

Events ==
  { "crash",         \* a command is killed between two effects
    "offline",       \* the Receiver cannot be reached, or its answer is lost
    "localFails",    \* a local file cannot be written or deleted
    "setupFails",    \* Companion Setup fails on the Receiver or is not verified
    "overlap",       \* commands other than removals overlap
    "resave",        \* a Receiver that is set up is saved again by its address
    "staleProfile",  \* a Mix Profile is saved before its Receiver is set up
    "readd" }        \* a Receiver is added or set up again between its revocation
                     \* and the end of its cleanup

ASSUME ReceiversAssumption ==
  /\ MaxKeys \in Nat \ {0}
  /\ Happens \subseteq Events
  /\ NoOne \notin Receivers /\ NoOne \notin Commands

Keys  == 1 .. MaxKeys
NoKey == 0

\* securityLevel of a Connection; "none" where there is no Connection
Levels == {"none", "user-managed", "receiver-only"}

\* config.json: the Connection in use, the saved ones and those in Mix Profiles
Config == [current : Receivers \cup {NoOne}, level : Levels,
           saved : [Receivers -> Levels], profile : [Receivers -> Levels]]

\* An entry of pending-removals.json
Statuses == {"pending", "remote-verified", "pending-local-cleanup"}
Entry    == [status : Statuses, verified : BOOLEAN, level : Levels]
NoEntry  == [status |-> "pending", verified |-> FALSE, level |-> "none"]

\* A command's own memory
Job   == [r : Receivers \cup {NoOne}, key : Keys \cup {NoKey}, old : Config,
          ok : BOOLEAN, uninstall : BOOLEAN, abandon : BOOLEAN,
          queue : SUBSET Receivers]

SetupPCs   == {"apply", "verify", "commit", "unsave", "forget"}
LocalPCs   == {"config", "trust", "identity", "finish"}
RemovalPCs == {"mark", "remote", "record", "purge"} \cup LocalPCs

VARIABLES
  config,     \* config.json
  trust,      \* Receivers with a Trust Record
  identity,   \* the Managed Identity kept for each Receiver
  pending,    \* pending-removals.json
  session,    \* whether a Session is active
  authorized, \* the keys each Receiver accepts
  lock,       \* the command that holds removal.lock
  pc, job,    \* where each command is, and its memory
  made,       \* identities generated so far; numbers the keys
  owned,      \* history: keys whose setup was reported as done, until the user
              \* gives them up
  claimed     \* history: owned keys that a removal or uninstall reported as
              \* revoked while the Receiver accepted them

files == <<config, trust, identity, pending>>
told  == <<owned, claimed>>
vars  == <<files, session, authorized, lock, pc, job, made, told>>

EmptyConfig == [current |-> NoOne, level |-> "none",
                saved   |-> [r \in Receivers |-> "none"],
                profile |-> [r \in Receivers |-> "none"]]

NoJob == [r |-> NoOne, key |-> NoKey, old |-> EmptyConfig, ok |-> FALSE,
          uninstall |-> FALSE, abandon |-> FALSE, queue |-> {}]

TypeOK ==
  /\ config \in Config
  /\ trust \in SUBSET Receivers
  /\ identity \in [Receivers -> Keys \cup {NoKey}]
  /\ pending \in [Receivers -> Entry]
  /\ session \in BOOLEAN
  /\ authorized \in [Receivers -> SUBSET Keys]
  /\ lock \in Commands \cup {NoOne}
  /\ pc \in [Commands -> {"idle", "starting"} \cup SetupPCs \cup RemovalPCs]
  /\ job \in [Commands -> Job]
  /\ made \in Keys \cup {NoKey}
  /\ owned \in [Receivers -> SUBSET Keys]
  /\ claimed \in [Receivers -> SUBSET Keys]

Init ==
  /\ config = EmptyConfig
  /\ trust = {}
  /\ identity = [r \in Receivers |-> NoKey]
  /\ pending = [r \in Receivers |-> NoEntry]
  /\ session = FALSE
  /\ authorized = [r \in Receivers |-> {}]
  /\ lock = NoOne
  /\ pc = [c \in Commands |-> "idle"]
  /\ job = [c \in Commands |-> NoJob]
  /\ made = NoKey
  /\ owned = [r \in Receivers |-> {}]
  /\ claimed = [r \in Receivers |-> {}]

-----------------------------------------------------------------------------
IsPending(r) == pending[r].level # "none"

\* _load_pending raises on an entry that is verified and pending at once.
Readable == \A r \in Receivers : pending[r].verified => pending[r].status # "pending"

Goto(c, from, to) == pc[c] = from /\ pc' = [pc EXCEPT ![c] = to]

\* A command ends; removal.lock goes with it.
Ends(c) ==
  /\ pc' = [pc EXCEPT ![c] = "idle"]
  /\ job' = [job EXCEPT ![c] = NoJob]
  /\ lock' = IF lock = c THEN NoOne ELSE lock

\* The Panel runs one backend command at a time; removals may also be started
\* from a terminal.
Alone(c, others) ==
  "overlap" \in Happens \/ \A d \in Commands \ {c} : pc[d] \in {"idle"} \cup others

\* normalize_config: the Connection in use is saved, then those of the profiles
Normalize(k) ==
  [k EXCEPT !.saved =
     [r \in Receivers |-> IF k.profile[r] # "none" THEN k.profile[r]
                          ELSE IF k.current = r THEN k.level ELSE k.saved[r]]]

Use(k, r, level) == Normalize([k EXCEPT !.current = r, !.level = level])

-----------------------------------------------------------------------------
(* Trust Records, Connections and Mix Profiles: one read and one write.    *)

ApproveTrust(c, r) ==
  /\ pc[c] = "idle" /\ Alone(c, {}) /\ r \notin trust
  /\ trust' = trust \cup {r}
  /\ UNCHANGED <<config, identity, pending, session, authorized, lock, pc, job, made, told>>

Edit(c, k) ==
  /\ pc[c] = "idle" /\ Alone(c, {}) /\ k # config
  /\ \A r \in Receivers :
       pending[r].verified /\ k.saved[r] = "user-managed" => "readd" \in Happens
  /\ config' = k
  /\ UNCHANGED <<trust, identity, pending, session, authorized, lock, pc, job, made, told>>

\* connection.save: the address the user typed, or reviews the host trust of,
\* without the Managed Identity an earlier setup recorded
SaveConnection(c, r) ==
  /\ r \in trust
  /\ config.saved[r] = "receiver-only" => "resave" \in Happens
  /\ Edit(c, Use(config, r, "user-managed"))

\* connection.select
SelectConnection(c, r) ==
  /\ config.saved[r] # "none" /\ ~session
  /\ Edit(c, Use(config, r, config.saved[r]))

\* connection.rename: every copy becomes the saved one
RenameConnection(c, r) ==
  /\ config.saved[r] # "none"
  /\ LET copy == config.saved[r]
     IN Edit(c, Normalize(
          [config EXCEPT !.level = IF config.current = r THEN copy ELSE @,
                         !.profile[r] = IF @ = "none" THEN @ ELSE copy]))

\* mix-profile.save keeps a copy of the Connection in use
SaveProfile(c, r) ==
  /\ config.current = r
  /\ config.level = "user-managed" => "staleProfile" \in Happens
  /\ Edit(c, Normalize([config EXCEPT !.profile[r] = config.level]))

\* mix-profile.delete
DeleteProfile(c, r) ==
  /\ config.profile[r] # "none"
  /\ Edit(c, Normalize([config EXCEPT !.profile[r] = "none"]))

\* mix-profile.load and Quick Start
LoadProfile(c, r) ==
  /\ config.profile[r] # "none"
  /\ Edit(c, Use(config, r, config.profile[r]))

-----------------------------------------------------------------------------
(* Companion Setup: generate, apply, verify, save and commit, or roll back. *)

\* Mutant: an identity that exists already is replaced.
GenerateOver(c, r) ==
  /\ Goto(c, "idle", "apply") /\ Alone(c, {})
  /\ r \in trust /\ made < MaxKeys
  /\ made' = made + 1
  /\ identity' = [identity EXCEPT ![r] = made + 1]
  /\ job' = [job EXCEPT ![c] = [NoJob EXCEPT !.r = r, !.key = made + 1]]
  /\ UNCHANGED <<config, trust, pending, session, authorized, lock, told>>

\* ManagedIdentityStore.generate, after a probe over the trusted host key; it
\* refuses when the Receiver already has an identity
SetupGenerate(c, r) ==
  /\ Goto(c, "idle", "apply") /\ Alone(c, {})
  /\ r \in trust /\ identity[r] = NoKey /\ made < MaxKeys
  /\ pending[r].verified => "readd" \in Happens
  /\ made' = made + 1
  /\ identity' = [identity EXCEPT ![r] = made + 1]
  /\ job' = [job EXCEPT ![c] = [NoJob EXCEPT !.r = r, !.key = made + 1]]
  /\ UNCHANGED <<config, trust, pending, session, authorized, lock, told>>

\* The setup script adds the key to authorized_keys.
SetupApply(c) ==
  LET r == job[c].r
  IN /\ Goto(c, "apply", "verify")
     /\ authorized' = [authorized EXCEPT ![r] = @ \cup {job[c].key}]
     /\ UNCHANGED <<files, session, lock, job, made, told>>

\* A roll-back leaves the key or takes it away; "complete" is reported only
\* when it is away, and may go unreported even then.
RolledBack(c) ==
  LET r == job[c].r
  IN \E complete, left \in BOOLEAN :
       /\ ~(complete /\ left)
       /\ job' = [job EXCEPT ![c].ok = complete]
       /\ authorized' = [authorized EXCEPT ![r] = IF left THEN @ ELSE @ \ {job[c].key}]

\* The script fails, the verification does, or the configuration is not saved.
\* Linux and macOS cannot take a finished script's changes back.
SetupFails(c) ==
  /\ "setupFails" \in Happens
  /\ \/ Goto(c, "apply", "forget")
     \/ Goto(c, "verify", "forget")
     \/ Goto(c, "commit", "unsave")
  /\ RolledBack(c)
  /\ UNCHANGED <<files, session, lock, made, told>>

\* The verified Receiver is saved as receiver-only; on Windows the transaction
\* on the Receiver is still open then.
SetupSave(c) ==
  LET r == job[c].r
  IN /\ config' = Use(config, r, "receiver-only")
     /\ pc[c] = "verify"
     /\ \/ /\ Goto(c, "verify", "commit")
           /\ job' = [job EXCEPT ![c].old = config]
           /\ UNCHANGED <<lock, owned>>
        \/ /\ Ends(c)
           /\ owned' = [owned EXCEPT ![r] = @ \cup {job[c].key}]
     /\ UNCHANGED <<trust, identity, pending, session, authorized, made, claimed>>

SetupCommit(c) ==
  /\ pc[c] = "commit" /\ Ends(c)
  /\ owned' = [owned EXCEPT ![job[c].r] = @ \cup {job[c].key}]
  /\ UNCHANGED <<files, session, authorized, made, claimed>>

\* The previous configuration comes back; if it cannot, nothing is complete.
SetupUnsave(c) ==
  /\ Goto(c, "unsave", "forget")
  /\ \/ config' = job[c].old /\ UNCHANGED job
     \/ /\ "localFails" \in Happens
        /\ job' = [job EXCEPT ![c].ok = FALSE]
        /\ UNCHANGED config
  /\ UNCHANGED <<trust, identity, pending, session, authorized, lock, made, told>>

\* Mutant: the identity is forgotten however the roll-back went.
ForgetAnyway(c) ==
  /\ pc[c] = "forget" /\ Ends(c)
  /\ identity' = [identity EXCEPT ![job[c].r] = NoKey]
  /\ UNCHANGED <<config, trust, pending, session, authorized, made, told>>

\* revoke_local, only after a complete roll-back
SetupForget(c) ==
  LET r == job[c].r
  IN /\ pc[c] = "forget" /\ Ends(c)
     /\ identity' = IF job[c].ok THEN [identity EXCEPT ![r] = NoKey] ELSE identity
     /\ UNCHANGED <<config, trust, pending, session, authorized, made, told>>

-----------------------------------------------------------------------------
(* Start, as far as it concerns removal.                                   *)

\* Mutant: Start does not look for pending removals.
StartUnchecked(c) ==
  /\ Goto(c, "idle", "starting") /\ Alone(c, {}) /\ ~session
  /\ UNCHANGED <<files, session, authorized, lock, job, made, told>>

\* require_no_pending_removal; seconds of preflight follow
StartChecks(c) ==
  /\ Goto(c, "idle", "starting") /\ Alone(c, {})
  /\ ~session /\ \A r \in Receivers : ~IsPending(r)
  /\ UNCHANGED <<files, session, authorized, lock, job, made, told>>

StartSpawns(c) ==
  /\ Goto(c, "starting", "idle")
  /\ session' \in BOOLEAN
  /\ UNCHANGED <<files, authorized, lock, job, made, told>>

SessionEnds ==
  /\ session /\ session' = FALSE
  /\ UNCHANGED <<files, authorized, lock, pc, job, made, told>>

-----------------------------------------------------------------------------
(* Removal and uninstall: RemovalService, under removal.lock.              *)

\* _inventory
Listed == {r \in Receivers : config.saved[r] # "none" \/ IsPending(r)}

\* plan(uninstall=False): the Connection in use, else the only pending one
Target ==
  LET open == {r \in Receivers : IsPending(r)}
  IN IF config.current # NoOne THEN {config.current}
     ELSE IF Cardinality(open) = 1 THEN open ELSE {}

RemovalBegins(c, uninstall, abandon) ==
  LET targets == IF uninstall THEN Listed ELSE Target
  IN /\ Goto(c, "idle", IF targets = {} THEN "purge" ELSE "mark")
     /\ Alone(c, RemovalPCs)
     /\ lock = NoOne /\ lock' = c
     /\ Readable /\ ~session
     /\ uninstall \/ targets # {}
     /\ abandon => \A r \in targets : IsPending(r)
     /\ job' = [job EXCEPT ![c] = [NoJob EXCEPT !.uninstall = uninstall, !.queue = targets,
                                                !.abandon = abandon /\ targets # {}]]
     /\ UNCHANGED <<files, session, authorized, made, told>>

\* _remove_one first notes the removal as pending, then finds out what it may
\* do. What the user abandons is his to know from here on.
Mark(c) ==
  \E r \in job[c].queue :
    LET old     == pending[r]
        level   == IF config.saved[r] # "none" THEN config.saved[r] ELSE old.level
        managed == level = "receiver-only"
        status  == IF ~managed /\ ~job[c].abandon THEN "pending" ELSE old.status
    IN /\ pc[c] = "mark" /\ level # "none"
       /\ pending' = [pending EXCEPT ![r] =
                        [status |-> status, verified |-> old.verified, level |-> level]]
       /\ owned' = IF job[c].abandon THEN [owned EXCEPT ![r] = {}] ELSE owned
       /\ IF ~managed /\ ~job[c].abandon THEN Ends(c)
          ELSE /\ Goto(c, "mark", IF job[c].abandon \/ old.verified THEN "config" ELSE "remote")
               /\ job' = [job EXCEPT ![c].r = r, ![c].ok = old.verified]
               /\ UNCHANGED lock
       /\ UNCHANGED <<config, trust, identity, session, authorized, made, claimed>>

\* The Receiver accepts the identity kept here, over its approved host key.
Admits(r) == identity[r] \in authorized[r] /\ r \in trust

\* The Receiver's helper takes away the key it was called with.
KeyRevoked(r) == authorized' = [authorized EXCEPT ![r] = @ \ {identity[r]}]

Revoke(c) ==
  /\ Goto(c, "remote", "record")
  /\ Admits(job[c].r) /\ KeyRevoked(job[c].r)
  /\ UNCHANGED <<files, session, lock, job, made, told>>

\* Mutant: having asked the Receiver counts as having revoked.
AskedIsRevoked(c) ==
  LET r == job[c].r
  IN /\ pc[c] = "remote" /\ ("offline" \in Happens \/ ~Admits(r))
     /\ pending' = [pending EXCEPT ![r].status = "remote-verified", ![r].verified = TRUE]
     /\ Ends(c)
     /\ UNCHANGED <<config, trust, identity, session, authorized, made, told>>

\* No credentials, no connection, or no answer although the key is gone
RevokeFails(c) ==
  LET r == job[c].r
  IN /\ pc[c] = "remote"
     /\ \/ ("offline" \in Happens \/ ~Admits(r)) /\ UNCHANGED authorized
        \/ "offline" \in Happens /\ Admits(r) /\ KeyRevoked(r)
     /\ pending' = [pending EXCEPT ![r].status = "pending"]
     /\ Ends(c)
     /\ UNCHANGED <<config, trust, identity, session, made, told>>

\* Mutant: the verification is noted, the status is not.
RecordVerified(c) ==
  LET r == job[c].r
  IN /\ Goto(c, "record", "config")
     /\ pending' = [pending EXCEPT ![r].verified = TRUE]
     /\ job' = [job EXCEPT ![c].ok = TRUE]
     /\ UNCHANGED <<config, trust, identity, session, authorized, lock, made, told>>

Record(c) ==
  LET r == job[c].r
  IN /\ Goto(c, "record", "config")
     /\ pending' = [pending EXCEPT ![r].status = "remote-verified", ![r].verified = TRUE]
     /\ job' = [job EXCEPT ![c].ok = TRUE]
     /\ UNCHANGED <<config, trust, identity, session, authorized, lock, made, told>>

\* Mutant: the Mix Profiles keep their copies.
DropWithoutProfiles(c) ==
  LET r == job[c].r
  IN /\ Goto(c, "config", "trust")
     /\ config' = Normalize(
          [config EXCEPT !.current = IF @ = r THEN NoOne ELSE @,
                         !.level   = IF config.current = r THEN "none" ELSE @,
                         !.saved   = [@ EXCEPT ![r] = "none"]])
     /\ UNCHANGED <<trust, identity, pending, session, authorized, lock, job, made, told>>

\* _cleanup_local: configuration and Mix Profiles, trust, identity, diagnostics
DropConnection(c) ==
  LET r == job[c].r
  IN /\ Goto(c, "config", "trust")
     /\ config' = [current |-> IF config.current = r THEN NoOne ELSE config.current,
                   level   |-> IF config.current = r THEN "none" ELSE config.level,
                   saved   |-> [config.saved EXCEPT ![r] = "none"],
                   profile |-> [config.profile EXCEPT ![r] = "none"]]
     /\ UNCHANGED <<trust, identity, pending, session, authorized, lock, job, made, told>>

DropTrust(c) ==
  LET r == job[c].r
  IN /\ Goto(c, "trust", IF pending[r].level = "receiver-only" THEN "identity" ELSE "finish")
     /\ trust' = trust \ {r}
     /\ UNCHANGED <<config, identity, pending, session, authorized, lock, job, made, told>>

DropIdentity(c) ==
  /\ Goto(c, "identity", "finish")
  /\ identity' = [identity EXCEPT ![job[c].r] = NoKey]
  /\ UNCHANGED <<config, trust, pending, session, authorized, lock, job, made, told>>

\* Mutant: the code is written where the status belongs.
FailsAsCode(c) ==
  LET r == job[c].r
  IN /\ "localFails" \in Happens /\ pc[c] \in LocalPCs
     /\ pending' = [pending EXCEPT ![r].status = "local-cleanup-incomplete",
                                   ![r].verified = job[c].ok]
     /\ Ends(c)
     /\ UNCHANGED <<config, trust, identity, session, authorized, made, told>>

LocalFails(c) ==
  LET r == job[c].r
  IN /\ "localFails" \in Happens /\ pc[c] \in LocalPCs
     /\ pending' = [pending EXCEPT ![r].status = "pending-local-cleanup",
                                   ![r].verified = job[c].ok]
     /\ Ends(c)
     /\ UNCHANGED <<config, trust, identity, session, authorized, made, told>>

\* A Receiver's keys are reported revoked, but for those given up. No key that
\* it has stopped accepting is ever added again.
Claim(r) == [claimed EXCEPT ![r] = @ \cup (owned[r] \cap authorized[r])]

\* Diagnostics cleared, the entry goes and the result is reported.
FinishOne(c) ==
  LET r    == job[c].r
      rest == job[c].queue \ {r}
  IN /\ pc[c] = "finish"
     /\ pending' = [pending EXCEPT ![r] = NoEntry]
     /\ claimed' = IF job[c].abandon THEN claimed ELSE Claim(r)
     /\ IF job[c].uninstall
        THEN /\ Goto(c, "finish", IF rest = {} THEN "purge" ELSE "mark")
             /\ job' = [job EXCEPT ![c].queue = rest]
             /\ UNCHANGED lock
        ELSE Ends(c)
     /\ UNCHANGED <<config, trust, identity, session, authorized, made, owned>>

\* Uninstall ends: refused while anything is pending, else every local
\* directory goes and all Receivers are reported revoked or abandoned.
Purge(c) ==
  /\ pc[c] = "purge"
  /\ IF \E r \in Receivers : IsPending(r)
     THEN UNCHANGED <<files, claimed>>
     ELSE /\ config' = EmptyConfig /\ trust' = {}
          /\ identity' = [r \in Receivers |-> NoKey]
          /\ claimed' = IF job[c].abandon THEN claimed
                        ELSE [r \in Receivers |-> Claim(r)[r]]
          /\ UNCHANGED pending
  /\ Ends(c)
  /\ UNCHANGED <<session, authorized, made, owned>>

-----------------------------------------------------------------------------
\* A command is killed.
Crash(c) ==
  /\ "crash" \in Happens /\ pc[c] # "idle"
  /\ Ends(c)
  /\ UNCHANGED <<files, session, authorized, made, told>>

Connections(c) ==
  \E r \in Receivers :
    \/ ApproveTrust(c, r) \/ SaveConnection(c, r) \/ SelectConnection(c, r)
    \/ RenameConnection(c, r) \/ SaveProfile(c, r) \/ DeleteProfile(c, r) \/ LoadProfile(c, r)

Setup(c) ==
  \/ \E r \in Receivers : SetupGenerate(c, r)
  \/ SetupApply(c) \/ SetupFails(c) \/ SetupSave(c) \/ SetupCommit(c)
  \/ SetupUnsave(c) \/ SetupForget(c)

Removal(c) ==
  \/ \E uninstall, abandon \in BOOLEAN : RemovalBegins(c, uninstall, abandon)
  \/ Mark(c) \/ Revoke(c) \/ RevokeFails(c) \/ Record(c)
  \/ DropConnection(c) \/ DropTrust(c) \/ DropIdentity(c) \/ LocalFails(c)
  \/ FinishOne(c) \/ Purge(c)

Next ==
  \/ \E c \in Commands : \/ Connections(c) \/ Setup(c) \/ Removal(c)
                         \/ StartChecks(c) \/ StartSpawns(c) \/ Crash(c)
  \/ SessionEnds

Spec == Init /\ [][Next]_vars
=============================================================================
