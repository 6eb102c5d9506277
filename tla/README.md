# Verification of SSH-mixer

SSH-mixer routes local audio to a trusted Receiver over SSH. This directory
holds TLA+ models of its stateful parts (the Session engine, the life of a
Receiver, Receiver updates, the lifecycle monitor, the settings commands with
the legacy migration), the TLC configurations that check them, and proofs
checked by TLAPS. Paths are relative to the repository (`src/` here);
identifiers in `code font` are definitions of the modules or names of the code.

    tlc -workers 2 -config session_serial.cfg MCSession.tla    # one run
    tlc -workers 2 -config updates.cfg MCUpdates.tla
    tlapm UpdateProofs.tla                                     # proofs

`PROJECT.json` lists the components, the runs, one mutant for every checked
property, the lines every definition models, findings, hazards and theorems.

## 1. The system

| Component | State | Operations | Interacts with |
|---|---|---|---|
| Session engine (`session.py`) | `session.json`, `session.lock`, the worker's `self.resources`, `children`, `stop_requested` | `start_session`, `stop_session`, `run_foreground`, `normalize_status`, the worker's `run`, `_handle_stop`, `_cleanup` | audio server by `pactl`, `ffmpeg` and `ssh` by `Popen` and signals, panel and lifecycle monitor through `session.json` |
| Audio server (PulseAudio or PipeWire) | modules, streams and the sink each plays on, default sink | load and unload modules, move a stream, set the default | applications and the user change it at any moment |
| Route planning (`routing.py`) and stream epochs (`streaming.py`) | none, and a clock per pipeline | `resolve_session_source_ids`, `build_route_plan`, `build_playback_reconciliation`, when a pipeline is renewed | Session engine |
| Lifecycle monitor (`lifecycle.py`, `Lifecycle.qml`, `Indicator.qml`) | heartbeat files, count of failed observations, the reader of dbus-monitor's output | poll; suspend, logout and lock events | `stop_session`, Start (which asks for the heartbeats), logind, the shell |
| Receiver setup (`*_setup.py`, `*_bootstrap.py`, `receiver/*`) | the transaction on the Receiver, `authorized_keys`, the Managed Identity | probe, apply, verify, commit, roll back | identities, configuration |
| Receiver updates (`updates.py`, `native_updates.py`) | the approved plan; backups and the helper on the Receiver | check, plan, apply, verify, commit, roll back | the three bootstraps, release metadata |
| Receiver removal and uninstall (`removal.py`) | `pending-removals.json`, `removal.lock` | plan, execute, abandon | configuration, trust, identities, the Receiver's helper, Start |
| Migration (`migration.py`) | `legacy-backup.json`, the legacy `config.json` | plan, execute, restore | setup, configuration, the gate of all requests |
| Configuration, Connections, trust (`config.py`, `connections.py`, `openssh_profiles.py`) | `config.json`: selection, pins, Connection in use, saved ones, copies in Mix Profiles; Trust Records | save, select, rename, approve trust | all others |
| Sources: matchers, history, choices, Mix Profiles (`audio.py`, `source_history.py`, `source_choices.py`, `mix_profiles.py`) | recent and ignored applications, pins, profiles | match, choose, pin, observe, clear, save, load, quick start | Session engine, configuration |
| Panel (`Panel.qml`, `PanelSession.js`) | desired Session, command in flight | runs one backend command at a time | all requests |
| Diagnostics, versions, release tools | log files | preview, clear | none |

What is hard, and what makes each part correct:

* **Session engine.** Commands serialize on `session.lock`, but the worker and
  the signal handler do not take it; everyone reads `session.json`, which is
  written one step after every effect on the server. Processes die between an
  effect and its record; streams open, close and are moved by the user in the
  middle of a cleanup; the server picks sinks when the Mix goes away. Correct
  means: one worker at a time, `session.json` names it, Stop ends and leaves
  nothing, streams and default sink come back, no microphone is routed
  unreported, no process is forgotten.
* **Receivers.** Setup and removal change a remote machine and five local files
  without a transaction; commands are killed, answers get lost, local files
  cannot be deleted. Correct means: a revocation is claimed only if it happened,
  the key to ask for it is kept until then, and a half-done removal never looks
  done.
* **Updates.** A script on the Receiver outlives the desktop that started it, and
  every answer may be lost, that of the commit too. Correct means: one
  transaction between what was there and what was approved, an honest report,
  and the exact prior state kept until it is not needed.
* **Lifecycle monitor.** It polls, reads `session.json` without the lock, and
  races with Start; its shell, its bus and the machine come and go. Correct
  means: no Session outlives a boundary that was handled, and none goes on for
  long while a boundary cannot be observed.
* **Settings.** `config.json` is loaded, then Sources are discovered, then the file
  is saved, without a lock. Correct means: a legacy file is never lost, a Session
  carries what the user chose, microphones only when named, and what was
  cleared stays cleared.

## 2. Structure and order

| Layer | Modules |
|---|---|
| Session engine | `PulseServer`, `Session`, `SessionProperties`, `MCSession`, `SessionProofs`, `CleanupProofs`, `RoutingProofs`, `CrashProofs` |
| Life of a Receiver | `Receivers`, `ReceiverProperties`, `MCReceivers`, `ReceiverProofs` |
| Receiver updates | `UpdateTransaction` (abstract), `Updates`, `UpdateProperties` (with the refinement), `MCUpdates`, `UpdateProofs` |
| Lifecycle monitor | `Lifecycle`, `LifecycleProperties`, `MCLifecycle`, `LifecycleProofs` |
| Settings and migration | `Sources` (pure operators), `Settings`, `SettingsProperties`, `MCSettings`, `SettingsProofs` |

The order was: the engine, whose interleavings are the hardest; Receivers, where a
mistake loses a credential; updates, the one component with a natural abstract
specification; the monitor and the settings, which use the engine through its
contract only: `Lifecycle` sees a Session being started under the lock, active or
gone (what `session_serial` and its theorems establish), and `Settings` the
Sources it carries.

What would be worth adding: the bound of 32 saved Connections with a smaller
constant; candidate host keys and their change; what of the theorems about crashes
holds when a Start gives up after its worker's first write (`abandon`).

## 3. Modules

`PulseServer` (external) is what the engine relies on of the audio server. A
module is a null sink (the Mix), a loopback of a microphone into the Mix, or a
loopback of the Mix to a local sink. Removing the Mix moves its streams and, if it
was the default, the default to a sink the server picks. `home` and `chosen` are
history: where the user last had each stream, and the default.

`Session` has commands (`Clients`) and workers (`Sessions`). **One action is one
effect another process can see**: a pactl call, a write of `session.json`, a
process started or signalled. `pc` is where in the code each is. Start: `Begin`,
`Guard` (the check of `normalize_status`), `Cleanup` (`cleanup_resources`),
`SweepList`/`Sweep` (`cleanup_named_mix`), `Spawn`, `Started` or `Abandon`. Stop:
`ReadState`, `Signal`, `WorkerGone` or `KillWorker`, `Reap`
(`terminate_processes`), `Cleanup`, sweep, `WriteStopped`. Worker: `Boot` to
`Exit`, where `pending` is the effect its next write (`Track`) will record, so
that dying or being signalled between the two is a state of its own. No pactl call
of a cleanup is checked by the code: with `"cleanupFails"` (the worker) and
`"commandFails"` (Start and Stop) in `Happens`, `CallMayFail`, a listing that fails
is taken for an empty one (`Listings`), a move or unload that fails has no effect,
and the sweep ends when it cannot list; the cleanup goes on to its last write.
`RunForeground` is `ssh-mixer run`.

`Receivers` has backend commands (`Commands`), one action per effect that survives
a crash. `ApproveTrust` to `LoadProfile` are the requests of `application.py` that
read and write `config.json` or a Trust Record; `Normalize` is the order in which
`normalize_config` lets the Connection in use and then the profiles overwrite the
saved one. `SetupGenerate` to `SetupForget` are a setup; the Receiver is its
`authorized` keys. `RemovalBegins` to `Purge` are `_execute_locked`, `_remove_one`
and `_cleanup_local`. `StartChecks` and `StartSpawns` are the part of Start that
removal depends on. `owned` and `claimed` are history: the keys of setups that were
reported as done, and the keys reported as revoked that the Receiver accepts.

`UpdateTransaction` is what an update promises: it begins with what is installed
and a version that is not older, moves the Receiver between the two, and reports
"updated" or "restored" only of exactly that; once it is `adrift`, its connection lost
while setup runs, it promises no more than the first and that "updated" is not
reported. `Updates` is the code: desktops, each
with a `plan` its user may approve (`Check`, `Execute`), the steps of `apply` on
each platform (`LinuxApply`, `MacApply`, `WindowsApply`), the setup script as a
process of its own on the Receiver (`InstallHelper`, `WriteKeys`, `ConfirmSetup`,
`UndoSetup`, and `EndUnheard` when nobody hears its answer), whose answer a desktop
hears (`PosixAnswer`, `WindowsAnswer`), or whose connection breaks while it runs on
(`BreakAway`, the event `"goesOn"`), `Verify`, the
commits and roll-backs with everything a lost answer can hide, `Finish` and
`Crash`. The Receiver is the `installed` helper and `authorized_keys`, the
directories `staged` there and the `backup` in them. `job` is the bootstrap's
memory (`_update_remote_dir`, `_apply_changed_receiver`, `_apply_rolled_back`,
`_staging_cleanup_failed`). `began` is history, and the mapping to the abstract
transaction: the desktop is its `owner` while its command or its script runs, and
`adrift` is `began.away`.

`Lifecycle` is `run_lifecycle_monitor`, one action per check of a poll, with
`handle_lifecycle_event` in two steps because it reads the status without the
lock (`ReadStatus`) and stops, or does not, later (`Act`, which waits for the
session lock). The configuration may be one that `load_config` raises for
(`BreakConfig`); an exception ends the monitor (`Raise`). dbus-monitor's lines are in
a `pipe` that `select` sees, until the reader takes them into its `buffer`, which
`select` does not see. Start is `BeginStart` (under the lock, asks for both
heartbeats) and `EndStart`. The rest is the outside: lock, suspend, logout, the
shell, the bus, signals. A heartbeat's age is `fresh` or `stale`; time is polls.

`Sources` is what the resolvers compute, as pure operators: a choice is what a
Source Matcher identifies, an id is what the audio server hands out. A stream's
numeric id may belong to another application at the next discovery, a device's
name is its id. `Settings` runs the requests as commands, one action per read or
write of a file: `Begin` (the gate), `ChooseSources` (load, discover, resolve),
`Merge` (load again and lay the request over it), `Save`; then for a Start
`StartSession`, `Resolve` and the worker's own discovery (`Work`), while it runs
`Reconcile`; `Inspect`, `Record` and `Clear` for the history; `CheckPlan` to
`Restore` for a migration. A file of the legacy schema is `LegacyFile`; loading
normalizes (`Loaded`), so nothing in memory tells it was legacy, and saving drops
the concrete ids (`Persisted`). `chosen`, `profiled`, `hidden`, `migrated` and
`answer` are history: what the user asked for and was told.

Operators marked `Mutant:` are not part of any specification; each is a
plausible slip in the definition below it, and `PROJECT.json` says which
property catches it. `Happens` says which outside events an instance has. The
theorems hold for every subset of them, except where they say otherwise (section 6).

## 4. Runs

Sizes are the states TLC finds distinct.

| Run | Question | Instance | Result |
|---|---|---|---|
| `session_routing` | Does everything come back (`StreamsRestored`, `DefaultRestored`), and does no loopback outlive the Mix (`LoopbackNeedsMix`), whatever applications and the user do meanwhile and whichever call raises on the way up? | 2 streams, 2 sinks, 1 microphone, one Session and command; the worker's cleanup calls succeed, those of commands may fail | holds, 660 000 |
| `session_serial` | Do lock and check admit one worker (`OneWorker`), always the recorded one (`RunningIsActive`), undisturbed by others (`OnlyOwnerUnloads`)? Is `Serialized` invariant? | 2 commands, 2 Sessions, workers and commands killed | holds, 1 080 000 |
| `session_crash` | After a death at any step: how much does `session.json` miss (`CrashWindow`), does Stop remove the rest (`StopCleansAfterCrash`), is a microphone always announced (`CaptureIsReported`)? | 1 stream, 1 sink, 1 microphone, 2 Sessions without local copies, 2 epochs, one command; kills, tools that exit, lost calls, failing calls of the worker's cleanup, Stop's deadline; Stop's own calls succeed | holds, 2 140 000 |
| `session_stop` | Does Stop end and leave nothing (`StopEnds`, `StoppedIsSilent`), is what a failing cleanup leaves still named (`LeftIsNamed`), does a tool's exit end the Session (`ToolExitEndsSession`), is the lock released (`LockIsReleased`), is no live process forgotten between epochs (`TrackedUntilDead`)? | 2 epochs, failing calls of the worker, of its cleanup too; Stop's own succeed; fairness | holds, 45 000 |
| `session_unruly` | Does a Session that ends by itself undo its own work (`EndsClean`) even with impatient commands, failing commands, deadlines and `ssh-mixer run`? | a remote and a local configuration; the worker's cleanup calls succeed | holds, 563 000 |
| `receivers` | Setups, removals, uninstalls and abandonment, killed, failing or unanswered at any step: are revocations true (`VerifiedMeansRevoked`), credentials kept, of finished setups (`CredentialsKept`) and of any (`RetryKeyKept`), half-done removals visible (`NothingHalfRemoved`, `BlockedWhilePending`), the pending file readable (`PendingIsReadable`)? | 2 Receivers, 2 keys, 2 commands; Receivers saved again by their address or kept in an older profile | holds, 549 000 |
| `updates` | Is the prior state kept until verified (`Recoverable`) and removed after (`NothingLeft`), and is every update one transaction of `UpdateTransaction` (`OneTransaction`)? | 2 desktops, 2 versions, 3 platforms; crashes, lost answers, failing scripts, scripts that outlive their connection | holds, 139 000 |
| `lifecycle` | Does no Session outlive a boundary that was handled (`Boundary`)? Do a lock (`LockEndsCapture`), an unobservable lock (`BlindEnds`) and a missing indicator (`HiddenEnds`) end it? | 2 outside faults besides the screen lock; fairness | holds, 305 000 |
| `settings` | Is the legacy file never lost (`LegacyRecoverable`, `RolledBack`), does a Session carry only what was chosen (`OnlyChosen`), microphones only when named (`CaptureExplicit`), does what was cleared stay so (`ClearedStays`)? | 3 commands, 2 at a time; 2 applications that share one stream id, 1 microphone, 1 monitor | holds, 371 000 |
| `find_downgrade` | A Receiver that is set up is saved again by its address | 1 Receiver, 1 key | `KeysAreListed` violated |
| `find_late_suspend` | The two lines of a suspend signal arrive together | 1 Session, 3 polls before the suspend | `SuspendStops` violated |
| `find_silent_retirement` | A Receiver is renamed in a legacy configuration | 1 command | `LegacyRecoverable` violated |

### Bounds

* Session runs. Two streams: cleanup decides per stream, and what goes wrong needs
  one that is moved or closed while another is handled. Two sinks: "put back" must
  differ from "where the server puts it". Two commands and two Sessions are what a
  race for the lock needs. `MaxEpochs` = 2 in `session_stop` and `session_crash`
  gives one renewal of the pipeline. A Stop cleans up from one read of
  `session.json`, so a worker that renews its pipeline after the read and is then
  killed leaves processes Stop does not know; and a Start that follows a crash ends
  no process at all. `StopCleansAfterCrash` exempts these two (`Superseded`) and
  nothing else: modules and streams it claims for every epoch and Session. With one
  stream the middle part of `CrashWindow` (at most one stray stream) cannot fail
  in the run; the theorem `CrashWindowAlways` covers it.
* `receivers`. Two keys let each of two Receivers be set up once, or one twice; two
  commands let two removals wait for each other.
* `updates`. Two versions: one that is newer, and the one that is there. Two
  desktops: what one leaves on the Receiver is what the other finds. The theorems
  do not depend on either bound.
* `lifecycle`. `MaxFaults` = 2 lets two of suspend, logout, shell, bus, blindness,
  a broken configuration, kill and terminate meet, with any number of locks.
  `MaxLines` = 2 is one signal of logind in the pipe. `DelayPolls` is how many polls
  logind's delay lock leaves: 5 s by default, with a poll each second; the finding has
  three to show that more of them do not help.
* `settings`. `MaxRecent` = 1 (20 in the code) makes the history overflow with two
  applications. Three commands: a choice, a change, and a Start. `Wants` names no
  choice, each single one, or the monitors with the applications, which are
  exclusive.

Symmetry is used where no definition tells the members of a set apart and no
liveness is checked: `session_routing` (streams, sinks), `session_serial`
(Sessions, commands), `session_crash`, Receiver runs (Receivers, commands),
`settings` (commands, applications). Deadlock is not checked in
the Session runs, `lifecycle` and `settings`, since an instance stops once its
Sessions, faults or commands are used up. It is checked in the runs of `Receivers` and `Updates`: whatever
happened, something can be done.

### Fairness

`Session!FairSpec` asks weak fairness of each worker's and each command's steps: a
process that runs keeps running, which the operating system grants. No fairness is
asked of the user, of applications, of tools that exit or of calls that fail. So
`StopEnds` cannot rely on a worker raising, nor `ToolExitEndsSession` on Stop.
`Started` is enabled by the worker's exit too, which is why `LockIsReleased` needs
no timer. That a pactl call returns is part of it: one that hangs is not modelled.
`Lifecycle!FairSpec` asks it of the poll and the handler (one process), of
`StartMonitor` (the restart timer of `Lifecycle.qml`), of `EndStart` (all waits of
Start are bounded) and of sleeping and waking. `Updates` has no fairness and no
liveness: neither `ssh` nor any remote command is given a timeout (`bootstrap.py`
lines 32 and 127 to 168), so that nothing makes an update end when the Receiver stops
answering. It can be killed at any step (`Crash`), which is what `Recoverable` is
about. The other modules state safety only.

### What the instances assume

* Streams open on hardware sinks, and the user does not move streams to the Mix. A
  cleanup takes its listings of modules, streams and default in one step. The
  handler of SIGTERM runs in one step.
* `stopDeadline`, `abandon`, `foreground`, `cleanupFails` and `commandFails` are left out
  of the Session runs whose properties they break (section 5); `session_unruly` has
  all of them but `cleanupFails`. So `StoppedIsSilent`, `StopEnds`,
  `StopCleansAfterCrash`, `CaptureIsReported` and `CrashWindow` assume that the pactl
  calls of Stop and Start succeed, and `EndsClean`, `StreamsRestored`,
  `DefaultRestored` and `LoopbackNeedsMix` that those of the worker's cleanup do. The
  two events are set apart because what they break is different: what the worker
  leaves, the next command still finds (`LeftIsNamed`); what Stop leaves, it forgets.
* `session.json`'s writes succeed, and in `Session` the configuration can be loaded. A
  Stop loads it before its last write (`session.py` line 1257) and would raise there;
  `Lifecycle` has that path, for the Stop of the monitor.
* In `Receivers` a load and save of `config.json` is one step and commands are one at
  a time, because the panel runs one backend command at a time; removals may overlap
  with each other, from a terminal. `"overlap"` in `Happens` lifts that. `Settings`
  has the steps apart and overlapping commands.
* A Mix Profile per Receiver, fewer Receivers than the 32 saved Connections. Two
  Receivers never share a helper, a home directory or an identity. A setup needs an
  approved host key. A key leaves `owned` from the moment an abandoned removal is
  marked.
* In `Updates` the signature of metadata is valid or not, artifacts are what their
  checksums say, and `authorized_keys` is told apart by who wrote it last. Two
  transactions do not overlap and a plan is approved before anything changes unless
  `Happens` says so (section 5). A script that outlives its connection goes on or
  undoes itself; one that dies half way with its connection, without its own
  roll-back, is not modelled. A restore of helper and keys is one step of the
  Receiver, beside which the script takes none.
* In `Settings` every stream has one of a few numeric ids; `OnlyChosen` and
  `ClearedStays` are about commands that did not overlap (`alone`), as the panel
  runs them. The other properties are about any overlap.

## 5. Findings

Three are runs that TLC refutes; `PROJECT.json` quotes the text of the repository
each contradicts.

* **A Managed Identity that is no longer listed** (`find_downgrade`).
  `connection.save` forgets that the Receiver was set up, so that removal cannot
  revoke its key, and a new setup is refused because the identity exists.
* **A suspend that is not heard** (`find_late_suspend`). The monitor selects on
  dbus-monitor's pipe but reads lines through a buffer. The second line of
  `PrepareForSleep` is in the buffer when `select` looks at the pipe; it is handled
  when the next signal comes, after the wake.
* **A legacy configuration retired by a rename** (`find_silent_retirement`).
  `connection.rename`, `connection.select` and `mix-profile.quick-start` are not in
  `migration_blocked_operations`. They write the current schema, after which nothing
  is legacy, no choice is offered and no backup exists.
Other behaviours that violate a property when the event that causes them is
admitted; the runs above leave these events out of the properties they break:

* `silentStart` breaks `OneWorker`: Start gives up before its worker's first write and
  releases the lock, the next Start finds no active Session.
* A Start that follows a crash breaks `TrackedUntilDead` (`workerKill` with two
  Sessions): it cleans modules and streams but not processes, and the new worker
  overwrites the list of them.
* `lostCall` breaks `StreamsRestored`: Stop signals the process group, so a pactl call
  that puts a stream back dies, and neither cleanup sees it again.
* `stopDeadline` breaks `StoppedIsSilent`, `foreground` breaks `RunningIsActive`.
* `cleanupFails` breaks `EndsClean`, `StreamsRestored`, `DefaultRestored` and
  `LoopbackNeedsMix`: `cleanup_resources` takes a listing that fails for an empty one
  (`session.py` lines 321 to 340) and ignores a move or an unload that fails (292,
  357). A loopback whose unload failed outlives the Mix unloaded after it, and the
  server may attach its free end elsewhere.
* `commandFails` breaks `StoppedIsSilent`, `StopEnds`, `StopCleansAfterCrash`,
  `CaptureIsReported` and `CrashWindow`: when the listing of modules fails in Stop's
  cleanup and in its sweep (331, 377 to 379), Stop writes "stopped" and an empty list of
  resources over a Mix that is still loaded. A second Stop finds nothing to do; only
  the sweep of the next Start, by the name of the Mix, removes it.
* `readd` breaks `VerifiedMeansRevoked` (a Receiver is set up again before its removal has
  ended: the retry takes the earlier verdict for the new key) and
  `PendingIsReadable` (it is saved again as user-managed: the next entry cannot be
  read back, which blocks removals and Start).
* `overlap` in `Receivers` breaks `BlockedWhilePending`: a Start and a removal hold
  different locks and pass each other.
* `stalePlan` breaks `OneTransaction`: a plan is checked again from the version it
  started from, so one that is approved after another desktop's update can install
  an older helper.
* A legacy configuration that selects a microphone by its id breaks
  `CaptureExplicit`: a Start loads it, waits for the session lock while a migration
  rewrites the file, passes the check of the file as it is then, and routes the ids
  it had read before.
* `overlap` in `Updates` breaks `Recoverable`: the second transaction keeps the
  half-done state of the first as its backup.

Behaviours the models have, and which a property therefore does not exclude although
the documentation suggests that it might:

* **A restore that does not last.** `apply` takes the return of `ssh` for the end of the
  script (`bootstrap.py` line 297, `macos_bootstrap.py` line 224). When the connection
  breaks, the roll-back restores and reports it, and the script installs the new
  helper afterwards (`docs/user-guide.md` line 159 promises that the prior helper is
  restored). On Windows such an update is never reported as restored. `OneTransaction`
  has this in its abstract specification, as what a transaction that is `adrift` may say.
* **A Session without its monitor.** The monitor's heartbeat is asked for by Start only
  (`session.py` line 1135), while the user guide (line 121) says that a lost heartbeat
  stops a Session. When the shell goes away with the monitor, the Session goes on, which
  is why `LockEndsCapture` exempts `~shell`. (A dbus-monitor that ends leaves even a
  fresh heartbeat, and a monitor that hears no signals.)
* **A lock that raises.** The guide (line 121) says that every Capture Session stops on
  lock. The configuration is loaded before the Session's kind is looked at
  (`lifecycle.py` line 83); when that raises, the monitor ends, and every later one
  does. `LockEndsCapture` exempts a configuration that cannot be loaded.
* **A key nobody asks about.** A setup that fails, and cannot take its key back, keeps its
  private key but saves no Connection. An uninstall lists nothing, deletes the private
  key and reports `allReceiversRevoked` (`removal.py` line 289; the code's README, lines
  88 and 98, says that uninstall revokes first). `CredentialsKept` is not about such
  keys, and `RetryKeyKept`, which is, exempts that last step of an uninstall. The report
  is equally wrong about a Receiver that `find_downgrade` has made user-managed and the
  user then abandoned.

Read in the code while modelling, without a property of their own:

* **A microphone on the speakers.** With the route Both the Mix is copied to every sink an
  application played on, and selected microphones are in the Mix (`routing.py` line 257).
  The code's README (line 150) and the user guide (line 109) say that microphones are
  never looped into local speakers. `session_routing` has that configuration.
* Linux and macOS setup scripts report their own roll-back on stderr, while an update
  reads stdout: it then rolls back once more, from its own backup. On Windows the
  Rollback mode removes the backups also when a file could not be restored; the
  report says "incomplete".
* A roll-back restores `authorized_keys` as a whole: keys the Receiver's owner added in
  between are lost.
* More than twenty applications that play at once truncate what was to be ignored, and
  a failing pactl call looks like silence, after which cleared applications return
  to the history. `FewPlay` is the assumption of the theorem `ClearedAway`.
* "Keep user-managed" keeps the Connection but drops pins and Mix Profiles.

## 6. Proofs

`SessionProofs` proves, for all sets of streams, sinks, microphones, Sessions,
commands and configurations and for all events:

* `TypeCorrect`: `Spec => []TypeOK`.
* `WorkersAreSerialized`: `Spec => []Serialized`, under `NoBypass` (neither a Start
  that gives up before the first write nor `ssh-mixer run`).
* `OneWorkerAlways`, `RunningIsActiveAlways`: its two consequences.
* `OnlyOwnerUnloadsAlways`: no command unloads a living worker's modules.

`OneWorker` is not inductive: nothing in it keeps a second command from spawning.
`Serialized` adds why. Whoever is not idle holds the lock (`BusyHoldsLock`). A
command that awaits, signals or waits out a worker has no other beside it
(`AttachedToOne`); one that cleans, sweeps or prepares has none at all
(`AloneAtWork`). The window between `Popen` and the worker's first write is the
delicate part: `session.json` does not name the worker yet, so all that protects it
is the command that awaits it with the lock (`BootIsAwaited`); that the file does
not name it (`BootIsUnwritten`) is needed for that command not to return early; from
the first write on, file and worker both say it is active (`WorkingIsWritten`),
which is what `Guard` reads. `fg = {}` says every worker is recognizable by its
command line. `NoBypass` cannot be dropped: `Abandon` in the boot phase breaks
`BootIsAwaited`. The proof goes action by action. Four lemmas state the ways a step
can change the control (goes on, ends, becomes alone, leaves) and what each needs
to keep `Serialized`; the actions only show which of them they are.

Three modules build on it. What each assumes of `Happens` is what section 5 shows to
be necessary, or an event that takes a worker away in the middle of what the
property is about.

`CleanupProofs`, what a worker keeps account of:

* `AccountsAreKept`, `ChildrenAreKnown`, `MixNeededAlways`: whatever happens. `Account`
  says of each worker that has lost no call to a signal, at each step and to its
  end, that the modules it has are among those it tracks or in `pending` (`Ledger`);
  and of one whose cleanup calls succeed, that they are also among those its listing
  found, and that after the unloads it has none. `Children` says the first of its
  processes, except in `transport`, where an `ffmpeg` runs that is not in
  `self.children` yet.
* `EndsCleanAlways`: `Spec => []EndsClean`, if the calls of a worker's cleanup succeed
  (`"cleanupFails" \notin Happens`). It follows from the second half of `Ledger`: a worker
  gets to `exiting` only through a cleanup that had all modules in its list.
* `LeftIsNamedAlways`: `Spec => []LeftIsNamed`, whatever happens and whichever call
  fails. It follows from the first half of `Ledger`, and from the worker's last write
  being that of all it tracks (`AtRest`).
* `TrackedUntilDeadAlways`: `Spec => TrackedUntilDead`, under `NoBypass` and `NoKill`
  (no worker is killed, by the user or at Stop's deadline). `Written` adds that a
  worker still tracks each live process `session.json` names.

`RoutingProofs`, under `Calm` (`NoBypass`, `NoKill`, no `lostCall` and no `cleanupFails`:
the calls of a worker's cleanup succeed), with streams and defaults that the user and
applications change as they like, calls that raise while the route is built or
renewed, commands whose calls fail, and exiting tools:

* `LoopbackNeedsMixAlways`: from `MixServes` (a worker that routes has its Mix).
* `StreamsRestoredAlways`: from `Streams`. A stream on the Mix is in the worker's
  `moved` or is the one in `pending`; a cleanup's list has each of them until it is
  moved back, and none is on the Mix when the modules go, when the server would
  choose a sink for it. Any other stream is where the user put it or where a worker
  took it from (the user may have moved it between the listing and the move).
* `DefaultRestoredAlways`: from `Default`. A default sink that is neither the Mix, the
  user's, nor one a worker noted exists only between the unloading of the Mix and
  the `set-default-sink` that the cleanup has already planned.

In `Calm` a worker cleans up by itself, and `IdleCleanup` says that a command that
comes after it finds nothing to do; so the proofs have the worker's steps only.

`CrashProofs`, for workers and commands killed at any step, lost calls, failing calls of
the worker and its cleanup, Stop's deadline, under `Patient` (`NoBypass`, Start waits
until the route is up, and the calls of Start and Stop succeed: no `commandFails`):

* `CaptureIsReportedAlways`, `CrashWindowAlways`: from `Books`. `BookOf` compares what a
  worker made with what `session.json` has of it: all but one effect, even after the
  worker is dead or the file belongs to its successor. `Holdings` says of every
  module whose it can be, and that a loopback is never without its Session's record.
* `StopCleansAfterCrashAlways`: `Pipelines` adds the processes of first pipelines, which
  the file names from the moment the worker goes on; with it what a Stop has read
  (`ReadOf`, `CommandOf`) is still what there is when it acts on it.
* `StoppedIsSilentAlways`: also under `NoKill`, since `stopDeadline` breaks it.

They rest on `Awaited`: while a worker starts, the Start that made it waits and holds
the lock, so that a Stop never reads the file between two writes of a Start. This is
why `Patient` excludes `abandon`.

`UpdateProofs` proves, for any number of desktops and versions and on all platforms:

* `UpdateTypes`: `Spec => []TypeOK`, overlapping transactions included.
* `UpdateRecoverable`, `UpdateLeavesNothing`: `[]Recoverable` and `[]NothingLeft`, if
  transactions do not overlap (`"overlap" \notin Happens`); scripts that outlive their
  connection included.
* `UpdateRefines`: `Spec => OneTransaction`, the refinement of `UpdateTransaction`, if
  moreover no plan is approved after the Receiver has changed (`stalePlan`). Scripts
  that outlive their connection are included, as what the abstract specification
  allows of a transaction that is `adrift`.

The inductive invariant is `Consistent`: only the desktop that began the latest
transaction is busy, the Receiver is a mixture of what was there and what was
approved, and `Phases` holds of that desktop, which says for each `pc` and for each
step of the script (`Scripted`) what is installed, what the backups hold and what
the desktop believes. `Recoverable` needs it because the backups are of use only if nobody
removes them while `began.settled` is false, and that depends on the desktop's
memory: it commits only after `Verify`, and a roll-back with nothing retained
claims success only if nothing changed or the script has said so. A script that
has lost its connection runs beside the roll-back or the clean-up of staging, or
after its desktop is gone (`Adrift`), and after the break there is only a roll-back and
its report (`AtDrift`). `NothingLeft`
and the honest report need `AtRollback` and `AtCleanup`. The lemmas `InstallKeeps`,
`ScriptKeeps`, `EndKeeps` and `LeavingKeeps` go through the steps;
`StepRefines` maps every step to `Begin`, `Change`, `Break`, `Report`,
`ReportAdrift`, `Vanish` or a stutter.

`LifecycleProofs` proves, for any number of Sessions, signals, faults and polls:

* `LifecycleTypes`: `Spec => []TypeOK`.
* `BoundaryHolds`: `Spec => []Boundary`, the safety half of what the monitor is for.

`Boundary` speaks of the moment the handler is through; what carries it there is
`Read`: between the handler's read of the status, which takes no lock, and its
stop, the Session it saw is either still that one or gone, or another with a higher
number has begun. Without the numbers a Session started in between could be taken
for the one that was seen. `Bounded` says when the monitor has given up.

`SettingsProofs` proves, for any Sources, requests and number of commands, overlaps,
crashes and failed saves included:

* `LegacyIsRecoverable`: `Spec => []LegacyRecoverable`, if the requests that no gate
  refuses do not come (`"unguarded" \notin Happens`; section 5 has what they do).
* `CaptureIsExplicit`: `Spec => []CaptureExplicit`, if the legacy configuration selects
  no microphone.
* `RollbackIsTrue`: `Spec => RolledBack`, with no condition.
* `SessionsAreChosen`: `Spec => []OnlyChosen`, with no condition.
* `ClearedAway`: `Spec => []ClearedStays`, under `FewPlay` (no more applications play at
  once than the history keeps, `source_history.py` line 96; section 5).
* `SettingsTypes`: `Spec => []TypeOK`, with no condition.

For the first, `Guarded` adds to the property what the gates achieve: as long as
nothing is backed up or migrated, every command is at a step that leads to no write
(`Waiting`); `BackupStays` says that from the backup on only a verified migration
ends the state. For the second, `EInv` says that `config.json` never has a
microphone's id, and that the configuration a command holds has only microphones its
request named (`Explicit`). The lemmas from `MatchingMics` to `ChosenExplicit` show
that no resolver adds one, whatever a discovery finds.

`RolledBack` needs `KeysNoted`: an import that has left a key on the Receiver has
noted so by the time it restores the file, or is on the way there. `OnlyChosen` is
about three places at once, the file, the Session and what each command has in
memory, which pass Sources on to each other: `Meant` says, step by step, that a
command that was alone holds nothing its user did not choose, and `FileForm` that
concrete ids are in the file only while it is the legacy one, so that what a worker
resolves comes from the choices. `ClearedStays` needs `HInv`: between the two halves
of an inspection the command's copy of the history is the one in the file, and it
has seen everything play that was cleared and still plays.

The history is two sequences, cut, filtered and joined at every inspection. The first
section of the module has the facts about them. `Settings!Without`, the filter, is
stated as the sequence that lists the other elements in the same order rather than
with the library's recursive `SelectSeq`, of which nothing could be proved;
`ListingExists` shows that there is one, by the least-number principle, and
`WithoutFacts` what follows.

`ReceiverProofs` proves, for any Receivers, commands and keys, with crashes, lost
answers, failing files and setups, stale profiles and Receivers saved again:

* `ReceiverTypes`: `Spec => []TypeOK`.
* `RevocationIsTrue`, `CredentialsAreKept`: `[]VerifiedMeansRevoked` and
  `[]CredentialsKept`, what removal is for; both are about the keys of setups that
  were reported as done.
* `RetryKeysAreKept`: `Spec => RetryKeyKept`, about any key a Receiver accepts, also that
  of a setup that failed or was killed.
* `NothingIsHalfRemoved`, `SessionsAreBlocked`, `PendingStaysReadable`: the other
  invariants of the run `receivers`.

All of them under `Orderly`: commands other than removals do not overlap, and a
Receiver is not added again between its revocation and the end of its cleanup.
Section 5 has what breaks otherwise. None of the properties is inductive. A
revocation is claimed at the end of a removal, which only knows what its phases
have done: `InRemoval` says that from the record on the Receiver accepts no key of
a setup, that the entry's verdict is the command's, and that an uninstall's queue has
every Receiver that still accepts one. A verdict outlives the command that wrote it,
so `Verified` says what it stands for in every state. A setup that fails brings an
earlier configuration back: `InSetup` carries `Sound` for the configuration in the
command's memory too, with the identity about to be forgotten named by none of its
copies. `RetryKeyKept` needs two more facts: a setup forgets its identity only after the
Receiver has dropped its key (`Undone`), and a removal deletes one only after its
revocation (`Cleared`), which an entry's verdict stands for in between; together
they are `Gone`. `Solo` (one command at a time, through the Panel or `removal.lock`) keeps
the rest of the state still while a command is between two steps; the lemma
`Conclude` uses it to reduce each step to the command that takes it.

Assumed are the modules' named assumptions (`ServerAssumption`, `SessionAssumption`,
`ReceiversAssumption`, `UpdateAssumption`, `LifecycleAssumption`,
`SettingsAssumption`, `SourcesAssumption`: sets are disjoint where the code's
namespaces are, the slots for streams are finite, bounds are natural numbers), which
TLC evaluates in every run.

Every invariant and every action property of the passing runs is thus a theorem.
Only model-checked is liveness, which is out of the prover's reach: `StopEnds`,
`ToolExitEndsSession`, `LockIsReleased`, `LockEndsCapture`, `BlindEnds` and
`HiddenEnds`. The findings are single behaviours, which TLC exhibits.

## 7. Not modelled

* Panel: layout and navigation in QML, and the rules of one process (one command in
  flight, a choice replaced by a newer one), which the models assume where section 4
  says so.
* Diagnostics, version negotiation, release and repository tools: strings, constants
  and sequential scripts.
* Command lines of `ffmpeg` and `ssh`, the preflight's network part, log text,
  redaction. When an epoch of the stream ends is left open.
* OpenSSH profiles, Tailscale renames, changed host keys and the eviction of the 33rd
  saved Connection.
* Requests that give raw `sourceIds` instead of choices; names and grouping of
  Sources; rename and duplicate of Mix Profiles.
* What setup installs besides helper and key, and the parallel streams of a Receiver's
  helper: one process per request, without shared state but the key.
* Reuse of a recorded pid: identity is pid, start time and executable together, and
  the model's processes are never confused.
