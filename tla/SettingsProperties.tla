------------------------- MODULE SettingsProperties -------------------------
(***************************************************************************)
(* What the settings commands promise the user.                            *)
(***************************************************************************)
EXTENDS Settings

\* A legacy configuration is not retired silently: until a migration has been
\* verified the exact file is in place or in the backup, whichever commands
\* overlap, fail or are killed (_prepare_backup, _verify, _restore_backup).
LegacyRecoverable == config = LegacyFile \/ backup \/ migrated

\* A migration that is reported as completely rolled back has put back the
\* exact file and left no key on the Receiver (MigrationService.execute).
RolledBack ==
  [][\A c \in Commands :
       pc[c] = "restore" /\ pc'[c] = "idle" /\ answer' = "complete" /\ answer # "complete"
         => config' = LegacyFile /\ ~job[c].keyLeft]_vars

\* A Session carries only what the user named for it or had last chosen to be
\* selected: pins and the history select nothing, an id that another Source got
\* in the meantime carries nothing, and neither does a Source that was withdrawn.
\* Commands that overlap can bring a withdrawn selection back (save_config).
OnlyChosen == alone => session.sources \subseteq session.meant

\* A microphone is heard only in a Session whose Start named it: neither the
\* remembered choice nor a Mix Profile starts one, whichever commands overlap.
CaptureExplicit == session.sources \cap Mics \subseteq session.named

\* What was cleared from the history does not come back while it plays on
\* (SourceHistoryStore.clear and observe).
ClearedStays == alone => hidden \cap ToSet(history.recent) = {}
=============================================================================
