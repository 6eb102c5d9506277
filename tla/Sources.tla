------------------------------ MODULE Sources ------------------------------
(***************************************************************************)
(* What the Source resolvers compute (audio.py, source_choices.py,         *)
(* routing.py). A choice is what a Source Matcher identifies: an           *)
(* application by its program, a microphone or an Output Monitor by its    *)
(* device name. A concrete id is what the audio server hands out: one slot *)
(* per playback stream, whose number another application may get later,    *)
(* and the device's own name for a microphone or a monitor.                *)
(***************************************************************************)
EXTENDS FiniteSets

CONSTANTS
  Apps, Mics, Monitors,  \* the choices
  Slots,                 \* numeric ids of playback streams
  NoSource

AllChoices == Apps \cup Mics \cup Monitors
Devices == Mics \cup Monitors
Ids     == Slots \cup Devices

ASSUME SourcesAssumption ==
  /\ IsFiniteSet(Slots)
  /\ NoSource \notin AllChoices \cup Ids
  /\ Apps \cap Devices = {} /\ Mics \cap Monitors = {} /\ Slots \cap AllChoices = {}

\* What one discovery may find: who plays in each slot, which devices are
\* there, and whose monitor is "Desktop (All)", if the default sink has one.
Audios ==
  {audio \in [at : [Ids -> AllChoices \cup {NoSource}], desktop : Monitors \cup {NoSource}] :
     /\ \A s \in Slots : audio.at[s] \in Apps \cup {NoSource}
     /\ \A d \in Devices : audio.at[d] \in {d, NoSource}
     /\ audio.desktop # NoSource => audio.at[audio.desktop] = audio.desktop}

Live(audio) == {audio.at[i] : i \in Ids} \ {NoSource}

\* match_source over the Sources of a discovery
Matching(audio, matchers) == {i \in Ids : audio.at[i] \in matchers}

\* enforce_desktop_all_exclusivity
Exclusive(audio, ids) == IF audio.desktop \in ids THEN {audio.desktop} ELSE ids

\* resolve_choice_ids: every choice must be known or playing now.
CanChoose(audio, catalog, want) == want \subseteq catalog \cup Live(audio)
Choose(audio, want) ==
  LET ids == Exclusive(audio, Matching(audio, want))
  IN  [ids |-> ids,
       matchers |-> IF audio.desktop \in ids THEN {audio.desktop} ELSE want]

\* resolve_source_matchers: a remembered microphone is never selected.
Remembered(audio, matchers) ==
  Exclusive(audio, Matching(audio, matchers \ Mics))

\* _source_resolution_requires_review: only an application may be absent.
NeedsReview(audio, matchers) == ~(matchers \ Live(audio) \subseteq Apps)

\* Mutant: a selected id is taken for whatever it is now
CanStartAnyway(audio, matchers, ids) == matchers \cap Monitors \subseteq Live(audio)
\* Mutant: a remembered microphone starts like any other Source
StartRemembering(audio, matchers, ids) ==
  [ids |-> Exclusive(audio, ids \cup Matching(audio, matchers)), matchers |-> matchers]

\* resolve_session_source_ids: an explicit id must still be what a matcher
\* says; a saved Output Monitor must be there.
CanStart(audio, matchers, ids) ==
  /\ ids \subseteq Matching(audio, matchers)
  /\ matchers \cap Monitors \subseteq Live(audio)
StartWith(audio, matchers, ids) ==
  LET all == Exclusive(audio, ids \cup Matching(audio, matchers \ Mics))
  IN  [ids |-> all,
       matchers |-> IF audio.desktop \in all THEN {audio.desktop} ELSE matchers]

=============================================================================
