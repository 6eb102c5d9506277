----------------------------- MODULE MCSettings -----------------------------
(* Small instances of the settings commands for TLC.                       *)
EXTENDS SettingsProperties, TLC

\* Nothing, one choice, or the monitors with the applications: Desktop (All)
\* excludes them, another output's monitor does not.
FewWants == {{}} \cup {{x} : x \in AllChoices} \cup {Monitors \cup Apps}

\* No definition tells one command or, with a single slot, one application from
\* another: with two slots SetToSeq would order those that play together.
AnySymmetry == Permutations(Commands) \cup Permutations(Apps)
=============================================================================
