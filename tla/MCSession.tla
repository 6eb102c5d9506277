----------------------------- MODULE MCSession -----------------------------
(* Small instances of the Session engine for TLC.                          *)
EXTENDS SessionProperties, TLC

Config(d, cs, p) == [dest |-> d, caps |-> cs, play |-> p]

\* Every stream and every microphone, copied back to the local sinks
BothConfigs == {Config("both", Captures, TRUE)}
\* One remote and one local configuration
MixedConfigs == {Config("both", Captures, TRUE), Config("local", {}, FALSE)}
\* The same sent to the Receiver only
RemoteConfigs == {Config("ssh", Captures, TRUE)}
CaptureConfigs == {Config("ssh", Captures, FALSE)}

\* No definition tells one session, command, stream or sink from another.
SmallSymmetry == Permutations(Sessions) \cup Permutations(Clients)
RouteSymmetry == Permutations(Inputs) \cup Permutations(Sinks)
=============================================================================
