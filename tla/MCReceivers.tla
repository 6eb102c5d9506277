---------------------------- MODULE MCReceivers ----------------------------
(* Small instances of the Receivers for TLC.                               *)
EXTENDS ReceiverProperties, TLC

\* No definition tells one Receiver or one command from another.
AnySymmetry == Permutations(Receivers) \cup Permutations(Commands)
=============================================================================
