----------------------------- MODULE MCUpdates -----------------------------
(* Small instances of the Receiver updates for TLC.                        *)
EXTENDS UpdateProperties
=============================================================================
