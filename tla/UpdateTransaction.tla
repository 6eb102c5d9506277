------------------------- MODULE UpdateTransaction -------------------------
(***************************************************************************)
(* What a Receiver update promises its user, whatever platform it runs on: *)
(* it is one transaction on the installed helper and on authorized_keys,   *)
(* never leads to an older helper, and its report is honest. Once the       *)
(* connection is lost while setup runs, all it still promises is what the   *)
(* Receiver can become, and that it is not reported as updated.             *)
(***************************************************************************)
EXTENDS Naturals

CONSTANTS Desktops, MaxVersion, NoOne

Versions == 1 .. MaxVersion

\* The helper installed and who wrote authorized_keys last
Contents == [helper : Versions, keys : Desktops \cup {NoOne}]

Outcomes == {"none", "updated", "unclean", "restored", "rejected", "incomplete"}

VARIABLES
  installed, \* Contents of the Receiver
  owner,     \* the desktop whose transaction is open
  began,     \* the Contents it found
  target,    \* the version it was approved for
  adrift,    \* its setup has run on with no one to hear its answer
  outcome    \* what each desktop was told of the latest one

vars == <<installed, owner, began, target, adrift, outcome>>

Init ==
  /\ installed \in Contents
  /\ owner = NoOne
  /\ began = installed
  /\ target = installed.helper
  /\ adrift = FALSE
  /\ outcome = [d \in Desktops |-> "none"]

\* An approved update begins; it never aims at an older helper.
Begin(d, v) ==
  /\ owner = NoOne /\ owner' = d
  /\ v >= installed.helper /\ target' = v
  /\ began' = installed /\ adrift' = FALSE
  /\ outcome' = [e \in Desktops |-> "none"]
  /\ UNCHANGED installed

\* The Receiver changes between what was there and what was approved.
Change ==
  /\ owner # NoOne
  /\ installed' \in [helper : {began.helper, target}, keys : {began.keys, owner}]
  /\ UNCHANGED <<owner, began, target, adrift, outcome>>

\* The connection breaks while setup is running.
Break ==
  /\ owner # NoOne /\ adrift' = TRUE
  /\ UNCHANGED <<installed, owner, began, target, outcome>>

\* "updated" is said of the approved helper only; "restored" and "rejected"
\* only of exactly what was there. "unclean" is an update whose local staging
\* directory is still there.
Report(o) ==
  /\ owner # NoOne /\ owner' = NoOne
  /\ o \in {"updated", "unclean"} => installed = [helper |-> target, keys |-> owner]
  /\ o \in {"restored", "rejected"} => installed = began
  /\ outcome' = [outcome EXCEPT ![owner] = o]
  /\ ~adrift
  /\ UNCHANGED <<installed, began, target, adrift>>

\* What is said of a restore when setup may still be running is not certain.
ReportAdrift(o) ==
  /\ owner # NoOne /\ owner' \in {owner, NoOne}
  /\ o \in {"restored", "incomplete"}
  /\ outcome' = [outcome EXCEPT ![owner] = o]
  /\ adrift
  /\ UNCHANGED <<installed, began, target, adrift>>

\* The desktop dies and nothing is said.
Vanish ==
  /\ owner # NoOne /\ owner' = NoOne
  /\ UNCHANGED <<installed, began, target, adrift, outcome>>

Next ==
  \/ \E d \in Desktops, v \in Versions : Begin(d, v)
  \/ Change \/ Break
  \/ \E o \in Outcomes : Report(o) \/ ReportAdrift(o)
  \/ Vanish

Spec == Init /\ [][Next]_vars
=============================================================================
