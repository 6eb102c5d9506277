---------------------------- MODULE PulseServer ----------------------------
(***************************************************************************)
(* The PulseAudio/PipeWire server as SSH-mixer sees it through `pactl`.    *)
(* The server is not part of the repository: its operations are the pactl  *)
(* calls session.py makes (load-module, unload-module, move-sink-input,    *)
(* set-default-sink) with the effects that code and its tests rely on, and *)
(* the moves that applications and the user make on their own.             *)
(***************************************************************************)
EXTENDS Naturals, FiniteSets

CONSTANTS
  Inputs,    \* sink inputs: playback streams; the server never reuses their ids
  Sinks,     \* hardware sinks (outputs)
  Captures,  \* capture sources (microphones)
  Sessions   \* SSH-mixer session ids; a module remembers who loaded it

Mix    == "mix"     \* the null sink ssh_mixer_mix
NotYet == "notyet"  \* a stream its application has not opened yet
Gone   == "gone"    \* a stream its application has closed

ASSUME ServerAssumption ==
  /\ Sinks # {}
  /\ {Mix, NotYet, Gone} \cap Sinks = {}

(***************************************************************************)
(* A loaded module: the Mix null sink, a loopback from a capture source    *)
(* into the Mix ("input"), or a loopback from the Mix's monitor to a       *)
(* hardware sink ("copy"). `end` is the end that is not the Mix, and       *)
(* `owner` makes the server's numeric module ids distinct.                 *)
(***************************************************************************)
ModuleKinds == {"null", "input", "copy"}
Module == [kind : ModuleKinds, end : Captures \cup Sinks \cup {Mix}, owner : Sessions]

NullSink(s)         == [kind |-> "null",  end |-> Mix,  owner |-> s]
InputLoopback(s, d) == [kind |-> "input", end |-> d,    owner |-> s]
CopyLoopback(s, k)  == [kind |-> "copy",  end |-> k,    owner |-> s]

VARIABLES
  modules,  \* the modules SSH-mixer loaded and the server still runs
  at,       \* the sink each stream plays to, or NotYet, or Gone
  dflt,     \* the default sink
  home,     \* history: the hardware sink the user last put each stream on
  chosen    \* history: the default sink the user last chose

server == <<modules, at, dflt, home, chosen>>

ServerTypeOK ==
  /\ modules \in SUBSET Module
  /\ at \in [Inputs -> Sinks \cup {Mix, NotYet, Gone}]
  /\ dflt \in Sinks \cup {Mix}
  /\ home \in [Inputs -> Sinks]
  /\ chosen \in Sinks

ServerInit ==
  /\ modules = {}
  /\ chosen \in Sinks /\ dflt = chosen
  /\ home \in [Inputs -> Sinks]
  /\ at \in [Inputs -> Sinks \cup {NotYet}]
  /\ \A i \in Inputs : at[i] \in {home[i], NotYet}

Playing(i) == at[i] \in Sinks \cup {Mix}

MixExists(ms) == \E m \in ms : m.kind = "null"

-----------------------------------------------------------------------------
(* The pactl calls.                                                        *)

\* load-module module-null-sink: the server may make a new sink its default,
\* which is why the code sets the default sink again afterwards.
LoadNullSink(s) ==
  /\ modules' = modules \cup {NullSink(s)}
  /\ dflt' \in {dflt, Mix}
  /\ UNCHANGED <<at, home, chosen>>

\* load-module module-loopback
LoadLoopback(m) ==
  /\ modules' = modules \cup {m}
  /\ UNCHANGED <<at, dflt, home, chosen>>

\* move-sink-input; there is nothing to move once the stream is gone, or to
\* move to when the Mix is not there
MoveInput(i, k) ==
  /\ Playing(i)
  /\ k = Mix => MixExists(modules)
  /\ at' = [at EXCEPT ![i] = k]
  /\ UNCHANGED <<modules, dflt, home, chosen>>

\* set-default-sink
SetDefault(k) ==
  /\ dflt' = k
  /\ UNCHANGED <<modules, at, home, chosen>>

\* unload-module. When the last null sink goes, the server moves the streams
\* that played to it to a remaining sink and picks another default.
Unload(m) ==
  /\ modules' = modules \ {m}
  /\ IF m.kind = "null" /\ ~MixExists(modules \ {m})
     THEN \E k \in (IF dflt = Mix THEN Sinks ELSE {dflt}) :
            /\ dflt' = k
            /\ at' = [i \in Inputs |-> IF at[i] = Mix THEN k ELSE at[i]]
     ELSE UNCHANGED <<at, dflt>>
  /\ UNCHANGED <<home, chosen>>

-----------------------------------------------------------------------------
(* What applications and the user do.                                      *)

StreamOpens(i) ==
  /\ at[i] = NotYet
  /\ at' = [at EXCEPT ![i] = home[i]]
  /\ UNCHANGED <<modules, dflt, home, chosen>>

StreamCloses(i) ==
  /\ Playing(i)
  /\ at' = [at EXCEPT ![i] = Gone]
  /\ UNCHANGED <<modules, dflt, home, chosen>>

UserMoves(i, k) ==
  /\ Playing(i) /\ at[i] # k
  /\ at'   = [at EXCEPT ![i] = k]
  /\ home' = [home EXCEPT ![i] = k]
  /\ UNCHANGED <<modules, dflt, chosen>>

UserChoosesDefault(k) ==
  /\ dflt # k
  /\ dflt' = k
  /\ chosen' = k
  /\ UNCHANGED <<modules, at, home>>
=============================================================================
