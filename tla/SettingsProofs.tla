--------------------------- MODULE SettingsProofs ---------------------------
(***************************************************************************)
(* Proofs about the settings commands, for any Sources, requests, commands *)
(* and overlaps of them: the legacy configuration is never lost, and what  *)
(* a migration reports is true; a microphone is heard only in a Session    *)
(* that named it, and a Session carries only what was chosen; every        *)
(* variable keeps its type, and what was cleared from the history stays    *)
(* away. The first section is about sequences, which the history is made   *)
(* of.                                                                     *)
(***************************************************************************)
EXTENDS SettingsProperties, TLAPS, FiniteSetTheorems, SequenceTheorems

-----------------------------------------------------------------------------
(* Sequences: what the history is made of                                  *)

\* The least-number principle, for a set of numbers
Before == {p \in Nat \X Nat : p[1] < p[2]}

\* Every set of numbers has a least one.
LEMMA LeastNumber ==
  ASSUME NEW T \in SUBSET Nat, T # {}
  PROVE  \E n \in T : \A m \in T : n <= m
<1>1. IsWellFoundedOn(Before, Nat)
  <2>1. OpToRel(<, Nat) = Before BY Zenon DEF OpToRel, Before
  <2> QED BY <2>1, NatLessThanWellFounded
<1>2. PICK n \in T : \A m \in T : ~ (<<m, n>> \in Before) BY <1>1, WFMin
<1>3. \A m \in T : m \in Nat /\ ~(m < n) BY <1>2 DEF Before
<1> QED BY <1>2, <1>3

\* and for the greatest of finitely many
LEMMA GreatestNumber ==
  ASSUME NEW L \in Nat, NEW T \in SUBSET (1 .. L), T # {}
  PROVE  \E n \in T : \A m \in T : m <= n
<1> DEFINE U == {L - n : n \in T}
<1>0. \A n \in T : n \in Nat /\ n <= L OBVIOUS
<1>1. U \in SUBSET Nat /\ U # {}
  <2>1. \A n \in T : L - n \in Nat BY <1>0
  <2> QED BY <2>1
<1>2. PICK u \in U : \A m \in U : u <= m BY <1>1, LeastNumber
<1>3. PICK n \in T : u = L - n BY <1>2
<1>4. \A m \in T : u <= L - m BY <1>2
<1>5. \A m \in T : m <= n BY <1>0, <1>3, <1>4
<1> QED BY <1>5

\* A finite set of positions can be listed in order.
Listing(f, K) == f \in [1 .. Cardinality(K) -> K] /\ \A m, n \in DOMAIN f : m < n => f[m] < f[n]

\* By the size of the set: the greatest of its positions goes last.
LEMMA ListingExists ==
  ASSUME NEW L \in Nat, NEW K \in SUBSET (1 .. L)
  PROVE  IsFiniteSet(K) /\ Cardinality(K) \in Nat /\ \E f : Listing(f, K)
<1>f. \A J \in SUBSET (1 .. L) : IsFiniteSet(J) /\ Cardinality(J) \in Nat
  <2>1. IsFiniteSet(1 .. L) BY FS_Interval
  <2> QED BY <2>1, FS_Subset, FS_CardinalityType
<1> DEFINE T == {n \in Nat : \E J \in SUBSET (1 .. L) :
                   Cardinality(J) = n /\ ~ \E f : Listing(f, J)}
<1>1. T = {}
  <2> SUFFICES ASSUME T # {} PROVE FALSE OBVIOUS
  <2>1. PICK n \in T : \A m \in T : n <= m BY LeastNumber
  <2>2. PICK J \in SUBSET (1 .. L) : Cardinality(J) = n /\ ~ \E f : Listing(f, J) BY <2>1
  <2>3. J # {}
    <3> SUFFICES ASSUME J = {} PROVE FALSE OBVIOUS
    <3>1. Cardinality(J) = 0 BY FS_EmptySet
    <3>2. Listing([i \in 1 .. 0 |-> 0], J) BY <3>1 DEF Listing
    <3> QED BY <2>2, <3>2
  <2>4. PICK top \in J : \A m \in J : m <= top
    <3>1. J \in SUBSET (1 .. L) BY <2>2
    <3> QED BY <2>3, <3>1, GreatestNumber
  <2> DEFINE R == J \ {top}
  <2>5. R \in SUBSET (1 .. L) /\ IsFiniteSet(J) /\ Cardinality(J) = n /\ Cardinality(R) = n - 1
        /\ n \in Nat /\ n - 1 \in Nat
    <3>1. IsFiniteSet(J) BY <1>f
    <3>2. Cardinality(R) = n - 1 BY <3>1, <2>2, FS_RemoveElement
    <3>3. R \in SUBSET (1 .. L) OBVIOUS
    <3>4. Cardinality(R) \in Nat BY <1>f, <3>3
    <3> QED BY <2>1, <2>2, <3>1, <3>2, <3>3, <3>4
  <2>6. n - 1 \notin T BY <2>1, <2>5
  <2>7. PICK f : Listing(f, R)
    <3> HIDE DEF R
    <3> QED BY <2>5, <2>6
  <2> DEFINE g == [i \in 1 .. n |-> IF i = n THEN top ELSE f[i]]
  <2>8. f \in [1 .. (n - 1) -> R] /\ \A p, q \in 1 .. (n - 1) : p < q => f[p] < f[q]
    BY <2>5, <2>7 DEF Listing
  <2>9. g \in [1 .. n -> J]
    <3>1. \A i \in 1 .. n : i = n \/ i \in 1 .. (n - 1) BY <2>5
    <3>2. \A i \in 1 .. n : g[i] \in J BY <2>8, <3>1
    <3> QED BY <3>2
  <2>10. \A p, q \in 1 .. n : p < q => g[p] < g[q]
    <3> SUFFICES ASSUME NEW p \in 1 .. n, NEW q \in 1 .. n, p < q PROVE g[p] < g[q] OBVIOUS
    <3>1. p \in 1 .. (n - 1) /\ p # n /\ f[p] \in R BY <2>5, <2>8
    <3>2. CASE q = n
      <4>1. f[p] <= top /\ f[p] # top /\ f[p] \in Nat /\ top \in Nat
        <5>1. f[p] \in J /\ f[p] # top BY <3>1
        <5>2. J \subseteq Nat BY <2>2
        <5>3. f[p] <= top BY <2>4, <5>1
        <5> QED BY <5>1, <5>2, <5>3
      <4> QED BY <3>1, <3>2, <4>1
    <3>3. CASE q # n
      <4>1. q \in 1 .. (n - 1) BY <3>3, <2>5
      <4> QED BY <2>8, <3>1, <3>3, <4>1
    <3> QED BY <3>2, <3>3
  <2>11. Listing(g, J) BY <2>2, <2>9, <2>10 DEF Listing
  <2> QED BY <2>2, <2>11
<1>2. Cardinality(K) \in Nat /\ IsFiniteSet(K) BY <1>f
<1> QED BY <1>1, <1>2

\* What is left of a sequence are the entries that are not gone; none is doubled.
LEMMA WithoutFacts ==
  ASSUME NEW S, NEW k \in Nat, NEW seq \in Sequences(S, k), NEW gone
  PROVE  /\ Without(seq, gone) \in Sequences(S, k)
         /\ ToSet(Without(seq, gone)) \subseteq ToSet(seq) \ gone
         /\ IsInjective(seq) => IsInjective(Without(seq, gone))
<1>0. PICK j \in 0 .. k : seq \in [1 .. j -> S] BY DEF Sequences
<1> DEFINE kept == {i \in DOMAIN seq : seq[i] \notin gone}
<1> DEFINE place == CHOOSE f \in [1 .. Cardinality(kept) -> kept] :
                      \A m, n \in DOMAIN f : m < n => f[m] < f[n]
<1>1. kept \in SUBSET (1 .. j) BY <1>0
<1>2. Without(seq, gone) = [n \in DOMAIN place |-> seq[place[n]]] BY DEF Without
<1>3. \A i \in kept : i \in 1 .. j /\ seq[i] \in ToSet(seq) \ gone BY <1>0 DEF ToSet
<1>k. kept \subseteq Nat BY <1>1
<1> HIDE DEF kept
<1>4. Cardinality(kept) \in Nat /\ \E f : Listing(f, kept) BY <1>1, ListingExists
<1>5. Listing(place, kept)
  <2>1. \E f \in [1 .. Cardinality(kept) -> kept] : \A m, n \in DOMAIN f : m < n => f[m] < f[n]
    BY <1>4 DEF Listing
  <2> QED BY <2>1 DEF Listing
<1> HIDE DEF place
<1> DEFINE l == Cardinality(kept)
<1>6. place \in [1 .. l -> kept] /\ \A m, n \in 1 .. l : m < n => place[m] < place[n]
  BY <1>5 DEF Listing
<1>7. l \in 0 .. k
  <2>1. IsFiniteSet(1 .. j) BY FS_Interval
  <2>2. Cardinality(1 .. j) = j BY FS_Interval
  <2>3. Cardinality(kept) <= Cardinality(1 .. j) BY <1>1, <2>1, FS_Subset
  <2> QED BY <1>4, <2>2, <2>3
<1> HIDE DEF l
<1>8. \A m, n \in 1 .. l : m # n => place[m] # place[n]
  <2> SUFFICES ASSUME NEW m \in 1 .. l, NEW n \in 1 .. l, m # n PROVE place[m] # place[n] OBVIOUS
  <2>1. place[m] \in Nat /\ place[n] \in Nat BY <1>6, <1>k
  <2>2. m < n \/ n < m BY <1>7
  <2> QED BY <1>6, <2>1, <2>2
<1>9. /\ Without(seq, gone) \in [1 .. l -> S]
      /\ \A n \in 1 .. l : Without(seq, gone)[n] \in ToSet(seq) \ gone
  BY <1>0, <1>2, <1>3, <1>6
<1>10. IsInjective(seq) => IsInjective(Without(seq, gone))
  BY <1>0, <1>2, <1>3, <1>6, <1>8 DEF IsInjective
<1>11. ToSet(Without(seq, gone)) \subseteq ToSet(seq) \ gone BY <1>9 DEF ToSet
<1>12. Without(seq, gone) \in Sequences(S, k) BY <1>7, <1>9 DEF Sequences
<1> QED BY <1>10, <1>11, <1>12

\* A finite set as a sequence: each of its members once
LEMMA SetToSeqFacts ==
  ASSUME NEW S, IsFiniteSet(S)
  PROVE  /\ Cardinality(S) \in Nat
         /\ SetToSeq(S) \in Sequences(S, Cardinality(S))
         /\ IsInjective(SetToSeq(S))
         /\ ToSet(SetToSeq(S)) = S
<1> DEFINE n == Cardinality(S)
<1>1. n \in Nat /\ ExistsBijection(1 .. n, S) BY FS_CardinalityType
<1>2. PICK g \in [1 .. n -> S] : \A a, b \in 1 .. n : g[a] = g[b] => a = b
  BY <1>1 DEF ExistsBijection, Bijection, Injection, IsInjective
<1>3. SetToSeq(S) \in [1 .. n -> S] /\ IsInjective(SetToSeq(S))
  <2>1. \E f \in [1 .. n -> S] : IsInjective(f) BY <1>2 DEF IsInjective
  <2> QED BY <2>1 DEF SetToSeq
<1>4. SetToSeq(S) \in Injection(1 .. n, S) BY <1>3 DEF Injection, IsInjective
<1>5. Cardinality(1 .. n) = n BY <1>1, FS_Interval
<1>6. SetToSeq(S) \in Surjection(1 .. n, S) BY <1>4, <1>5, FS_Injection
<1>7. ToSet(SetToSeq(S)) = S BY <1>3, <1>6 DEF Surjection, ToSet
<1>8. SetToSeq(S) \in Sequences(S, n) BY <1>1, <1>3 DEF Sequences
<1> QED BY <1>1, <1>3, <1>7, <1>8

\* What fits of a sequence
LEMMA TruncatedFacts ==
  ASSUME NEW S, NEW k \in Nat, NEW seq \in Sequences(S, k)
  PROVE  /\ Truncated(seq) \in Sequences(S, MaxRecent)
         /\ ToSet(Truncated(seq)) \subseteq ToSet(seq)
         /\ k <= MaxRecent => Truncated(seq) = seq
         /\ IsInjective(seq) => IsInjective(Truncated(seq))
<1>m. MaxRecent \in Nat BY SettingsAssumption
<1>p. PICK j \in 0 .. k : seq \in [1 .. j -> S] BY DEF Sequences
<1>0. seq \in Seq(S) /\ Len(seq) = j BY <1>p
<1> DEFINE l == IF j > MaxRecent THEN MaxRecent ELSE j
<1>1. l \in 0 .. MaxRecent /\ l <= j BY <1>m
<1>2. Truncated(seq) = SubSeq(seq, 1, l) BY <1>0 DEF Truncated
<1>4. k <= MaxRecent => l = j BY <1>m
<1> HIDE DEF l
<1>3. /\ SubSeq(seq, 1, l) \in Seq(S) /\ Len(SubSeq(seq, 1, l)) = l
      /\ \A n \in 1 .. l : SubSeq(seq, 1, l)[n] = seq[n]
  <2>1. \A n \in 1 .. l : n \in 1 .. j BY <1>1, <1>m
  <2>2. \A n \in 1 .. l : seq[n] \in S BY <1>p, <2>1
  <2>3. l \in Int /\ l - 1 + 1 = l /\ (1 <= l \/ l = 0) BY <1>1, <1>m
  <2> QED BY <2>2, <2>3, SubSeqProperties
<1>5. /\ Truncated(seq) \in [1 .. l -> S]
      /\ \A n \in 1 .. l : n \in 1 .. j /\ Truncated(seq)[n] = seq[n]
  <2>1. \A n \in 1 .. l : n \in 1 .. j BY <1>1, <1>m
  <2>2. \A q \in Seq(S) : q \in [1 .. Len(q) -> S] OBVIOUS
  <2>3. SubSeq(seq, 1, l) \in [1 .. l -> S] BY <1>3, <2>2
  <2> QED BY <1>2, <1>3, <2>1, <2>3
<1>6. IsInjective(seq) => IsInjective(Truncated(seq)) BY <1>p, <1>5 DEF IsInjective
<1>7. k <= MaxRecent => Truncated(seq) = seq BY <1>p, <1>4, <1>5
<1>8. Truncated(seq) \in Sequences(S, MaxRecent) BY <1>1, <1>5 DEF Sequences
<1>9. ToSet(Truncated(seq)) \subseteq ToSet(seq) BY <1>p, <1>5 DEF ToSet
<1> QED BY <1>6, <1>7, <1>8, <1>9

\* Two sequences in a row
LEMMA JoinedFacts ==
  ASSUME NEW S, NEW i \in Nat, NEW s \in Sequences(S, i), NEW j \in Nat, NEW t \in Sequences(S, j)
  PROVE  /\ s \o t \in Sequences(S, i + j)
         /\ ToSet(s \o t) \subseteq ToSet(s) \cup ToSet(t)
         /\ IsInjective(s) /\ IsInjective(t) /\ ToSet(s) \cap ToSet(t) = {} => IsInjective(s \o t)
<1>p. PICK a \in 0 .. i : s \in [1 .. a -> S] BY DEF Sequences
<1>q. PICK b \in 0 .. j : t \in [1 .. b -> S] BY DEF Sequences
<1>1. s \in Seq(S) /\ Len(s) = a /\ t \in Seq(S) /\ Len(t) = b BY <1>p, <1>q
<1>2. s \o t = [n \in 1 .. (a + b) |-> IF n <= a THEN s[n] ELSE t[n - a]]
  <2>1. /\ s \o t \in Seq(S) /\ Len(s \o t) = a + b
        /\ \A n \in 1 .. (a + b) : (s \o t)[n] = IF n <= a THEN s[n] ELSE t[n - a]
    BY <1>1, ConcatProperties
  <2>2. \A q \in Seq(S) : q \in [1 .. Len(q) -> S] OBVIOUS
  <2>3. s \o t \in [1 .. (a + b) -> S] BY <2>1, <2>2
  <2> QED BY <2>1, <2>3
<1>3. \A n \in 1 .. (a + b) : IF n <= a THEN n \in 1 .. a ELSE n - a \in 1 .. b OBVIOUS
<1>4. s \o t \in [1 .. (a + b) -> S] BY <1>p, <1>q, <1>2, <1>3
<1>5. ToSet(s \o t) \subseteq ToSet(s) \cup ToSet(t) BY <1>p, <1>q, <1>2, <1>3 DEF ToSet
<1>6. ASSUME IsInjective(s), IsInjective(t), ToSet(s) \cap ToSet(t) = {}
      PROVE  IsInjective(s \o t)
  <2> SUFFICES ASSUME NEW m \in 1 .. (a + b), NEW n \in 1 .. (a + b),
                      (s \o t)[m] = (s \o t)[n], m < n
               PROVE  FALSE
    <3>1. \A m, n \in 1 .. (a + b) : m = n \/ m < n \/ n < m OBVIOUS
    <3> QED BY <1>4, <3>1 DEF IsInjective
  <2>1. CASE n <= a BY <1>p, <1>2, <1>3, <1>6, <2>1 DEF IsInjective
  <2>2. CASE m > a
    <3>1. m - a \in 1 .. b /\ n - a \in 1 .. b /\ m - a # n - a BY <2>2
    <3>2. t[m - a] = t[n - a] BY <1>2, <2>2
    <3> QED BY <1>q, <1>6, <3>1, <3>2 DEF IsInjective
  <2>3. CASE m <= a /\ n > a
    <3>1. s[m] \in ToSet(s) /\ t[n - a] \in ToSet(t) BY <1>p, <1>q, <2>3, <1>3 DEF ToSet
    <3>2. s[m] = t[n - a] BY <1>2, <2>3
    <3> QED BY <1>6, <3>1, <3>2
  <2> QED BY <2>1, <2>2, <2>3
<1>7. s \o t \in Sequences(S, i + j) BY <1>4 DEF Sequences
<1> QED BY <1>5, <1>6, <1>7

\* A sequence of some of them
LEMMA WiderSequences ==
  ASSUME NEW S, NEW T \in SUBSET S, NEW k \in Nat, NEW seq \in Sequences(T, k)
  PROVE  seq \in Sequences(S, k) /\ ToSet(seq) \subseteq T
  BY DEF Sequences, ToSet

-----------------------------------------------------------------------------
USE SettingsAssumption, SourcesAssumption

\* pc and job are functions on the commands.
Shape ==
  pc = [c \in Commands |-> pc[c]] /\ job = [c \in Commands |-> job[c]]

\* Every step keeps them so.
LEMMA ShapeKept == Shape /\ [Next]_vars => Shape'
<1> SUFFICES ASSUME Shape, [Next]_vars PROVE Shape' OBVIOUS
<1> USE DEF Shape, Goto, Remember, Ends
<1>1. ASSUME NEW c \in Commands, Step(c) PROVE Shape'
  <2>1. CASE Begin(c)
    <3>1. \E p, j : pc' = [pc EXCEPT ![c] = p] /\ job' = [job EXCEPT ![c] = j]
      BY <2>1 DEF Begin
    <3> QED BY <3>1
  <2>2. CASE Save(c) BY <2>2 DEF Save
  <2>3. CASE ChooseSources(c) \/ Merge(c) \/ Refuse(c)
    BY <2>3 DEF ChooseSources, Merge, Refuse
  <2>4. CASE StartSession(c) \/ Resolve(c) \/ Work(c) BY <2>4 DEF StartSession, Resolve, Work
  <2>5. CASE Inspect(c) \/ Record(c) \/ Clear(c) BY <2>5 DEF Inspect, Record, Clear
  <2>6. CASE CheckPlan(c) \/ PrepareBackup(c) \/ Convert(c) \/ Import(c) \/ Adopt(c)
    BY <2>6 DEF CheckPlan, PrepareBackup, Convert, Import, Adopt
  <2>7. CASE ConversionFails(c) \/ Verify(c) \/ Unlink(c) \/ Restore(c) \/ Crash(c)
    BY <2>7 DEF ConversionFails, Verify, Unlink, Restore, Crash
  <2> QED BY <1>1, <2>1, <2>2, <2>3, <2>4, <2>5, <2>6, <2>7 DEF Step
<1>2. CASE Reconcile \/ StopSession BY <1>2 DEF Reconcile, StopSession
<1>3. CASE UNCHANGED vars BY <1>3 DEF vars
<1> QED BY <1>1, <1>2, <1>3 DEF Next

-----------------------------------------------------------------------------
(* The legacy configuration                                                *)

\* Until a migration has kept the backup, only commands are under way that do
\* not write config.json: inspections, a migration that has not begun to
\* convert, and a Start that the session lock will refuse.
Waiting(c) ==
  \/ pc[c] \in {"idle", "lock", "observe", "record", "check", "backup"}
  \/ pc[c] = "merge" /\ job[c].op = "start" /\ job[c].want = {}

Guarded ==
  \/ migrated \/ backup
  \/ config = LegacyFile /\ \A c \in Commands : Waiting(c)

\* The legacy file says so.
LEMMA LegacyIsLegacy == LegacyFile.legacy
  BY DEF LegacyFile, Defaults

\* The backup goes with a verified migration only.
LEMMA BackupStays ==
  ASSUME migrated \/ backup, [Next]_vars
  PROVE  (migrated \/ backup)'
<1> USE DEF told, files
<1>1. ASSUME NEW c \in Commands, Step(c) PROVE (migrated \/ backup)'
  <2>1. CASE Begin(c) BY <2>1 DEF Begin
  <2>2. CASE Save(c) BY <2>2 DEF Save
  <2>3. CASE ChooseSources(c) \/ Merge(c) \/ Refuse(c)
    BY <2>3 DEF ChooseSources, Merge, Refuse
  <2>4. CASE StartSession(c) \/ Resolve(c) \/ Work(c) BY <2>4 DEF StartSession, Resolve, Work
  <2>5. CASE Inspect(c) \/ Record(c) \/ Clear(c) BY <2>5 DEF Inspect, Record, Clear
  <2>6. CASE CheckPlan(c) \/ PrepareBackup(c) \/ Convert(c) \/ Import(c) \/ Adopt(c)
    BY <2>6 DEF CheckPlan, PrepareBackup, Convert, Import, Adopt
  <2>7. CASE ConversionFails(c) \/ Verify(c) \/ Unlink(c) \/ Restore(c) \/ Crash(c)
    BY <2>7 DEF ConversionFails, Verify, Unlink, Restore, Crash
  <2> QED BY <1>1, <2>1, <2>2, <2>3, <2>4, <2>5, <2>6, <2>7 DEF Step
<1>2. CASE Reconcile \/ StopSession BY <1>2 DEF Reconcile, StopSession
<1>3. CASE UNCHANGED vars BY <1>3 DEF vars
<1> QED BY <1>1, <1>2, <1>3 DEF Next

\* What the gate lets through, and where it begins
LEMMA Ungated ==
  ASSUME NEW op \in Ops, NEW want, ~Gated(op, want), op \notin {"rename", "select", "quickStart"}
  PROVE  \/ op = "inspect" /\ FirstStep(op, want) = "observe"
         \/ op = "migrate" /\ FirstStep(op, want) = "check"
         \/ op = "start" /\ want = {} /\ FirstStep(op, want) = "merge"
<1>1. op \in {"inspect", "migrate"} \/ (op = "start" /\ want = {}) BY DEF Gated, Ops
<1> QED BY <1>1 DEF FirstStep

\* What a request begins with: its operation, its choices and the first step they lead to
LEMMA BeginBegins ==
  ASSUME Shape, NEW c \in Commands, Begin(c)
  PROVE  \E op \in Ops, want \in Wants :
           /\ config.legacy => ~Gated(op, want)
           /\ config.legacy /\ op \in {"rename", "select", "quickStart"} => "unguarded" \in Happens
           /\ pc' = [pc EXCEPT ![c] = FirstStep(op, want)]
           /\ job'[c].op = op /\ job'[c].want = want /\ job'[c].cfg = Defaults
           /\ \A d \in Commands \ {c} : job'[d] = job[d]
<1>1. PICK op \in Ops, want \in Wants, choice \in Migrations :
        /\ config.legacy => ~Gated(op, want)
        /\ config.legacy /\ op \in {"rename", "select", "quickStart"} => "unguarded" \in Happens
        /\ pc' = [pc EXCEPT ![c] = FirstStep(op, want)]
        /\ Remember(c, [NoJob EXCEPT !.op = op, !.want = want, !.choice = choice,
             !.meant = Followed(CASE op \in {"loadProfile", "quickStart"} -> profiled
                                  [] op = "start" /\ want = {} -> chosen
                                  [] OTHER -> want)])
  BY DEF Begin
<1>2. PICK m : job' = [job EXCEPT ![c] =
        [NoJob EXCEPT !.op = op, !.want = want, !.choice = choice, !.meant = m]]
  BY <1>1 DEF Remember
<1>3. job'[c].op = op /\ job'[c].want = want /\ job'[c].cfg = Defaults
  BY <1>2 DEF NoJob, Shape
<1>4. \A d \in Commands \ {c} : job'[d] = job[d] BY <1>2 DEF Shape
<1> QED BY <1>1, <1>3, <1>4

\* Before there is a backup, no command gets past the gate to a write.
LEMMA LegacyStays ==
  ASSUME Shape, "unguarded" \notin Happens, ~migrated, ~backup, config = LegacyFile,
         \A c \in Commands : Waiting(c), [Next]_vars
  PROVE  Guarded'
<1>0. config.legacy BY LegacyIsLegacy
<1> USE DEF Shape, Waiting, Guarded, told, files, Goto, Remember, Ends
<1>1. ASSUME NEW c \in Commands, Step(c) PROVE Guarded'
  <2>1. CASE Begin(c)
    <3>1. PICK op \in Ops, want \in Wants :
            /\ ~Gated(op, want) /\ op \notin {"rename", "select", "quickStart"}
            /\ pc' = [pc EXCEPT ![c] = FirstStep(op, want)]
            /\ job'[c].op = op /\ job'[c].want = want
            /\ \A d \in Commands \ {c} : job'[d] = job[d]
      BY <1>0, <2>1, BeginBegins
    <3>2. \/ FirstStep(op, want) \in {"observe", "check"}
          \/ FirstStep(op, want) = "merge" /\ op = "start" /\ want = {}
      BY <3>1, Ungated
    <3>3. config' = config BY <2>1 DEF Begin
    <3> QED BY <3>1, <3>2, <3>3
  <2>2. CASE Save(c) BY <2>2 DEF Save
  <2>3. CASE ChooseSources(c) \/ Refuse(c) BY <2>3 DEF ChooseSources, Refuse
  <2>4. CASE Merge(c)
    <3>1. pc' = [pc EXCEPT ![c] = "lock"] /\ UNCHANGED <<files, migrated>>
          /\ \A d \in Commands \ {c} : job'[d] = job[d]
      BY <2>4 DEF Merge
    <3> QED BY <3>1
  <2>5. CASE StartSession(c) BY <1>0, <2>5 DEF StartSession
  <2>6. CASE Resolve(c) \/ Work(c) BY <2>6 DEF Resolve, Work
  <2>7. CASE Inspect(c) BY <2>7 DEF Inspect
  <2>8. CASE Record(c) \/ Clear(c) BY <2>8 DEF Record, Clear
  <2>9. CASE CheckPlan(c) BY <2>9 DEF CheckPlan
  <2>10. CASE PrepareBackup(c) BY <2>10 DEF PrepareBackup
  <2>11. CASE Convert(c) \/ Import(c) \/ Adopt(c) BY <2>11 DEF Convert, Import, Adopt
  <2>12. CASE ConversionFails(c) \/ Verify(c) \/ Unlink(c) \/ Restore(c) \/ Crash(c)
    BY <2>12 DEF ConversionFails, Verify, Unlink, Restore, Crash
  <2> QED BY <1>1, <2>1, <2>2, <2>3, <2>4, <2>5, <2>6, <2>7, <2>8, <2>9, <2>10, <2>11, <2>12
          DEF Step
<1>2. CASE Reconcile \/ StopSession BY <1>2 DEF Reconcile, StopSession
<1>3. CASE UNCHANGED vars BY <1>3 DEF vars
<1> QED BY <1>1, <1>2, <1>3 DEF Next

\* A legacy configuration is in place or in the backup until a migration has
\* been verified, however commands overlap, fail or are killed (migration.py),
\* if requests that no gate refuses do not write it.
THEOREM LegacyIsRecoverable ==
  ASSUME "unguarded" \notin Happens
  PROVE  Spec => []LegacyRecoverable
<1>1. Init => Shape /\ Guarded
  <2> SUFFICES ASSUME Init PROVE Shape /\ Guarded OBVIOUS
  <2>1. Shape BY DEF Init, Shape
  <2>2. ~config.legacy => migrated BY DEF Init
  <2>3. config.legacy => config = LegacyFile BY DEF Init, Defaults
  <2>4. \A c \in Commands : Waiting(c) BY DEF Init, Waiting
  <2> QED BY <2>1, <2>2, <2>3, <2>4 DEF Guarded
<1>2. Shape /\ Guarded /\ [Next]_vars => Shape' /\ Guarded'
  BY ShapeKept, BackupStays, LegacyStays DEF Guarded
<1>3. Guarded => LegacyRecoverable BY DEF Guarded, LegacyRecoverable
<1> QED BY <1>1, <1>2, <1>3, PTL DEF Spec

-----------------------------------------------------------------------------
(* Microphones. What has no microphone in it: the configuration as it is   *)
(* read from the file. What has only those the request named: the          *)
(* configuration that each command holds. Discovery, whatever it finds,    *)
(* adds none.                                                              *)

\* A command's memory is a record with the fields of NoJob.
IsJob(j) == DOMAIN j = DOMAIN NoJob /\ j = [x \in DOMAIN j |-> j[x]]

\* An idle command holds no Source.
LEMMA NoJobIsJob == IsJob(NoJob) /\ NoJob.cfg = Defaults /\ NoJob.want = {} BY DEF IsJob, NoJob

\* A microphone is found under its own id only.
LEMMA MicIds ==
  ASSUME NEW audio \in Audios
  PROVE  /\ \A i \in Ids : audio.at[i] \in Mics => i = audio.at[i]
         /\ \A i \in Mics : i \in Ids /\ audio.at[i] \in {i, NoSource}
         /\ audio.desktop \in Monitors \cup {NoSource}
  BY DEF Audios, Ids, Devices, AllChoices

\* The resolvers bring in no microphone that is not asked for by name or id.
LEMMA MatchingMics ==
  ASSUME NEW audio \in Audios, NEW S \in SUBSET AllChoices
  PROVE  Matching(audio, S) \subseteq Ids /\ Matching(audio, S) \cap Mics \subseteq S
  BY MicIds DEF Matching, Ids, Devices, AllChoices

\* "Desktop (All)" displaces other Sources and adds none.
LEMMA ExclusiveMics ==
  ASSUME NEW audio \in Audios, NEW ids
  PROVE  Exclusive(audio, ids) \subseteq ids
  BY DEF Exclusive

\* Choosing finds the microphones that are wanted by name, and no other.
LEMMA ChooseMics ==
  ASSUME NEW audio \in Audios, NEW want \in SUBSET AllChoices
  PROVE  /\ Choose(audio, want).matchers \in SUBSET AllChoices
         /\ Choose(audio, want).ids \in SUBSET Ids
         /\ Choose(audio, want).ids \cap Mics \subseteq want
<1> DEFINE ids == Exclusive(audio, Matching(audio, want))
<1>1. ids \subseteq Ids /\ ids \cap Mics \subseteq want BY MatchingMics, ExclusiveMics
<1>2. audio.desktop \in ids => audio.desktop \in AllChoices
  BY <1>1, MicIds DEF Ids, AllChoices, Devices
<1> HIDE DEF ids
<1>3. Choose(audio, want) =
       [ids |-> ids, matchers |-> IF audio.desktop \in ids THEN {audio.desktop} ELSE want]
  BY DEF Choose, ids
<1> QED BY <1>1, <1>2, <1>3

\* A remembered choice finds no microphone.
LEMMA RememberedMics ==
  ASSUME NEW audio \in Audios, NEW matchers \in SUBSET AllChoices
  PROVE  Remembered(audio, matchers) \in SUBSET Ids /\ Remembered(audio, matchers) \cap Mics = {}
<1>1. matchers \ Mics \in SUBSET AllChoices OBVIOUS
<1> QED BY <1>1, MatchingMics, ExclusiveMics DEF Remembered

\* A Start hears the microphones whose ids it was given, and no other.
LEMMA StartMics ==
  ASSUME NEW audio \in Audios, NEW matchers \in SUBSET AllChoices, NEW ids \in SUBSET Ids
  PROVE  /\ StartWith(audio, matchers, ids).matchers \in SUBSET AllChoices
         /\ StartWith(audio, matchers, ids).ids \in SUBSET Ids
         /\ StartWith(audio, matchers, ids).ids \cap Mics \subseteq ids
<1> DEFINE all == Exclusive(audio, ids \cup Matching(audio, matchers \ Mics))
<1>0. matchers \ Mics \in SUBSET AllChoices OBVIOUS
<1>1. all \subseteq Ids /\ all \cap Mics \subseteq ids
  <2>1. /\ Matching(audio, matchers \ Mics) \subseteq Ids
        /\ Matching(audio, matchers \ Mics) \cap Mics = {}
    BY <1>0, MatchingMics
  <2> QED BY <2>1, ExclusiveMics
<1>2. audio.desktop \in all => audio.desktop \in AllChoices
  BY <1>1, MicIds DEF Ids, AllChoices, Devices
<1> HIDE DEF all
<1>3. StartWith(audio, matchers, ids) =
       [ids |-> all, matchers |-> IF audio.desktop \in all THEN {audio.desktop} ELSE matchers]
  BY DEF StartWith, all
<1> QED BY <1>1, <1>2, <1>3

\* The microphones that the legacy configuration had not selected
Watched == Mics \ LegacyIds

\* The configurations that are read and written hold the id of none of them.
LEMMA DefaultsTyped == Defaults \in Configs /\ Defaults.ids = {}
  BY DEF Defaults, Configs, NoProfile, Profiles, Conns

\* So does the legacy file, for the microphones it had not selected.
LEMMA FileTyped == LegacyFile \in Configs /\ LegacyFile.ids \cap Watched = {}
  BY DefaultsTyped DEF LegacyFile, Configs, Conns, Watched

\* What is saved holds no id; what is loaded is otherwise what the file says.
LEMMA PersistedTyped ==
  ASSUME NEW k \in Configs
  PROVE  /\ Loaded(k) \in Configs /\ Loaded(k).ids = k.ids /\ Loaded(k).selected = k.selected
         /\ Persisted(k) \in Configs /\ Persisted(k).ids = {} BY DEF Loaded, Persisted, Configs

\* The memory is typed, and its ids are microphones only if the request named them.
Explicit(j) ==
  /\ IsJob(j) /\ j.cfg \in Configs /\ j.want \in SUBSET AllChoices
  /\ j.cfg.ids \cap Watched \subseteq j.want

\* What a step writes into its memory keeps that memory explicit.
LEMMA CfgKept ==
  ASSUME NEW j, Explicit(j), NEW k \in Configs, k.ids \cap Watched \subseteq j.want
  PROVE  Explicit([j EXCEPT !.cfg = k])
  BY DEF Explicit, IsJob, NoJob

\* So for the configuration and the verdict on a Quick Start
LEMMA ReadyKept ==
  ASSUME NEW j, Explicit(j), NEW k \in Configs, k.ids \cap Watched \subseteq j.want, NEW b
  PROVE  Explicit([j EXCEPT !.cfg = k, !.ready = b])
  BY DEF Explicit, IsJob, NoJob

\* ... for what an inspection saw
LEMMA SeenKept ==
  ASSUME NEW j, Explicit(j), NEW l, NEW h
  PROVE  Explicit([j EXCEPT !.live = l, !.hist = h])
  BY DEF Explicit, IsJob, NoJob

\* ... and for what a migration knows of its key.
LEMMA ReportKept ==
  ASSUME NEW j, Explicit(j), NEW l, NEW h
  PROVE  /\ Explicit([j EXCEPT !.keyLeft = l, !.committed = h])
         /\ Explicit([j EXCEPT !.keyLeft = l]) /\ Explicit([j EXCEPT !.committed = h])
  BY DEF Explicit, IsJob, NoJob

\* The requests that discover Sources first, and only those, choose.
Choosers == {"configure", "start", "pin", "unpin", "saveProfile", "loadProfile", "quickStart"}

Choosing(c) ==
  pc[c] = "choose" => job[c].op \in Choosers

FileIsFree == config \in Configs /\ config.ids \cap Watched = {}
JobsExplicit == \A c \in Commands : Explicit(job[c]) /\ Choosing(c)
SessionHasFields == {"sources", "matchers", "named", "meant"} \subseteq DOMAIN session

HeardIsNamed == session.sources \cap Watched \subseteq session.named

EInv == Shape /\ FileIsFree /\ JobsExplicit /\ SessionHasFields /\ HeardIsNamed

\* Neither what a request discovers nor what it lays over the file names a
\* microphone the request did not.
LEMMA ChosenExplicit ==
  ASSUME NEW j, Explicit(j), FileIsFree, NEW audio \in Audios,
         j.op \in Choosers
  PROVE  Chosen(j, audio) \in Configs /\ Chosen(j, audio).ids \cap Watched \subseteq j.want
<1> DEFINE picked == Choose(audio, j.want)
<1>1. /\ picked.matchers \in SUBSET AllChoices
      /\ picked.ids \in SUBSET Ids /\ picked.ids \cap Watched \subseteq j.want
  BY ChooseMics DEF Explicit, Watched
<1>2. config.profile \in Profiles /\ config.profile.matchers \in SUBSET AllChoices
      /\ config.pinned \in SUBSET AllChoices
  BY DEF FileIsFree, Configs, Profiles
<1> DEFINE rem == Remembered(audio, config.profile.matchers)
<1>3. rem \in SUBSET Ids /\ rem \cap Watched = {}
  BY <1>2, RememberedMics DEF Watched
<1>4. Loaded(config) \in Configs /\ Loaded(config).ids = config.ids
      /\ Loaded(config).pinned \in SUBSET AllChoices
  BY PersistedTyped DEF FileIsFree, Configs, Loaded
<1>5. Defaults \in Configs /\ Defaults.ids = {} BY DefaultsTyped
<1> HIDE DEF picked, rem
<1>6. CASE j.op \in {"configure", "start"}
  <2>1. Chosen(j, audio) = [Defaults EXCEPT !.selected = picked.matchers, !.ids = picked.ids]
    BY <1>6 DEF Chosen, picked, Choosers
  <2> QED BY <2>1, <1>1, <1>5 DEF Configs
<1>7. CASE j.op = "pin"
  <2>1. Chosen(j, audio)
          = [Loaded(config) EXCEPT !.pinned = Loaded(config).pinned \cup picked.matchers]
    BY <1>7 DEF Chosen, picked, Choosers
  <2>2. Loaded(config).pinned \cup picked.matchers \in SUBSET AllChoices BY <1>1, <1>4
  <2>3. Chosen(j, audio) \in Configs /\ Chosen(j, audio).ids = Loaded(config).ids
    BY <2>1, <2>2, <1>4 DEF Configs
  <2> QED BY <2>3, <1>4 DEF FileIsFree
<1>8. CASE j.op = "unpin"
  <2>1. Chosen(j, audio)
          = [Loaded(config) EXCEPT !.pinned = Loaded(config).pinned \ picked.matchers]
    BY <1>8 DEF Chosen, picked, Choosers
  <2>2. Loaded(config).pinned \ picked.matchers \in SUBSET AllChoices BY <1>1, <1>4
  <2>3. Chosen(j, audio) \in Configs /\ Chosen(j, audio).ids = Loaded(config).ids
    BY <2>1, <2>2, <1>4 DEF Configs
  <2> QED BY <2>3, <1>4 DEF FileIsFree
<1>9. CASE j.op = "saveProfile"
  <2> DEFINE q == picked.matchers \cap Mics = {} /\ ~NeedsReview(audio, picked.matchers)
  <2> DEFINE p == [matchers |-> picked.matchers, saved |-> TRUE, quick |-> q]
  <2>1. Chosen(j, audio) = [Defaults EXCEPT !.profile = p]
    BY <1>9 DEF Chosen, picked, Choosers
  <2>2. p \in Profiles
    <3>1. q \in BOOLEAN OBVIOUS
    <3> HIDE DEF q
    <3> QED BY <3>1, <1>1 DEF Profiles
  <2> HIDE DEF p
  <2> QED BY <2>1, <2>2, <1>5 DEF Configs
<1>10. CASE j.op \in {"loadProfile", "quickStart"}
  <2>1. Chosen(j, audio) = [Defaults EXCEPT !.selected = config.profile.matchers, !.ids = rem]
    BY <1>10 DEF Chosen, rem
  <2> QED BY <2>1, <1>2, <1>3, <1>5 DEF Configs
<1> QED BY <1>6, <1>7, <1>8, <1>9, <1>10 DEF Choosers

\* What a request lays over the file holds no microphone that it did not name.
LEMMA MergedExplicit ==
  ASSUME NEW j, Explicit(j), NEW base \in Configs, base.ids \cap Watched = {}, NEW conn \in Conns
  PROVE  /\ Merged(j, base, conn) \in Configs
         /\ Merged(j, base, conn).ids \cap Watched \subseteq j.want
<1>1. /\ j.cfg \in Configs /\ j.cfg.ids \cap Watched \subseteq j.want
      /\ j.cfg.selected \in SUBSET AllChoices /\ j.cfg.ids \in SUBSET Ids
      /\ j.cfg.profile \in Profiles
  BY DEF Explicit, Configs
<1>2. NoProfile \in Profiles /\ "receiver-only" \in Conns BY DEF NoProfile, Profiles, Conns
<1>3. \/ Merged(j, base, conn) = [base EXCEPT !.selected = j.cfg.selected, !.ids = j.cfg.ids]
      \/ Merged(j, base, conn) = [base EXCEPT !.selected = {}, !.ids = {}]
      \/ Merged(j, base, conn) = [base EXCEPT !.profile = j.cfg.profile]
      \/ Merged(j, base, conn) = [base EXCEPT !.profile = NoProfile]
      \/ Merged(j, base, conn)
           = [base EXCEPT !.selected = j.cfg.selected, !.ids = j.cfg.ids, !.conn = conn]
      \/ Merged(j, base, conn) = [base EXCEPT !.conn = conn]
      \/ Merged(j, base, conn) = [base EXCEPT !.conn = "receiver-only"]
      \/ Merged(j, base, conn) = base
  BY DEF Merged
<1> DEFINE m == Merged(j, base, conn)
<1> HIDE DEF m
<1>4. m \in Configs /\ (m.ids = base.ids \/ m.ids = {} \/ m.ids = j.cfg.ids)
  <2>1. CASE m = [base EXCEPT !.selected = j.cfg.selected, !.ids = j.cfg.ids]
    BY <2>1, <1>1 DEF Configs
  <2>2. CASE m = [base EXCEPT !.selected = {}, !.ids = {}] BY <2>2 DEF Configs
  <2>3. CASE m = [base EXCEPT !.profile = j.cfg.profile] BY <2>3, <1>1 DEF Configs
  <2>4. CASE m = [base EXCEPT !.profile = NoProfile] BY <2>4, <1>2 DEF Configs
  <2>5. CASE m = [base EXCEPT !.selected = j.cfg.selected, !.ids = j.cfg.ids, !.conn = conn]
    BY <2>5, <1>1 DEF Configs
  <2>6. CASE m = [base EXCEPT !.conn = conn] BY <2>6 DEF Configs
  <2>7. CASE m = [base EXCEPT !.conn = "receiver-only"] BY <2>7, <1>2 DEF Configs
  <2>8. CASE m = base BY <2>8
  <2> QED BY <1>3, <2>1, <2>2, <2>3, <2>4, <2>5, <2>6, <2>7, <2>8 DEF m
<1> QED BY <1>1, <1>4 DEF m

\* A step of a command whose job is j afterwards
LEMMA JobStep ==
  ASSUME EInv, NEW c \in Commands, NEW j, job' = [job EXCEPT ![c] = j],
         \A d \in Commands \ {c} : pc'[d] = pc[d],
         Explicit(j), pc'[c] # "choose"
  PROVE  JobsExplicit'
<1>1. \A d \in Commands \ {c} : job'[d] = job[d] BY DEF EInv, Shape
<1>2. job'[c] = j BY DEF EInv, Shape
<1> QED BY <1>1, <1>2 DEF EInv, JobsExplicit, Explicit, IsJob, Choosing

\* No step brings in a microphone that is not named.
LEMMA ExplicitStep ==
  ASSUME EInv, [Next]_vars
  PROVE  EInv'
<1>0. Shape' BY ShapeKept DEF EInv
<1> USE DEF files, told
<1>f. /\ LegacyFile \in Configs /\ LegacyFile.ids \cap Watched = {}
      /\ Defaults \in Configs /\ Defaults.ids = {}
  BY FileTyped, DefaultsTyped
<1>l. Loaded(config) \in Configs /\ Loaded(config).ids \cap Watched = {}
  BY PersistedTyped DEF EInv, FileIsFree
<1>s. session' = session => (SessionHasFields /\ HeardIsNamed)'
  BY DEF EInv, SessionHasFields, HeardIsNamed
<1>c. config' = config => FileIsFree' BY DEF EInv, FileIsFree
<1>n. Explicit(NoJob) BY <1>f, NoJobIsJob DEF Explicit
<1>1. ASSUME NEW c \in Commands, Step(c)
      PROVE  FileIsFree' /\ JobsExplicit' /\ (SessionHasFields /\ HeardIsNamed)'
  <2>j. Explicit(job[c]) /\ Choosing(c) BY DEF EInv, JobsExplicit
  <2>e. Ends(c) => JobsExplicit'
    <3>1. Ends(c) => job' = [job EXCEPT ![c] = NoJob] /\ \A d \in Commands \ {c} : pc'[d] = pc[d]
      BY DEF Ends, EInv, Shape
    <3>2. Ends(c) => pc'[c] = "idle" BY DEF Ends, EInv, Shape
    <3> QED BY <3>1, <3>2, <1>n, JobStep
  <2>g. ASSUME NEW p, NEW q, Goto(c, p, q), job' = job, q # "choose"
        PROVE  JobsExplicit'
    <3>1. \A d \in Commands \ {c} : pc'[d] = pc[d] BY <2>g DEF Goto, EInv, Shape
    <3>2. pc'[c] # "choose" BY <2>g DEF Goto, EInv, Shape
    <3>3. \A d \in Commands : job'[d] = job[d] BY <2>g
    <3> QED BY <3>1, <3>2, <3>3 DEF EInv, JobsExplicit, Explicit, IsJob, Choosing
  <2>r. ASSUME NEW p, NEW q, Goto(c, p, q), NEW j, Remember(c, j), Explicit(j), q # "choose"
        PROVE  JobsExplicit'
    <3>1. \A d \in Commands \ {c} : pc'[d] = pc[d] BY <2>r DEF Goto, EInv, Shape
    <3>2. pc'[c] # "choose" BY <2>r DEF Goto, EInv, Shape
    <3>3. job' = [job EXCEPT ![c] = j] BY <2>r DEF Remember
    <3> QED BY <3>1, <3>2, <3>3, <2>r, JobStep
  <2>1. CASE Begin(c)
    <3>1. UNCHANGED <<files, session>> BY <2>1 DEF Begin
    <3>2. PICK op, want, choice, m :
            /\ op \in Ops /\ want \in Wants
            /\ pc' = [pc EXCEPT ![c] = FirstStep(op, want)]
            /\ job' = [job EXCEPT ![c] =
                 [NoJob EXCEPT !.op = op, !.want = want, !.choice = choice, !.meant = m]]
      <4>1. PICK op \in Ops, want \in Wants, choice \in Migrations :
              /\ pc' = [pc EXCEPT ![c] = FirstStep(op, want)]
              /\ Remember(c, [NoJob EXCEPT !.op = op, !.want = want, !.choice = choice,
                   !.meant = Followed(CASE op \in {"loadProfile", "quickStart"} -> profiled
                                        [] op = "start" /\ want = {} -> chosen
                                        [] OTHER -> want)])
        BY <2>1 DEF Begin
      <4> QED BY <4>1 DEF Remember
    <3> DEFINE j == [NoJob EXCEPT !.op = op, !.want = want, !.choice = choice, !.meant = m]
    <3>3. IsJob(j) /\ j.op = op /\ j.want = want /\ j.cfg = Defaults BY DEF IsJob, NoJob
    <3>4. Explicit(j) BY <3>2, <3>3, <1>f DEF Explicit
    <3>5. FirstStep(op, want) = "choose" => op \in Choosers
      BY <3>2 DEF FirstStep, Ops, Choosers
    <3> HIDE DEF j
    <3>6. job'[c] = j /\ pc'[c] = FirstStep(op, want) BY <3>2 DEF j, EInv, Shape
    <3>7. \A d \in Commands \ {c} : job'[d] = job[d] /\ pc'[d] = pc[d]
      BY <3>2 DEF EInv, Shape
    <3>8. JobsExplicit'
      BY <3>3, <3>4, <3>5, <3>6, <3>7 DEF EInv, JobsExplicit, Explicit, IsJob, Choosing
    <3> QED BY <3>1, <3>8, <1>s, <1>c
  <2>2. CASE ChooseSources(c)
    <3>0. UNCHANGED <<files, session>> BY <2>2 DEF ChooseSources
    <3>1. PICK audio \in Audios :
            /\ Goto(c, "choose", IF job[c].op \in {"pin", "unpin"} THEN "save" ELSE "merge")
            /\ Remember(c, [job[c] EXCEPT !.cfg = Chosen(job[c], audio),
                 !.ready = job[c].op = "quickStart" /\ Quick(audio, config.profile)])
      BY <2>2 DEF ChooseSources
    <3>2. /\ Chosen(job[c], audio) \in Configs
          /\ Chosen(job[c], audio).ids \cap Watched \subseteq job[c].want
      BY <2>j, <3>1, ChosenExplicit DEF Choosing, Goto, EInv
    <3> DEFINE b == job[c].op = "quickStart" /\ Quick(audio, config.profile)
    <3> DEFINE j == [job[c] EXCEPT !.cfg = Chosen(job[c], audio), !.ready = b]
    <3> HIDE DEF b
    <3>4. Explicit(j) BY <2>j, <3>2, ReadyKept
    <3> HIDE DEF j
    <3>5. Remember(c, j) BY <3>1 DEF j, b
    <3>6. JobsExplicit'
      <4>1. CASE job[c].op \in {"pin", "unpin"}
        <5>1. Goto(c, "choose", "save") BY <4>1, <3>1
        <5> QED BY <5>1, <3>4, <3>5, <2>r
      <4>2. CASE job[c].op \notin {"pin", "unpin"}
        <5>1. Goto(c, "choose", "merge") BY <4>2, <3>1
        <5> QED BY <5>1, <3>4, <3>5, <2>r
      <4> QED BY <4>1, <4>2
    <3> QED BY <3>0, <3>6, <1>s, <1>c
  <2>3. CASE Merge(c)
    <3>0. UNCHANGED <<files, session>> BY <2>3 DEF Merge
    <3>1. PICK conn \in Conns \ {"none"}, q \in {"lock", "save"} :
            /\ Goto(c, "merge", q)
            /\ Remember(c, [job[c] EXCEPT !.cfg = Merged(job[c], Loaded(config), conn),
                                          !.ready = FALSE])
      BY <2>3 DEF Merge
    <3> DEFINE k == Merged(job[c], Loaded(config), conn)
    <3>2. k \in Configs /\ k.ids \cap Watched \subseteq job[c].want
      BY <2>j, <1>l, MergedExplicit
    <3> HIDE DEF k
    <3> DEFINE j == [job[c] EXCEPT !.cfg = k, !.ready = FALSE]
    <3>4. Explicit(j) BY <2>j, <3>2, ReadyKept
    <3> HIDE DEF j
    <3>5. Remember(c, j) BY <3>1 DEF j, k
    <3>6. JobsExplicit' BY <3>1, <3>4, <3>5, <2>r
    <3> QED BY <3>0, <3>6, <1>s, <1>c
  <2>4. CASE Save(c)
    <3>1. config' = Persisted(job[c].cfg) /\ session' = session BY <2>4 DEF Save
    <3>2. FileIsFree' BY <3>1, <2>j, PersistedTyped DEF Explicit, FileIsFree
    <3>3. \/ Goto(c, "save", "lock") /\ job' = job
          \/ Goto(c, "save", "adopt") /\ job' = job
          \/ Ends(c)
      BY <2>4 DEF Save
    <3>4. JobsExplicit' BY <3>3, <2>e, <2>g
    <3> QED BY <3>1, <3>2, <3>4, <1>s
  <2>5. CASE Refuse(c) BY <2>5, <2>e, <1>s, <1>c DEF Refuse
  <2>6. CASE StartSession(c)
    <3>1. Ends(c) \/ (Goto(c, "lock", "resolve") /\ job' = job) BY <2>6 DEF StartSession
    <3>2. UNCHANGED <<files, session>> BY <2>6 DEF StartSession
    <3>3. JobsExplicit' BY <3>1, <2>e, <2>g
    <3> QED BY <3>2, <3>3, <1>s, <1>c
  <2>7. CASE Resolve(c)
    <3> DEFINE k == job[c].cfg
    <3> DEFINE matchers(a) == IF k.selected # {} THEN k.selected ELSE {a.at[i] : i \in k.ids}
    <3> DEFINE resolved(a) == StartWith(a, matchers(a), k.ids)
    <3> DEFINE started(a) ==
          IF k.ids = {} THEN k
          ELSE [k EXCEPT !.selected = resolved(a).matchers, !.ids = resolved(a).ids]
    <3>1. PICK audio \in Audios :
            /\ Goto(c, "resolve", "worker")
            /\ k.ids # {} => NoSource \notin matchers(audio)
            /\ Remember(c, [job[c] EXCEPT !.cfg =
                 [Defaults EXCEPT !.selected = started(audio).selected,
                                  !.ids = started(audio).ids]])
            /\ config' = Persisted(started(audio))
      BY <2>7 DEF Resolve
    <3>2. session' = session BY <2>7 DEF Resolve
    <3>3. k \in Configs /\ k.selected \in SUBSET AllChoices /\ k.ids \in SUBSET Ids
          /\ k.ids \cap Watched \subseteq job[c].want
      BY <2>j DEF Explicit, Configs
    <3> HIDE DEF k
    <3>4. started(audio) \in Configs /\ started(audio).ids \cap Watched \subseteq job[c].want
      <4>1. CASE k.ids = {} BY <4>1, <3>1, <3>3
      <4>2. CASE k.ids # {}
        <5>1. matchers(audio) \in SUBSET AllChoices
          <6>1. \A i \in k.ids : audio.at[i] \in AllChoices \cup {NoSource} BY <3>3 DEF Audios
          <6> QED BY <6>1, <4>2, <3>1, <3>3
        <5>2. /\ resolved(audio).matchers \in SUBSET AllChoices
              /\ resolved(audio).ids \in SUBSET Ids
              /\ resolved(audio).ids \cap Watched \subseteq k.ids
          <6>1. k.ids \in SUBSET Ids BY <3>3
          <6> HIDE DEF matchers
          <6> QED BY <5>1, <6>1, StartMics DEF Watched
        <5>3. started(audio)
                = [k EXCEPT !.selected = resolved(audio).matchers, !.ids = resolved(audio).ids]
          BY <4>2, <3>1
        <5>4. started(audio) \in Configs /\ started(audio).ids = resolved(audio).ids
          BY <5>2, <5>3, <3>3 DEF Configs
        <5> QED BY <5>2, <5>4, <3>3
      <4> QED BY <4>1, <4>2
    <3> HIDE DEF started
    <3>5. FileIsFree' BY <3>1, <3>4, PersistedTyped DEF FileIsFree
    <3> DEFINE n == [Defaults EXCEPT !.selected = started(audio).selected,
                                     !.ids = started(audio).ids]
    <3>6. n \in Configs /\ n.ids = started(audio).ids BY <3>4, <1>f DEF Configs
    <3> HIDE DEF n
    <3> DEFINE j == [job[c] EXCEPT !.cfg = n]
    <3>8. Explicit(j) BY <2>j, <3>4, <3>6, CfgKept
    <3> HIDE DEF j
    <3>9. Remember(c, j) BY <3>1 DEF j, n
    <3>10. JobsExplicit' BY <3>1, <3>8, <3>9, <2>r
    <3> QED BY <3>2, <3>5, <3>10, <1>s
  <2>8. CASE Work(c)
    <3> DEFINE present(a) == {i \in job[c].cfg.ids : a.at[i] # NoSource}
    <3> DEFINE resolved(a) == StartWith(a, job[c].cfg.selected, present(a))
    <3>1. PICK audio \in Audios :
            session' = [on |-> TRUE, matchers |-> resolved(audio).matchers,
                        sources |-> {audio.at[i] : i \in resolved(audio).ids},
                        named |-> job[c].want \cap Mics, meant |-> job[c].meant]
      BY <2>8 DEF Work
    <3>2. Ends(c) /\ UNCHANGED files BY <2>8 DEF Work
    <3>3. job[c].cfg.selected \in SUBSET AllChoices /\ job[c].cfg.ids \in SUBSET Ids
          /\ job[c].cfg.ids \cap Watched \subseteq job[c].want
      BY <2>j DEF Explicit, Configs
    <3>4. present(audio) \in SUBSET Ids /\ present(audio) \cap Watched \subseteq job[c].want BY <3>3
    <3> HIDE DEF present
    <3>5. /\ resolved(audio).ids \subseteq Ids
          /\ resolved(audio).ids \cap Mics \subseteq present(audio)
      <4> DEFINE sel == job[c].cfg.selected
      <4>1. sel \in SUBSET AllChoices BY <3>3
      <4>2. present(audio) \in SUBSET Ids BY <3>4
      <4> HIDE DEF sel
      <4>3. /\ StartWith(audio, sel, present(audio)).ids \in SUBSET Ids
            /\ StartWith(audio, sel, present(audio)).ids \cap Mics \subseteq present(audio)
        BY <4>1, <4>2, StartMics
      <4> QED BY <4>3 DEF sel
    <3> HIDE DEF resolved
    <3>6. {audio.at[i] : i \in resolved(audio).ids} \cap Watched \subseteq job[c].want \cap Mics
      BY <3>4, <3>5, MicIds DEF Watched
    <3>7. (SessionHasFields /\ HeardIsNamed)' BY <3>1, <3>6 DEF SessionHasFields, HeardIsNamed
    <3> QED BY <3>2, <3>7, <2>e, <1>c
  <2>9. CASE Inspect(c)
    <3>0. UNCHANGED <<files, session>> BY <2>9 DEF Inspect
    <3>1. PICK live, hist :
            /\ Goto(c, "observe", "record")
            /\ Remember(c, [job[c] EXCEPT !.live = live, !.hist = hist])
      BY <2>9 DEF Inspect
    <3>2. Explicit([job[c] EXCEPT !.live = live, !.hist = hist])
      BY <2>j, SeenKept
    <3>3. JobsExplicit' BY <3>1, <3>2, <2>r
    <3> QED BY <3>0, <3>3, <1>s, <1>c
  <2>10. CASE Record(c) \/ Clear(c) BY <2>10, <2>e, <1>s, <1>c DEF Record, Clear
  <2>11. CASE CheckPlan(c)
    <3>1. Ends(c) \/ (Goto(c, "check", "backup") /\ job' = job) BY <2>11 DEF CheckPlan
    <3>2. UNCHANGED <<files, session>> BY <2>11 DEF CheckPlan
    <3>3. JobsExplicit' BY <3>1, <2>e, <2>g
    <3> QED BY <3>2, <3>3, <1>s, <1>c
  <2>12. CASE PrepareBackup(c) BY <2>12, <2>g, <1>s, <1>c DEF PrepareBackup
  <2>13. CASE Convert(c)
    <3>1. config' = Converted(job[c].choice) /\ session' = session
          /\ Goto(c, "convert", "verify") /\ job' = job
      BY <2>13 DEF Convert
    <3>2. Converted(job[c].choice) \in Configs /\ Converted(job[c].choice).ids = {}
      BY <1>f DEF Converted, Configs, Conns
    <3>3. FileIsFree' BY <3>1, <3>2 DEF FileIsFree
    <3> QED BY <3>1, <3>3, <2>g, <1>s
  <2>14. CASE Import(c)
    <3>0. UNCHANGED <<files, session>> BY <2>14 DEF Import
    <3>1. Goto(c, "convert", "merge") /\ Remember(c, [job[c] EXCEPT !.keyLeft = TRUE])
      BY <2>14 DEF Import
    <3>2. Explicit([job[c] EXCEPT !.keyLeft = TRUE]) BY <2>j, ReportKept
    <3>3. JobsExplicit' BY <3>1, <3>2, <2>r
    <3> QED BY <3>0, <3>3, <1>s, <1>c
  <2>15. CASE Adopt(c)
    <3>1. PICK q \in {"verify", "restore"} :
            /\ Goto(c, "adopt", q)
            /\ Remember(c, [job[c] EXCEPT !.committed = TRUE])
      BY <2>15 DEF Adopt
    <3>2. config' = config \/ config' = Persisted([job[c].cfg EXCEPT !.selected = {}])
      BY <2>15 DEF Adopt
    <3>3. [job[c].cfg EXCEPT !.selected = {}] \in Configs BY <2>j DEF Explicit, Configs
    <3>4. FileIsFree' BY <3>2, <3>3, <1>c, PersistedTyped DEF FileIsFree
    <3>5. Explicit([job[c] EXCEPT !.committed = TRUE]) BY <2>j, ReportKept
    <3>6. JobsExplicit' BY <3>1, <3>5, <2>r
    <3>7. session' = session BY <2>15 DEF Adopt
    <3> QED BY <3>4, <3>6, <3>7, <1>s
  <2>16. CASE ConversionFails(c)
    <3>0. UNCHANGED <<files, session>> BY <2>16 DEF ConversionFails
    <3>1. PICK left : /\ pc' = [pc EXCEPT ![c] = "restore"]
                      /\ Remember(c, [job[c] EXCEPT !.keyLeft = left, !.committed = left])
      BY <2>16 DEF ConversionFails
    <3>2. Goto(c, pc[c], "restore") BY <3>1 DEF Goto
    <3>3. Explicit([job[c] EXCEPT !.keyLeft = left, !.committed = left])
      BY <2>j, ReportKept
    <3>4. JobsExplicit' BY <3>1, <3>2, <3>3, <2>r
    <3> QED BY <3>0, <3>4, <1>s, <1>c
  <2>17. CASE Verify(c)
    <3>1. PICK q \in {"unlink", "restore"} : Goto(c, "verify", q) BY <2>17 DEF Verify
    <3>2. UNCHANGED <<files, session, job>> BY <2>17 DEF Verify
    <3>3. JobsExplicit' BY <3>1, <3>2, <2>g
    <3> QED BY <3>2, <3>3, <1>s, <1>c
  <2>18. CASE Unlink(c) BY <2>18, <2>e, <1>s, <1>c DEF Unlink
  <2>19. CASE Restore(c)
    <3>1. Ends(c) /\ session' = session /\ (config' = config \/ config' = LegacyFile)
      BY <2>19 DEF Restore
    <3>2. FileIsFree' BY <3>1, <1>c, <1>f DEF FileIsFree
    <3> QED BY <3>1, <3>2, <2>e, <1>s
  <2>20. CASE Crash(c) BY <2>20, <2>e, <1>s, <1>c DEF Crash
  <2> QED BY <1>1, <2>1, <2>2, <2>3, <2>4, <2>5, <2>6, <2>7, <2>8, <2>9, <2>10, <2>11, <2>12,
             <2>13, <2>14, <2>15, <2>16, <2>17, <2>18, <2>19, <2>20 DEF Step
<1>j. pc' = pc /\ job' = job => JobsExplicit'
  BY DEF EInv, JobsExplicit, Explicit, IsJob, Choosing
<1>2. CASE Reconcile
  <2>1. PICK app \in session.matchers \cap Apps :
          session' = [session EXCEPT !.sources = session.sources \cup {app}]
    BY <1>2 DEF Reconcile
  <2>2. UNCHANGED <<files, pc, job>> BY <1>2 DEF Reconcile
  <2>3. app \notin Watched BY DEF Devices, Watched
  <2>4. /\ SessionHasFields' /\ session'.sources = session.sources \cup {app}
        /\ session'.named = session.named
    BY <2>1 DEF EInv, SessionHasFields
  <2>5. HeardIsNamed' BY <2>3, <2>4 DEF EInv, HeardIsNamed
  <2> QED BY <2>2, <2>4, <2>5, <1>c, <1>j, <1>0 DEF EInv
<1>3. CASE StopSession
  <2>1. session' = NoSession /\ UNCHANGED <<files, pc, job>> BY <1>3 DEF StopSession
  <2>2. (SessionHasFields /\ HeardIsNamed)'
    BY <2>1 DEF SessionHasFields, HeardIsNamed, NoSession
  <2> QED BY <2>1, <2>2, <1>c, <1>j, <1>0 DEF EInv
<1>4. CASE UNCHANGED vars BY <1>4, <1>c, <1>j, <1>0, <1>s DEF EInv, vars
<1> QED BY <1>0, <1>1, <1>2, <1>3, <1>4 DEF Next, EInv

\* So no command, file or Session ever has one.
LEMMA ExplicitAlways == Spec => []EInv
<1>1. Init => EInv
  <2> SUFFICES ASSUME Init PROVE EInv OBVIOUS
  <2>1. Shape /\ \A c \in Commands : job[c] = NoJob /\ pc[c] = "idle" BY DEF Init, Shape
  <2>2. FileIsFree BY DefaultsTyped, FileTyped DEF Init, FileIsFree
  <2>3. JobsExplicit
    <3>1. Explicit(NoJob) BY NoJobIsJob, DefaultsTyped DEF Explicit
    <3> QED BY <2>1, <3>1 DEF JobsExplicit, Choosing
  <2>4. SessionHasFields /\ HeardIsNamed
    BY DEF Init, NoSession, SessionHasFields, HeardIsNamed
  <2> QED BY <2>1, <2>2, <2>3, <2>4 DEF EInv
<1>2. EInv /\ [Next]_vars => EInv' BY ExplicitStep
<1> QED BY <1>1, <1>2, PTL DEF Spec

\* No Session hears a microphone that its Start did not name, whatever commands
\* overlap, if the legacy configuration had none selected (start_session,
\* resolve_session_source_ids).
THEOREM CaptureIsExplicit ==
  ASSUME LegacyIds \cap Mics = {}
  PROVE  Spec => []CaptureExplicit
<1>1. EInv => CaptureExplicit BY DEF EInv, HeardIsNamed, CaptureExplicit, Watched
<1> QED BY <1>1, ExplicitAlways, PTL

-----------------------------------------------------------------------------
(* A migration that fails                                                  *)

\* An import that left a key on the Receiver knows it by the time it restores
\* the file: it is between Setup's answer and adopting it, or has noted it.
KeyNoted(j, p) ==
  /\ p \in {"check", "backup", "convert"} => j.op = "migrate"
  /\ \/ j.keyLeft = FALSE
     \/ j.committed = TRUE
     \/ p \in {"merge", "save", "adopt"} /\ j.op = "migrate"

KeysNoted == \A c \in Commands : KeyNoted(job[c], pc[c])

\* What a request begins with
LEMMA BeginsFresh ==
  ASSUME Shape, NEW c \in Commands, Begin(c)
  PROVE  /\ KeyNoted(job'[c], pc'[c])
         /\ \A d \in Commands \ {c} : job'[d] = job[d] /\ pc'[d] = pc[d]
<1>1. PICK op, want, choice, m :
        /\ op \in Ops
        /\ pc' = [pc EXCEPT ![c] = FirstStep(op, want)]
        /\ job' = [job EXCEPT ![c] =
             [NoJob EXCEPT !.op = op, !.want = want, !.choice = choice, !.meant = m]]
  <2>1. PICK op \in Ops, want \in Wants, choice \in Migrations :
          /\ pc' = [pc EXCEPT ![c] = FirstStep(op, want)]
          /\ Remember(c, [NoJob EXCEPT !.op = op, !.want = want, !.choice = choice,
               !.meant = Followed(CASE op \in {"loadProfile", "quickStart"} -> profiled
                                    [] op = "start" /\ want = {} -> chosen
                                    [] OTHER -> want)])
    BY DEF Begin
  <2> QED BY <2>1 DEF Remember
<1> DEFINE j == [NoJob EXCEPT !.op = op, !.want = want, !.choice = choice, !.meant = m]
<1>2. j.keyLeft = FALSE /\ j.op = op BY DEF NoJob
<1>3. FirstStep(op, want) \in {"check", "backup", "convert"} => op = "migrate"
  BY <1>1 DEF FirstStep, Ops
<1> HIDE DEF j
<1>4. job' = [job EXCEPT ![c] = j] BY <1>1 DEF j
<1> QED BY <1>1, <1>2, <1>3, <1>4 DEF Shape, KeyNoted

\* No step forgets the key that an import left on the Receiver.
LEMMA KeysNotedStep ==
  ASSUME EInv, KeysNoted, [Next]_vars
  PROVE  KeysNoted'
<1> USE DEF Shape, Goto, Remember, Ends, KeyNoted
<1>1. ASSUME NEW c \in Commands, Step(c) PROVE KeysNoted'
  <2>j. Shape /\ IsJob(job[c]) /\ KeyNoted(job[c], pc[c])
    BY DEF EInv, JobsExplicit, Explicit, KeysNoted
  <2>f. {"op", "cfg", "ready", "live", "hist", "keyLeft", "committed"} \subseteq DOMAIN job[c]
    BY <2>j DEF IsJob, NoJob
  <2>n. NoJob.keyLeft = FALSE BY DEF NoJob
  <2>o. /\ \A d \in Commands \ {c} : job'[d] = job[d] /\ pc'[d] = pc[d]
        /\ KeyNoted(job'[c], pc'[c])
    <3>1. CASE Begin(c) BY <3>1, <2>j, BeginsFresh
    <3>2. CASE ChooseSources(c)
      <4>1. PICK k, r, q :
              /\ Goto(c, "choose", q) /\ Remember(c, [job[c] EXCEPT !.cfg = k, !.ready = r])
              /\ q \in {"merge", "save"}
        BY <3>2 DEF ChooseSources
      <4> QED BY <4>1, <2>j, <2>f
    <3>3. CASE Merge(c)
      <4>1. PICK k, r, q :
              /\ Goto(c, "merge", q) /\ Remember(c, [job[c] EXCEPT !.cfg = k, !.ready = r])
              /\ q \in {"lock", "save"}
              /\ job[c].op = "migrate" => q = "save"
        BY <3>3 DEF Merge
      <4> QED BY <4>1, <2>j, <2>f
    <3>4. CASE Save(c) BY <3>4, <2>j, <2>n DEF Save
    <3>5. CASE Refuse(c) BY <3>5, <2>j, <2>n DEF Refuse
    <3>6. CASE StartSession(c) BY <3>6, <2>j, <2>n DEF StartSession
    <3>7. CASE Resolve(c)
      <4>1. PICK k : Goto(c, "resolve", "worker") /\ Remember(c, [job[c] EXCEPT !.cfg = k])
        BY <3>7 DEF Resolve
      <4> QED BY <4>1, <2>j, <2>f
    <3>8. CASE Work(c) BY <3>8, <2>j, <2>n DEF Work
    <3>9. CASE Inspect(c)
      <4>1. PICK l, h : Goto(c, "observe", "record")
                        /\ Remember(c, [job[c] EXCEPT !.live = l, !.hist = h])
        BY <3>9 DEF Inspect
      <4> QED BY <4>1, <2>j, <2>f
    <3>10. CASE Record(c) \/ Clear(c) BY <3>10, <2>j, <2>n DEF Record, Clear
    <3>11. CASE CheckPlan(c) BY <3>11, <2>j, <2>n DEF CheckPlan
    <3>12. CASE PrepareBackup(c) \/ Convert(c) \/ Verify(c)
      BY <3>12, <2>j DEF PrepareBackup, Convert, Verify
    <3>13. CASE Import(c) BY <3>13, <2>j, <2>f DEF Import
    <3>14. CASE Adopt(c) BY <3>14, <2>j, <2>f DEF Adopt
    <3>15. CASE ConversionFails(c)
      <4>1. PICK left \in BOOLEAN :
              /\ pc' = [pc EXCEPT ![c] = "restore"]
              /\ Remember(c, [job[c] EXCEPT !.keyLeft = left, !.committed = left])
        BY <3>15 DEF ConversionFails
      <4>2. pc'[c] = "restore" /\ job'[c].keyLeft = left /\ job'[c].committed = left
        BY <4>1, <2>j, <2>f
      <4> QED BY <4>1, <4>2, <2>j
    <3>16. CASE Unlink(c) \/ Restore(c) \/ Crash(c)
      BY <3>16, <2>j, <2>n DEF Unlink, Restore, Crash
    <3> QED BY <1>1, <3>1, <3>2, <3>3, <3>4, <3>5, <3>6, <3>7, <3>8, <3>9, <3>10, <3>11, <3>12,
               <3>13, <3>14, <3>15, <3>16 DEF Step
  <2> QED BY <2>o DEF KeysNoted
<1>2. CASE Reconcile \/ StopSession BY <1>2 DEF Reconcile, StopSession, KeysNoted
<1>3. CASE UNCHANGED vars BY <1>3 DEF vars, KeysNoted
<1> QED BY <1>1, <1>2, <1>3 DEF Next

\* A migration that says it was rolled back completely has put back the exact
\* file, and no key stays on the Receiver that it knows nothing of, whatever
\* commands overlap (MigrationService.execute).
THEOREM RollbackIsTrue == Spec => RolledBack
<1>1. Init => KeysNoted
  BY DEF Init, KeysNoted, KeyNoted, NoJob
<1>2. EInv /\ KeysNoted /\ [Next]_vars => KeysNoted' BY KeysNotedStep
<1>3. EInv /\ KeysNoted /\ [Next]_vars
        => [\A c \in Commands :
              pc[c] = "restore" /\ pc'[c] = "idle" /\ answer' = "complete" /\ answer # "complete"
                => config' = LegacyFile /\ ~job[c].keyLeft]_vars
  <2> SUFFICES ASSUME EInv, KeysNoted, Next, NEW c \in Commands,
                      pc[c] = "restore", pc'[c] = "idle", answer' = "complete",
                      answer # "complete"
               PROVE  config' = LegacyFile /\ ~job[c].keyLeft
    BY DEF vars
  <2>1. PICK d \in Commands : Restore(d)
    <3>1. ASSUME NEW d \in Commands, Step(d) PROVE Restore(d)
      <4> USE DEF told
      <4>1. CASE Begin(d) BY <4>1 DEF Begin
      <4>2. CASE Save(d) BY <4>2 DEF Save
      <4>3. CASE ChooseSources(d) \/ Merge(d) \/ Refuse(d)
        BY <4>3 DEF ChooseSources, Merge, Refuse
      <4>4. CASE StartSession(d) \/ Resolve(d) \/ Work(d) BY <4>4 DEF StartSession, Resolve, Work
      <4>5. CASE Inspect(d) \/ Record(d) \/ Clear(d) BY <4>5 DEF Inspect, Record, Clear
      <4>6. CASE CheckPlan(d) \/ PrepareBackup(d) \/ Convert(d) \/ Import(d) \/ Adopt(d)
        BY <4>6 DEF CheckPlan, PrepareBackup, Convert, Import, Adopt
      <4>7. CASE ConversionFails(d) \/ Verify(d) \/ Unlink(d) \/ Crash(d)
        BY <4>7 DEF ConversionFails, Verify, Unlink, Crash
      <4> QED BY <3>1, <4>1, <4>2, <4>3, <4>4, <4>5, <4>6, <4>7 DEF Step
    <3> QED BY <3>1 DEF Next, Reconcile, StopSession, told
  <2>2. d = c BY <2>1 DEF Restore, Ends, EInv, Shape
  <2>3. PICK ok \in BOOLEAN :
          /\ config' = IF ok /\ backup THEN LegacyFile ELSE config
          /\ Complete(ok /\ backup, job[c])
    BY <2>1, <2>2 DEF Restore
  <2>4. ok /\ backup /\ ~job[c].committed BY <2>3 DEF Complete
  <2>5. job[c].keyLeft = FALSE BY <2>4 DEF KeysNoted, KeyNoted
  <2> QED BY <2>3, <2>4, <2>5
<1> QED BY <1>1, <1>2, <1>3, ExplicitAlways, PTL DEF Spec, RolledBack

-----------------------------------------------------------------------------
(* What the user means. While no two commands have overlapped it is        *)
(* followed from the request through the files to the Session: at every    *)
(* step of a command its memory, the file and the Session hold nothing     *)
(* that was not meant.                                                     *)

\* Only one command is under way.
Solo == \A c, d \in Commands : c = d \/ pc[c] = "idle" \/ pc[d] = "idle"

\* The requests whose Sources become the selection
Selecting == {"configure", "start", "loadProfile", "quickStart"}

\* A configuration with ids has a selection they were found for.
Selected(k) == k.ids # {} => k.selected # {}

AtChoose(c) ==
  pc[c] = "choose" =>
    /\ job[c].op \in {"configure", "start"} => job[c].want \subseteq job[c].meant
    /\ job[c].op = "start" => job[c].want # {}
    /\ job[c].op \in {"loadProfile", "quickStart"} => config.profile.matchers \subseteq job[c].meant

AtMerge(c) ==
  pc[c] = "merge" =>
    /\ job[c].op = "start" /\ job[c].want = {} => config.selected \subseteq job[c].meant
    /\ job[c].op \in Selecting /\ ~(job[c].op = "start" /\ job[c].want = {})
         => job[c].cfg.selected \subseteq job[c].meant /\ Selected(job[c].cfg)
    /\ job[c].op = "saveProfile" => job[c].cfg.profile.matchers \subseteq job[c].want

AtSave(c) ==
  pc[c] = "save" =>
    /\ job[c].cfg.selected \subseteq IF job[c].op \in Selecting THEN job[c].meant ELSE chosen
    /\ job[c].cfg.profile.matchers \subseteq
         IF job[c].op = "saveProfile" THEN job[c].want ELSE profiled
    /\ job[c].op = "start" => Selected(job[c].cfg)

AtLock(c) ==
  pc[c] \in {"lock", "resolve"} =>
    /\ job[c].cfg.selected \subseteq job[c].meant
    /\ job[c].cfg.profile.matchers \subseteq profiled
    /\ Selected(job[c].cfg) \/ (pc[c] = "lock" /\ config.legacy)

AtWorker(c) == pc[c] = "worker" => job[c].cfg.selected \subseteq job[c].meant
AtAdopt(c) == pc[c] = "adopt" => job[c].cfg.profile.matchers \subseteq profiled

Meant(c) ==
  AtChoose(c) /\ AtMerge(c) /\ AtSave(c) /\ AtLock(c) /\ AtWorker(c) /\ AtAdopt(c)

FileChosen == config.selected \subseteq chosen /\ config.profile.matchers \subseteq profiled
SessionMeant == session.sources \subseteq session.meant /\ session.matchers \subseteq session.meant
\* The file is the legacy one or holds no ids.
FileForm == (config.legacy => config = LegacyFile) /\ (~config.legacy => config.ids = {})

Follows(c) == FileChosen /\ SessionMeant /\ Meant(c)

AInv == FileForm /\ (alone => Solo /\ FileChosen /\ SessionMeant /\ \A c \in Commands : Meant(c))

\* What is chosen is among what is wanted; ids come with choices.
LEMMA ChooseChosen ==
  ASSUME NEW audio \in Audios, NEW want \in SUBSET AllChoices
  PROVE  /\ Choose(audio, want).matchers \subseteq want
         /\ Choose(audio, want).ids # {} => Choose(audio, want).matchers # {}
<1> DEFINE ids == Exclusive(audio, Matching(audio, want))
<1>1. \A i \in ids : i \in Ids /\ audio.at[i] \in want BY DEF Exclusive, Matching
<1>2. audio.desktop \in ids => audio.at[audio.desktop] = audio.desktop
  BY <1>1 DEF Audios
<1> HIDE DEF ids
<1>3. Choose(audio, want) =
       [ids |-> ids, matchers |-> IF audio.desktop \in ids THEN {audio.desktop} ELSE want]
  BY DEF Choose, ids
<1> QED BY <1>1, <1>2, <1>3

\* Nothing is remembered of no choice.
LEMMA RememberedChosen ==
  ASSUME NEW audio, NEW matchers, Remembered(audio, matchers) # {}
  PROVE  matchers # {}
  BY DEF Remembered, Exclusive, Matching

\* What starts is what a matcher says, and nothing but the matchers is armed.
LEMMA StartChosen ==
  ASSUME NEW audio \in Audios, NEW matchers, NEW ids, ids \subseteq Matching(audio, matchers)
  PROVE  /\ StartWith(audio, matchers, ids).matchers \subseteq matchers
         /\ \A i \in StartWith(audio, matchers, ids).ids : audio.at[i] \in matchers
<1> DEFINE all == Exclusive(audio, ids \cup Matching(audio, matchers \ Mics))
<1>1. \A i \in all : i \in Ids /\ audio.at[i] \in matchers BY DEF Exclusive, Matching
<1>2. audio.desktop \in all => audio.at[audio.desktop] = audio.desktop
  BY <1>1 DEF Audios
<1> HIDE DEF all
<1>3. StartWith(audio, matchers, ids) =
       [ids |-> all, matchers |-> IF audio.desktop \in all THEN {audio.desktop} ELSE matchers]
  BY DEF StartWith, all
<1> QED BY <1>1, <1>2, <1>3

\* Every write leaves the legacy file or a configuration without ids.
LEMMA FileFormStep ==
  ASSUME EInv, FileForm, [Next]_vars
  PROVE  FileForm'
<1> USE DEF FileForm, files, told
<1>p. \A k : {"legacy", "ids"} \subseteq DOMAIN k
              => Persisted(k).legacy = FALSE /\ Persisted(k).ids = {}
  BY DEF Persisted, Loaded
<1>d. \A k \in Configs : {"legacy", "ids"} \subseteq DOMAIN k BY DEF Configs
<1>1. ASSUME NEW c \in Commands, Step(c) PROVE FileForm'
  <2>j. job[c].cfg \in Configs BY DEF EInv, JobsExplicit, Explicit
  <2>1. CASE Begin(c) BY <2>1 DEF Begin
  <2>2. CASE Save(c) BY <2>2, <2>j, <1>p, <1>d DEF Save
  <2>3. CASE ChooseSources(c) \/ Merge(c) \/ Refuse(c)
    BY <2>3 DEF ChooseSources, Merge, Refuse
  <2>4. CASE StartSession(c) \/ Work(c) BY <2>4 DEF StartSession, Work
  <2>5. CASE Resolve(c)
    <3>1. PICK x, y : \/ config' = Persisted(job[c].cfg)
                      \/ config' = Persisted([job[c].cfg EXCEPT !.selected = x, !.ids = y])
      BY <2>5 DEF Resolve
    <3>2. {"legacy", "ids"} \subseteq DOMAIN job[c].cfg BY <2>j, <1>d
    <3>3. {"legacy", "ids"} \subseteq DOMAIN [job[c].cfg EXCEPT !.selected = x, !.ids = y]
      BY <3>2
    <3>4. config'.legacy = FALSE /\ config'.ids = {}
      <4>1. CASE config' = Persisted(job[c].cfg) BY <4>1, <3>2, <1>p
      <4>2. CASE config' = Persisted([job[c].cfg EXCEPT !.selected = x, !.ids = y])
        <5> DEFINE z == [job[c].cfg EXCEPT !.selected = x, !.ids = y]
        <5>1. {"legacy", "ids"} \subseteq DOMAIN z /\ config' = Persisted(z) BY <3>3, <4>2
        <5> HIDE DEF z
        <5> QED BY <5>1, <1>p
      <4> QED BY <3>1, <4>1, <4>2
    <3> QED BY <3>4
  <2>6. CASE Inspect(c) \/ Record(c) \/ Clear(c) BY <2>6 DEF Inspect, Record, Clear
  <2>7. CASE CheckPlan(c) \/ PrepareBackup(c) \/ Import(c)
    BY <2>7 DEF CheckPlan, PrepareBackup, Import
  <2>8. CASE Convert(c) BY <2>8 DEF Convert, Converted, Defaults
  <2>9. CASE Adopt(c)
    <3>1. {"legacy", "ids"} \subseteq DOMAIN [job[c].cfg EXCEPT !.selected = {}] BY <2>j, <1>d
    <3> QED BY <2>9, <3>1, <1>p DEF Adopt
  <2>10. CASE ConversionFails(c) \/ Verify(c) \/ Unlink(c) \/ Crash(c)
    BY <2>10 DEF ConversionFails, Verify, Unlink, Crash
  <2>11. CASE Restore(c) BY <2>11, LegacyIsLegacy DEF Restore
  <2> QED BY <1>1, <2>1, <2>2, <2>3, <2>4, <2>5, <2>6, <2>7, <2>8, <2>9, <2>10, <2>11 DEF Step
<1>2. CASE Reconcile \/ StopSession BY <1>2 DEF Reconcile, StopSession
<1>3. CASE UNCHANGED vars BY <1>3 DEF vars
<1> QED BY <1>1, <1>2, <1>3 DEF Next

\* Where a command holds nothing, it holds nothing the user did not mean.
LEMMA NothingHeld ==
  ASSUME NEW c \in Commands,
         pc'[c] \notin {"choose", "merge", "save", "lock", "resolve", "worker", "adopt"}
  PROVE  Meant(c)'
  BY DEF Meant, AtChoose, AtMerge, AtSave, AtLock, AtWorker, AtAdopt

\* What a step leaves in one command
LEMMA StepLeaves ==
  ASSUME EInv, NEW c \in Commands
  PROVE  /\ \A p, q : Goto(c, p, q) => pc[c] = p /\ pc'[c] = q
         /\ \A j : Remember(c, j) => job'[c] = j
         /\ Ends(c) => pc'[c] = "idle"
         /\ {"op", "want", "cfg", "meant", "ready", "keyLeft", "committed"} \subseteq DOMAIN job[c]
         /\ job[c].cfg \in Configs /\ job[c].want \in SUBSET AllChoices
         /\ pc[c] = "choose" => job[c].op \in Choosers
<1>1. Shape /\ Explicit(job[c]) /\ Choosing(c) BY DEF EInv, JobsExplicit
<1>2. {"op", "want", "cfg", "meant", "ready", "keyLeft", "committed"} \subseteq DOMAIN job[c]
  BY <1>1 DEF Explicit, IsJob, NoJob
<1>3. \A p, q : Goto(c, p, q) => pc[c] = p /\ pc'[c] = q BY <1>1 DEF Goto, Shape
<1>4. \A j : Remember(c, j) => job'[c] = j BY <1>1 DEF Remember, Shape
<1>5. Ends(c) => pc'[c] = "idle" BY <1>1 DEF Ends, Shape
<1> QED BY <1>1, <1>2, <1>3, <1>4, <1>5 DEF Explicit, Choosing

\* The files and the Session stay as they are, and so does what they are compared with.
LEMMA FilesFollow ==
  ASSUME FileChosen, SessionMeant, config' = config, session' = session,
         chosen' = chosen, profiled' = profiled
  PROVE  FileChosen' /\ SessionMeant'
  BY DEF FileChosen, SessionMeant

\* A request begins with what the user means by it.
LEMMA BeginFollows ==
  ASSUME EInv, alone, alone', NEW c \in Commands, Follows(c), Begin(c)
  PROVE  Follows(c)'
<1>1. PICK op \in Ops, want \in Wants, choice \in Migrations :
        /\ pc' = [pc EXCEPT ![c] = FirstStep(op, want)]
        /\ Remember(c, [NoJob EXCEPT !.op = op, !.want = want, !.choice = choice,
             !.meant = Followed(CASE op \in {"loadProfile", "quickStart"} -> profiled
                                  [] op = "start" /\ want = {} -> chosen
                                  [] OTHER -> want)])
  BY DEF Begin
<1> DEFINE m == CASE op \in {"loadProfile", "quickStart"} -> profiled
                  [] op = "start" /\ want = {} -> chosen
                  [] OTHER -> want
<1>2. UNCHANGED <<config, session, chosen, profiled>> BY DEF Begin, files
<1>3. FileChosen' /\ SessionMeant' BY <1>2, FilesFollow DEF Follows
<1>4. /\ op \in {"loadProfile", "quickStart"} => m = profiled
      /\ op = "start" /\ want = {} => m = chosen
      /\ op = "configure" => m = want
      /\ op = "start" /\ want # {} => m = want
  OBVIOUS
<1> HIDE DEF m
<1>5. Remember(c, [NoJob EXCEPT !.op = op, !.want = want, !.choice = choice, !.meant = m])
  BY <1>1 DEF m, Followed
<1>6. job'[c].op = op /\ job'[c].want = want /\ job'[c].meant = m
  <2>1. job'[c] = [NoJob EXCEPT !.op = op, !.want = want, !.choice = choice, !.meant = m]
    BY <1>5, StepLeaves
  <2> QED BY <2>1 DEF NoJob
<1>7. pc'[c] = FirstStep(op, want) BY <1>1 DEF EInv, Shape
<1>8. CASE FirstStep(op, want) = "choose"
  <2>1. op = "start" => want # {} BY <1>8 DEF FirstStep
  <2>2. AtChoose(c)'
    BY <1>2, <1>4, <1>6, <2>1 DEF AtChoose, Follows, FileChosen
  <2> QED BY <1>3, <1>7, <1>8, <2>2
          DEF Follows, Meant, AtMerge, AtSave, AtLock, AtWorker, AtAdopt
<1>9. CASE FirstStep(op, want) = "merge"
  <2>1. op \in {"deleteProfile", "rename", "select"} \/ (op = "start" /\ want = {})
    BY <1>9 DEF FirstStep, Ops
  <2>2. AtMerge(c)'
    BY <1>2, <1>4, <1>6, <2>1 DEF AtMerge, Follows, FileChosen, Selecting
  <2> QED BY <1>3, <1>7, <1>9, <2>2
          DEF Follows, Meant, AtChoose, AtSave, AtLock, AtWorker, AtAdopt
<1>10. FirstStep(op, want) \in {"choose", "merge", "observe", "check"}
  BY DEF FirstStep, Ops
<1>11. CASE FirstStep(op, want) \in {"observe", "check"}
  BY <1>3, <1>7, <1>11, NothingHeld DEF Follows
<1> QED BY <1>8, <1>9, <1>10, <1>11

\* What a request discovers is what it means, and a profile what it names.
LEMMA ChosenMeant ==
  ASSUME EInv, alone, NEW c \in Commands, Follows(c), pc[c] = "choose", NEW audio \in Audios,
         NEW k, k = Chosen(job[c], audio)
  PROVE  /\ job[c].op \in Selecting => k.selected \subseteq job[c].meant /\ Selected(k)
         /\ job[c].op = "saveProfile" => k.profile.matchers \subseteq job[c].want
         /\ job[c].op \in {"pin", "unpin"}
              => k.selected = config.selected /\ k.profile = config.profile
<1> DEFINE j == job[c]
<1> DEFINE picked == Choose(audio, j.want)
<1>1. j.want \in SUBSET AllChoices /\ j.op \in Choosers BY StepLeaves
<1>2. picked.matchers \subseteq j.want /\ (picked.ids # {} => picked.matchers # {})
  BY <1>1, ChooseChosen
<1>3. AtChoose(c) BY DEF Follows, Meant
<1>4. {"legacy", "selected", "ids", "pinned", "profile"} \subseteq DOMAIN Defaults BY DEF Defaults
<1>5. {"legacy", "selected", "ids", "pinned", "profile"} \subseteq DOMAIN config
  BY DEF EInv, FileIsFree, Configs
<1> HIDE DEF picked
<1>6. CASE j.op \in {"configure", "start"}
  <2>1. k = [Defaults EXCEPT !.selected = picked.matchers, !.ids = picked.ids]
    BY <1>6 DEF Chosen, picked
  <2>2. k.selected = picked.matchers /\ k.ids = picked.ids BY <2>1, <1>4
  <2> QED BY <1>2, <1>3, <1>6, <2>2 DEF AtChoose, Selected, Selecting
<1>7. CASE j.op \in {"loadProfile", "quickStart"}
  <2> DEFINE rem == Remembered(audio, config.profile.matchers)
  <2>1. k = [Defaults EXCEPT !.selected = config.profile.matchers, !.ids = rem]
    BY <1>7 DEF Chosen
  <2>2. rem # {} => config.profile.matchers # {} BY RememberedChosen
  <2> HIDE DEF rem
  <2>3. k.selected = config.profile.matchers /\ k.ids = rem BY <2>1, <1>4
  <2> QED BY <1>3, <1>7, <2>2, <2>3 DEF AtChoose, Selected, Selecting
<1>8. CASE j.op = "saveProfile"
  <2> DEFINE q == picked.matchers \cap Mics = {} /\ ~NeedsReview(audio, picked.matchers)
  <2>1. k = [Defaults EXCEPT !.profile =
               [matchers |-> picked.matchers, saved |-> TRUE, quick |-> q]]
    BY <1>8 DEF Chosen, picked
  <2> HIDE DEF q
  <2>2. k.profile.matchers = picked.matchers BY <2>1, <1>4
  <2> QED BY <1>2, <1>8, <2>2 DEF Selecting
<1>9. CASE j.op \in {"pin", "unpin"}
  <2>1. PICK x : k = [Loaded(config) EXCEPT !.pinned = x] BY <1>9 DEF Chosen
  <2>2. k.selected = config.selected /\ k.profile = config.profile
    BY <2>1, <1>5 DEF Loaded
  <2> QED BY <1>9, <2>2 DEF Selecting
<1> QED BY <1>1, <1>6, <1>7, <1>8, <1>9 DEF Choosers

\* What it discovers is what it means.
LEMMA ChooseFollows ==
  ASSUME EInv, alone, alone', NEW c \in Commands, Follows(c), ChooseSources(c)
  PROVE  Follows(c)'
<1>1. PICK audio \in Audios :
        /\ Goto(c, "choose", IF job[c].op \in {"pin", "unpin"} THEN "save" ELSE "merge")
        /\ Remember(c, [job[c] EXCEPT !.cfg = Chosen(job[c], audio),
             !.ready = job[c].op = "quickStart" /\ Quick(audio, config.profile)])
  BY DEF ChooseSources
<1>2. FileChosen' /\ SessionMeant' BY FilesFollow DEF ChooseSources, Follows, files, told
<1> DEFINE k == Chosen(job[c], audio)
<1>3. pc[c] = "choose" BY <1>1, StepLeaves
<1>4. /\ job[c].op \in Selecting => k.selected \subseteq job[c].meant /\ Selected(k)
      /\ job[c].op = "saveProfile" => k.profile.matchers \subseteq job[c].want
      /\ job[c].op \in {"pin", "unpin"}
           => k.selected = config.selected /\ k.profile = config.profile
  BY <1>3, ChosenMeant
<1> HIDE DEF k
<1>5. /\ job'[c].cfg = k /\ job'[c].op = job[c].op /\ job'[c].want = job[c].want
      /\ job'[c].meant = job[c].meant
  <2>1. PICK r : Remember(c, [job[c] EXCEPT !.cfg = k, !.ready = r]) BY <1>1 DEF k
  <2>2. job'[c] = [job[c] EXCEPT !.cfg = k, !.ready = r] BY <2>1, StepLeaves
  <2>3. {"op", "want", "cfg", "meant", "ready"} \subseteq DOMAIN job[c] BY StepLeaves
  <2> QED BY <2>2, <2>3
<1>6. UNCHANGED <<config, chosen, profiled>> BY DEF ChooseSources, files, told
<1>7. CASE job[c].op \in {"pin", "unpin"}
  <2>1. pc'[c] = "save" BY <1>1, <1>7, StepLeaves
  <2>2. AtSave(c)' BY <1>4, <1>5, <1>6, <1>7 DEF AtSave, Follows, FileChosen, Selecting
  <2> QED BY <1>2, <2>1, <2>2 DEF Follows, Meant, AtChoose, AtMerge, AtLock, AtWorker, AtAdopt
<1>8. CASE job[c].op \notin {"pin", "unpin"}
  <2>1. pc'[c] = "merge" BY <1>1, <1>8, StepLeaves
  <2>2. AtMerge(c)'
    BY <1>3, <1>4, <1>5, <1>6 DEF AtMerge, AtChoose, Follows, Meant
  <2> QED BY <1>2, <2>1, <2>2 DEF Follows, Meant, AtChoose, AtSave, AtLock, AtWorker, AtAdopt
<1> QED BY <1>7, <1>8

\* The request's change over the configuration as it is loaded
LEMMA MergedMeant ==
  ASSUME EInv, FileForm, alone, NEW c \in Commands, Follows(c), pc[c] = "merge", NEW conn,
         NEW k, k = Merged(job[c], Loaded(config), conn)
  PROVE  /\ k.selected \subseteq IF job[c].op \in Selecting THEN job[c].meant ELSE chosen
         /\ k.profile.matchers \subseteq
              IF job[c].op = "saveProfile" THEN job[c].want ELSE profiled
         /\ Selected(k) \/ config.legacy \/ job[c].op \notin Selecting
         /\ job[c].op \in Selecting /\ ~(job[c].op = "start" /\ job[c].want = {}) => Selected(k)
<1> DEFINE j == job[c]
<1> DEFINE base == Loaded(config)
<1>1. {"legacy", "conn", "selected", "ids", "pinned", "profile"} \subseteq DOMAIN config
  BY DEF EInv, FileIsFree, Configs
<1>2. /\ {"legacy", "conn", "selected", "ids", "pinned", "profile"} \subseteq DOMAIN base
      /\ base.selected = config.selected /\ base.ids = config.ids /\ base.profile = config.profile
  BY <1>1 DEF Loaded
<1>3. AtMerge(c) /\ FileChosen BY DEF Follows, Meant
<1>4. ~config.legacy => config.ids = {} BY DEF FileForm
<1> HIDE DEF base
<1>5. CASE j.op \in {"configure", "start"} /\ j.want # {}
  <2>1. k = [base EXCEPT !.selected = j.cfg.selected, !.ids = j.cfg.ids]
    BY <1>5 DEF Merged, base
  <2>2. k.selected = j.cfg.selected /\ k.ids = j.cfg.ids /\ k.profile = config.profile
    BY <2>1, <1>2
  <2> QED BY <1>3, <1>5, <2>2 DEF AtMerge, FileChosen, Selecting, Selected
<1>6. CASE j.op = "configure" /\ j.want = {}
  <2>1. k = [base EXCEPT !.selected = {}, !.ids = {}] BY <1>6 DEF Merged, base
  <2>2. k.selected = {} /\ k.ids = {} /\ k.profile = config.profile BY <2>1, <1>2
  <2> QED BY <1>3, <1>6, <2>2 DEF AtMerge, FileChosen, Selecting, Selected
<1>7. CASE j.op \in {"loadProfile", "quickStart"}
  <2>1. k = [base EXCEPT !.selected = j.cfg.selected, !.ids = j.cfg.ids, !.conn = conn]
    BY <1>7 DEF Merged, base
  <2>2. k.selected = j.cfg.selected /\ k.ids = j.cfg.ids /\ k.profile = config.profile
    BY <2>1, <1>2
  <2> QED BY <1>3, <1>7, <2>2 DEF AtMerge, FileChosen, Selecting, Selected
<1>8. CASE j.op = "start" /\ j.want = {}
  <2>1. k = base BY <1>8 DEF Merged, base
  <2> QED BY <1>2, <1>3, <1>4, <1>8, <2>1 DEF AtMerge, FileChosen, Selecting, Selected
<1>9. CASE j.op = "saveProfile"
  <2>1. k = [base EXCEPT !.profile = j.cfg.profile] BY <1>9 DEF Merged, base
  <2>2. k.selected = config.selected /\ k.profile = j.cfg.profile BY <2>1, <1>2
  <2> QED BY <1>3, <1>9, <2>2 DEF AtMerge, FileChosen, Selecting
<1>10. CASE j.op = "deleteProfile"
  <2>1. k = [base EXCEPT !.profile = NoProfile] BY <1>10 DEF Merged, base
  <2>2. k.selected = config.selected /\ k.profile.matchers = {} BY <2>1, <1>2 DEF NoProfile
  <2> QED BY <1>3, <1>10, <2>2 DEF FileChosen, Selecting
<1>11. CASE j.op \notin Selecting \cup {"saveProfile", "deleteProfile"}
  <2>1. \/ k = base
        \/ k = [base EXCEPT !.conn = conn]
        \/ k = [base EXCEPT !.conn = "receiver-only"]
    BY <1>11 DEF Merged, base, Selecting
  <2>2. k.selected = config.selected /\ k.profile = config.profile BY <2>1, <1>2
  <2> QED BY <1>3, <1>11, <2>2 DEF FileChosen, Selecting
<1> QED BY <1>5, <1>6, <1>7, <1>8, <1>9, <1>10, <1>11 DEF Selecting

\* What it lays over the file is what it means, and the rest what was meant before.
LEMMA MergeFollows ==
  ASSUME EInv, FileForm, alone, alone', NEW c \in Commands, Follows(c), Merge(c)
  PROVE  Follows(c)'
<1>1. PICK conn \in Conns \ {"none"} :
        /\ Goto(c, "merge",
             IF \/ job[c].op = "start" /\ job[c].want = {}
                \/ job[c].op = "quickStart" /\ job[c].ready /\ ~session.on
             THEN "lock" ELSE "save")
        /\ Remember(c, [job[c] EXCEPT !.cfg = Merged(job[c], Loaded(config), conn),
                                      !.ready = FALSE])
  BY DEF Merge
<1>2. FileChosen' /\ SessionMeant' BY FilesFollow DEF Merge, Follows, files, told
<1> DEFINE k == Merged(job[c], Loaded(config), conn)
<1>3. pc[c] = "merge" BY <1>1, StepLeaves
<1>4. /\ k.selected \subseteq IF job[c].op \in Selecting THEN job[c].meant ELSE chosen
      /\ k.profile.matchers \subseteq IF job[c].op = "saveProfile" THEN job[c].want ELSE profiled
      /\ Selected(k) \/ config.legacy \/ job[c].op \notin Selecting
      /\ job[c].op \in Selecting /\ ~(job[c].op = "start" /\ job[c].want = {}) => Selected(k)
  BY <1>3, MergedMeant
<1> HIDE DEF k
<1>5. /\ job'[c].cfg = k /\ job'[c].op = job[c].op /\ job'[c].want = job[c].want
      /\ job'[c].meant = job[c].meant
  <2>1. Remember(c, [job[c] EXCEPT !.cfg = k, !.ready = FALSE]) BY <1>1 DEF k
  <2>2. job'[c] = [job[c] EXCEPT !.cfg = k, !.ready = FALSE] BY <2>1, StepLeaves
  <2>3. {"op", "want", "cfg", "meant", "ready"} \subseteq DOMAIN job[c] BY StepLeaves
  <2> QED BY <2>2, <2>3
<1>6. UNCHANGED <<config, chosen, profiled>> BY DEF Merge, files, told
<1>7. \/ pc'[c] = "lock" /\ job[c].op \in {"start", "quickStart"}
      \/ pc'[c] = "save" /\ ~(job[c].op = "start" /\ job[c].want = {})
  BY <1>1, StepLeaves
<1>8. CASE pc'[c] = "lock" /\ job[c].op \in {"start", "quickStart"}
  <2>1. AtLock(c)' BY <1>4, <1>5, <1>6, <1>8 DEF AtLock, Selecting
  <2> QED BY <1>2, <1>8, <2>1 DEF Follows, Meant, AtChoose, AtMerge, AtSave, AtWorker, AtAdopt
<1>9. CASE pc'[c] = "save" /\ ~(job[c].op = "start" /\ job[c].want = {})
  <2>1. AtSave(c)' BY <1>4, <1>5, <1>6, <1>9 DEF AtSave, Selecting
  <2> QED BY <1>2, <1>9, <2>1 DEF Follows, Meant, AtChoose, AtMerge, AtLock, AtWorker, AtAdopt
<1> QED BY <1>7, <1>8, <1>9

\* What it saves becomes what the user has chosen.
LEMMA SaveFollows ==
  ASSUME EInv, alone, alone', NEW c \in Commands, Follows(c), Save(c)
  PROVE  Follows(c)'
<1> DEFINE j == job[c]
<1>1. AtSave(c) /\ FileChosen /\ SessionMeant BY DEF Follows, Meant
<1>2. pc[c] = "save" BY StepLeaves DEF Save
<1>3. j.cfg \in Configs BY StepLeaves
<1>4. config'.selected = j.cfg.selected /\ config'.profile = j.cfg.profile
  <2>1. config' = Persisted(j.cfg) BY DEF Save
  <2>2. {"selected", "profile"} \subseteq DOMAIN j.cfg BY <1>3 DEF Configs
  <2> QED BY <2>1, <2>2 DEF Persisted, Loaded
<1>5. /\ chosen' = IF j.op \in Selecting THEN j.meant ELSE chosen
      /\ profiled' = IF j.op = "saveProfile" THEN j.want ELSE profiled
      /\ session' = session
  BY DEF Save, Selecting, Followed
<1>6. FileChosen' /\ SessionMeant' BY <1>1, <1>2, <1>4, <1>5 DEF AtSave, FileChosen, SessionMeant
<1>7. CASE j.op = "start"
  <2>1. pc'[c] = "lock" /\ job' = job BY <1>7, StepLeaves DEF Save
  <2>2. AtLock(c)' BY <1>1, <1>2, <1>5, <1>7, <2>1 DEF AtSave, AtLock, Selecting
  <2> QED BY <1>6, <2>1, <2>2 DEF Follows, Meant, AtChoose, AtMerge, AtSave, AtWorker, AtAdopt
<1>8. CASE j.op = "migrate"
  <2>1. pc'[c] = "adopt" /\ job' = job BY <1>8, StepLeaves DEF Save
  <2>2. AtAdopt(c)' BY <1>1, <1>2, <1>5, <1>8, <2>1 DEF AtSave, AtAdopt, Selecting
  <2> QED BY <1>6, <2>1, <2>2 DEF Follows, Meant, AtChoose, AtMerge, AtSave, AtWorker, AtLock
<1>9. CASE j.op \notin {"start", "migrate"}
  <2>1. pc'[c] = "idle" BY <1>9, StepLeaves DEF Save
  <2> QED BY <1>6, <2>1, NothingHeld DEF Follows
<1> QED BY <1>7, <1>8, <1>9

\* The session lock changes nothing of it.
LEMMA LockFollows ==
  ASSUME EInv, alone, alone', NEW c \in Commands, Follows(c), StartSession(c)
  PROVE  Follows(c)'
<1>1. FileChosen' /\ SessionMeant' BY FilesFollow DEF StartSession, Follows, files, told
<1>2. UNCHANGED <<config, chosen, profiled>> BY DEF StartSession, files, told
<1>3. CASE config.legacy \/ session.on
  <2>1. pc'[c] = "idle" BY <1>3, StepLeaves DEF StartSession
  <2> QED BY <1>1, <2>1, NothingHeld DEF Follows
<1>4. CASE ~(config.legacy \/ session.on)
  <2>1. pc[c] = "lock" /\ pc'[c] = "resolve" /\ job' = job BY <1>4, StepLeaves DEF StartSession
  <2>2. AtLock(c)' BY <1>2, <1>4, <2>1 DEF Follows, Meant, AtLock
  <2> QED BY <1>1, <2>1, <2>2 DEF Follows, Meant, AtChoose, AtMerge, AtSave, AtWorker, AtAdopt
<1> QED BY <1>3, <1>4

\* Resolving the ids again selects nothing more.
LEMMA ResolveFollows ==
  ASSUME EInv, alone, alone', NEW c \in Commands, Follows(c), Resolve(c)
  PROVE  Follows(c)'
<1> DEFINE k == job[c].cfg
<1> DEFINE matchers(a) == IF k.selected # {} THEN k.selected ELSE {a.at[i] : i \in k.ids}
<1> DEFINE resolved(a) == StartWith(a, matchers(a), k.ids)
<1> DEFINE started(a) ==
      IF k.ids = {} THEN k
      ELSE [k EXCEPT !.selected = resolved(a).matchers, !.ids = resolved(a).ids]
<1>1. PICK audio \in Audios :
        /\ Goto(c, "resolve", "worker")
        /\ k.ids # {} => CanStart(audio, matchers(audio), k.ids)
        /\ Remember(c, [job[c] EXCEPT !.cfg =
             [Defaults EXCEPT !.selected = started(audio).selected, !.ids = started(audio).ids]])
        /\ config' = Persisted(started(audio))
        /\ chosen' = Followed(job[c].meant)
  BY DEF Resolve
<1>2. session' = session /\ profiled' = profiled BY DEF Resolve
<1>3. pc[c] = "resolve" /\ pc'[c] = "worker" BY <1>1, StepLeaves
<1>4. k.selected \subseteq job[c].meant /\ k.profile.matchers \subseteq profiled /\ Selected(k)
  BY <1>3 DEF Follows, Meant, AtLock
<1>5. {"legacy", "selected", "ids", "profile"} \subseteq DOMAIN k BY StepLeaves DEF Configs
<1> HIDE DEF k
<1>6. /\ started(audio).selected \subseteq k.selected /\ started(audio).profile = k.profile
      /\ DOMAIN started(audio) = DOMAIN k
  <2>1. CASE k.ids = {} BY <2>1
  <2>2. CASE k.ids # {}
    <3>1. matchers(audio) = k.selected BY <2>2, <1>4 DEF Selected
    <3> HIDE DEF matchers
    <3>2. k.ids \subseteq Matching(audio, matchers(audio)) BY <1>1, <2>2 DEF CanStart
    <3>3. resolved(audio).matchers \subseteq matchers(audio) BY <3>2, StartChosen
    <3> HIDE DEF resolved
    <3> QED BY <1>5, <2>2, <3>1, <3>3
  <2> QED BY <2>1, <2>2
<1> HIDE DEF started
<1>7. config'.selected = started(audio).selected /\ config'.profile = k.profile
  BY <1>1, <1>5, <1>6 DEF Persisted, Loaded
<1>8. chosen' = job[c].meant BY <1>1 DEF Followed
<1>9. FileChosen' /\ SessionMeant'
  BY <1>2, <1>4, <1>6, <1>7, <1>8 DEF Follows, FileChosen, SessionMeant
<1>10. job'[c].cfg.selected = started(audio).selected /\ job'[c].meant = job[c].meant
  <2> DEFINE n == [Defaults EXCEPT !.selected = started(audio).selected,
                                   !.ids = started(audio).ids]
  <2>1. n.selected = started(audio).selected BY DEF Defaults
  <2> HIDE DEF n
  <2>2. Remember(c, [job[c] EXCEPT !.cfg = n]) BY <1>1 DEF n
  <2>3. job'[c] = [job[c] EXCEPT !.cfg = n] BY <2>2, StepLeaves
  <2>4. {"cfg", "meant"} \subseteq DOMAIN job[c] BY StepLeaves
  <2> QED BY <2>1, <2>3, <2>4
<1>11. AtWorker(c)' BY <1>4, <1>6, <1>10 DEF AtWorker
<1> QED BY <1>3, <1>9, <1>11 DEF Follows, Meant, AtChoose, AtMerge, AtSave, AtLock, AtAdopt

\* The Session carries what its Start meant.
LEMMA WorkFollows ==
  ASSUME EInv, alone, alone', NEW c \in Commands, Follows(c), Work(c)
  PROVE  Follows(c)'
<1> DEFINE k == job[c].cfg
<1> DEFINE present(a) == {i \in k.ids : a.at[i] # NoSource}
<1> DEFINE resolved(a) == StartWith(a, k.selected, present(a))
<1>1. PICK audio \in Audios :
        /\ CanStart(audio, k.selected, present(audio))
        /\ session' = [on |-> TRUE, matchers |-> resolved(audio).matchers,
                       sources |-> {audio.at[i] : i \in resolved(audio).ids},
                       named |-> job[c].want \cap Mics, meant |-> job[c].meant]
  BY DEF Work
<1>2. UNCHANGED <<config, chosen, profiled>> /\ pc[c] = "worker" /\ Ends(c)
  BY DEF Work, files, told
<1>3. k.selected \subseteq job[c].meant BY <1>2 DEF Follows, Meant, AtWorker
<1> HIDE DEF k, present
<1>4. present(audio) \subseteq Matching(audio, k.selected) BY <1>1 DEF CanStart
<1>5. /\ resolved(audio).matchers \subseteq k.selected
      /\ \A i \in resolved(audio).ids : audio.at[i] \in k.selected
  BY <1>4, StartChosen
<1> HIDE DEF resolved
<1>6. SessionMeant' BY <1>1, <1>3, <1>5 DEF SessionMeant
<1>7. FileChosen' BY <1>2 DEF Follows, FileChosen
<1>8. pc'[c] = "idle" BY <1>2, StepLeaves
<1> QED BY <1>6, <1>7, <1>8, NothingHeld DEF Follows

\* The steps of a migration
LEMMA MigrationFollows ==
  ASSUME EInv, KeysNoted, alone, alone', NEW c \in Commands, Follows(c),
         \/ CheckPlan(c) \/ PrepareBackup(c) \/ Convert(c) \/ Import(c) \/ Adopt(c)
         \/ ConversionFails(c) \/ Verify(c) \/ Unlink(c) \/ Restore(c)
  PROVE  Follows(c)'
<1> USE DEF files, told
<1>0. FileChosen /\ SessionMeant BY DEF Follows
<1>1. CASE CheckPlan(c)
  <2>1. pc'[c] \in {"idle", "backup"} BY <1>1, StepLeaves DEF CheckPlan
  <2> QED BY <1>0, <1>1, <2>1, NothingHeld, FilesFollow DEF CheckPlan, Follows
<1>2. CASE PrepareBackup(c)
  <2>1. pc'[c] = "convert" BY <1>2, StepLeaves DEF PrepareBackup
  <2> QED BY <1>0, <1>2, <2>1, NothingHeld, FilesFollow DEF PrepareBackup, Follows
<1>3. CASE Convert(c)
  <2>1. pc'[c] = "verify" BY <1>3, StepLeaves DEF Convert
  <2>2. config'.selected = {} /\ config'.profile.matchers = {}
    BY <1>3 DEF Convert, Converted, Defaults, NoProfile
  <2>3. FileChosen' /\ SessionMeant'
    BY <1>0, <1>3, <2>2 DEF Convert, FileChosen, SessionMeant
  <2> QED BY <2>1, <2>3, NothingHeld DEF Follows
<1>4. CASE Import(c)
  <2>1. pc[c] = "convert" /\ pc'[c] = "merge" /\ job'[c] = [job[c] EXCEPT !.keyLeft = TRUE]
    BY <1>4, StepLeaves DEF Import
  <2>2. job[c].op = "migrate" BY <2>1 DEF KeysNoted, KeyNoted
  <2>3. job'[c].op = "migrate" BY <2>1, <2>2, StepLeaves
  <2>4. AtMerge(c)' BY <2>3 DEF AtMerge, Selecting
  <2>5. FileChosen' /\ SessionMeant' BY <1>0, <1>4, FilesFollow DEF Import
  <2> QED BY <2>1, <2>4, <2>5 DEF Follows, Meant, AtChoose, AtSave, AtLock, AtWorker, AtAdopt
<1>5. CASE Adopt(c)
  <2>1. pc[c] = "adopt" /\ pc'[c] \in {"verify", "restore"} BY <1>5, StepLeaves DEF Adopt
  <2>2. job[c].cfg.profile.matchers \subseteq profiled BY <2>1 DEF Follows, Meant, AtAdopt
  <2>3. {"legacy", "selected", "ids", "profile"} \subseteq DOMAIN job[c].cfg
    BY StepLeaves DEF Configs
  <2>4. config' = config \/ config' = Persisted([job[c].cfg EXCEPT !.selected = {}])
    BY <1>5 DEF Adopt
  <2>5. \/ config' = config
        \/ config'.selected = {} /\ config'.profile = job[c].cfg.profile
    BY <2>3, <2>4 DEF Persisted, Loaded
  <2>6. UNCHANGED <<session, chosen, profiled>> BY <1>5 DEF Adopt
  <2>7. FileChosen' /\ SessionMeant' BY <1>0, <2>2, <2>5, <2>6 DEF FileChosen, SessionMeant
  <2> QED BY <2>1, <2>7, NothingHeld DEF Follows
<1>6. CASE ConversionFails(c)
  <2>1. pc'[c] = "restore" BY <1>6 DEF ConversionFails, EInv, Shape
  <2> QED BY <1>0, <1>6, <2>1, NothingHeld, FilesFollow DEF ConversionFails, Follows
<1>7. CASE Verify(c)
  <2>1. pc'[c] \in {"unlink", "restore"} BY <1>7, StepLeaves DEF Verify
  <2> QED BY <1>0, <1>7, <2>1, NothingHeld, FilesFollow DEF Verify, Follows
<1>8. CASE Unlink(c)
  <2>1. pc'[c] = "idle" BY <1>8, StepLeaves DEF Unlink
  <2> QED BY <1>0, <1>8, <2>1, NothingHeld, FilesFollow DEF Unlink, Follows
<1>9. CASE Restore(c)
  <2>1. pc'[c] = "idle" BY <1>9, StepLeaves DEF Restore
  <2>2. config' = config \/ config' = LegacyFile BY <1>9 DEF Restore
  <2>3. LegacyFile.selected = {} /\ LegacyFile.profile.matchers = {}
    BY DEF LegacyFile, Defaults, NoProfile
  <2>4. UNCHANGED <<session, chosen, profiled>> BY <1>9 DEF Restore
  <2>5. FileChosen' /\ SessionMeant' BY <1>0, <2>2, <2>3, <2>4 DEF FileChosen, SessionMeant
  <2> QED BY <2>1, <2>5, NothingHeld DEF Follows
<1> QED BY <1>1, <1>2, <1>3, <1>4, <1>5, <1>6, <1>7, <1>8, <1>9

\* The other steps of a command end it or only look.
LEMMA RestFollows ==
  ASSUME EInv, alone, alone', NEW c \in Commands, Follows(c),
         Refuse(c) \/ Inspect(c) \/ Record(c) \/ Clear(c) \/ Crash(c)
  PROVE  Follows(c)'
<1> USE DEF files, told
<1>0. FileChosen /\ SessionMeant BY DEF Follows
<1>1. pc'[c] \in {"idle", "record"}
  <2>1. Ends(c) \/ Goto(c, "observe", "record") BY DEF Refuse, Inspect, Record, Clear, Crash
  <2> QED BY <2>1, StepLeaves
<1>2. UNCHANGED <<config, session, chosen, profiled>>
  BY DEF Refuse, Inspect, Record, Clear, Crash
<1> QED BY <1>0, <1>1, <1>2, NothingHeld, FilesFollow DEF Follows

\* A step of one command is taken alone, or another command is under way and
\* from then on nobody follows what the user means.
LEMMA StepAlone ==
  ASSUME EInv, NEW c \in Commands, Step(c), alone => Solo, alone'
  PROVE  /\ alone
         /\ \A d \in Commands \ {c} : pc[d] = "idle" /\ pc'[d] = "idle"
<1> USE DEF Goto, Ends
<1>s. Shape BY DEF EInv
<1>1. CASE Begin(c) BY <1>1, <1>s DEF Begin, Shape
<1>2. CASE ~Begin(c)
  <2>1. alone' = alone /\ pc[c] # "idle" /\ \A d \in Commands \ {c} : pc'[d] = pc[d]
    <3> USE <1>s DEF Shape
    <3>1. CASE ChooseSources(c) \/ Merge(c) \/ Save(c) \/ Refuse(c)
      BY <3>1 DEF ChooseSources, Merge, Save, Refuse
    <3>2. CASE StartSession(c) \/ Resolve(c) \/ Work(c) BY <3>2 DEF StartSession, Resolve, Work
    <3>3. CASE Inspect(c) \/ Record(c) \/ Clear(c) BY <3>3 DEF Inspect, Record, Clear
    <3>4. CASE CheckPlan(c) \/ PrepareBackup(c) \/ Convert(c) \/ Import(c) \/ Adopt(c)
      BY <3>4 DEF CheckPlan, PrepareBackup, Convert, Import, Adopt
    <3>5. CASE ConversionFails(c) \/ Verify(c) \/ Unlink(c) \/ Restore(c) \/ Crash(c)
      BY <3>5 DEF ConversionFails, Verify, Unlink, Restore, Crash
    <3> QED BY <1>2, <3>1, <3>2, <3>3, <3>4, <3>5 DEF Step
  <2>2. alone /\ Solo BY <2>1
  <2> QED BY <2>1, <2>2 DEF Solo
<1> QED BY <1>1, <1>2

\* Every step follows what the user means, as long as commands do not overlap.
LEMMA AloneStep ==
  ASSUME EInv, KeysNoted, AInv, [Next]_vars
  PROVE  AInv'
<1>0. FileForm' BY FileFormStep DEF AInv
<1> DEFINE Rest == Solo /\ FileChosen /\ SessionMeant /\ \A c \in Commands : Meant(c)
<1>1. ASSUME NEW c \in Commands, Step(c), alone' PROVE Rest'
  <2>1. alone /\ \A d \in Commands \ {c} : pc[d] = "idle" /\ pc'[d] = "idle"
    BY <1>1, StepAlone DEF AInv
  <2>2. Follows(c) /\ FileForm BY <2>1 DEF AInv, Follows
  <2>3. Follows(c)'
    <3>1. CASE Begin(c) BY <3>1, <2>1, <2>2, <1>1, BeginFollows
    <3>2. CASE ChooseSources(c) BY <3>2, <2>1, <2>2, <1>1, ChooseFollows
    <3>3. CASE Merge(c) BY <3>3, <2>1, <2>2, <1>1, MergeFollows
    <3>4. CASE Save(c) BY <3>4, <2>1, <2>2, <1>1, SaveFollows
    <3>5. CASE StartSession(c) BY <3>5, <2>1, <2>2, <1>1, LockFollows
    <3>6. CASE Resolve(c) BY <3>6, <2>1, <2>2, <1>1, ResolveFollows
    <3>7. CASE Work(c) BY <3>7, <2>1, <2>2, <1>1, WorkFollows
    <3>8. CASE \/ CheckPlan(c) \/ PrepareBackup(c) \/ Convert(c) \/ Import(c) \/ Adopt(c)
               \/ ConversionFails(c) \/ Verify(c) \/ Unlink(c) \/ Restore(c)
      BY <3>8, <2>1, <2>2, <1>1, MigrationFollows
    <3>9. CASE Refuse(c) \/ Inspect(c) \/ Record(c) \/ Clear(c) \/ Crash(c)
      BY <3>9, <2>1, <2>2, <1>1, RestFollows
    <3> QED BY <1>1, <3>1, <3>2, <3>3, <3>4, <3>5, <3>6, <3>7, <3>8, <3>9 DEF Step
  <2>4. \A d \in Commands \ {c} : Meant(d)' BY <2>1, NothingHeld
  <2>5. Solo' BY <2>1 DEF Solo
  <2> QED BY <2>3, <2>4, <2>5 DEF Follows
<1>2. CASE Reconcile \/ StopSession
  <2>1. UNCHANGED <<config, lock, pc, job, alone, chosen, profiled>>
    BY <1>2 DEF Reconcile, StopSession, files, told
  <2>2. ASSUME SessionMeant PROVE SessionMeant'
    <3>1. CASE Reconcile
      <4>1. PICK app \in session.matchers \cap Apps :
              session' = [session EXCEPT !.sources = session.sources \cup {app}]
        BY <3>1 DEF Reconcile
      <4>2. /\ session'.sources = session.sources \cup {app}
            /\ session'.matchers = session.matchers /\ session'.meant = session.meant
        BY <4>1 DEF EInv, SessionHasFields
      <4> QED BY <4>2, <2>2 DEF SessionMeant
    <3>2. CASE StopSession BY <3>2 DEF StopSession, NoSession, SessionMeant
    <3> QED BY <1>2, <3>1, <3>2
  <2>3. ASSUME alone' PROVE Rest'
    <3>1. Rest BY <2>1, <2>3 DEF AInv
    <3>2. FileChosen' /\ Solo' BY <2>1, <3>1 DEF FileChosen, Solo
    <3>3. \A c \in Commands : Meant(c)'
      BY <2>1, <3>1 DEF Meant, AtChoose, AtMerge, AtSave, AtLock, AtWorker, AtAdopt
    <3> QED BY <2>2, <3>1, <3>2, <3>3
  <2> QED BY <1>0, <2>3 DEF AInv
<1>3. CASE UNCHANGED vars
  <2>1. UNCHANGED <<config, session, pc, job, alone, chosen, profiled>>
    BY <1>3 DEF vars, files, told
  <2> QED BY <1>0, <2>1 DEF AInv, Solo, FileChosen, SessionMeant, Meant, AtChoose, AtMerge, AtSave,
                             AtLock, AtWorker, AtAdopt
<1> QED BY <1>0, <1>1, <1>2, <1>3 DEF Next, AInv

\* A Session carries only what the user named for it or had last chosen,
\* whatever is discovered and whichever Sources come and go, as long as no two
\* commands have overlapped (resolve_choice_ids, resolve_session_source_ids).
THEOREM SessionsAreChosen == Spec => []OnlyChosen
<1>1. Init => KeysNoted BY DEF Init, KeysNoted, KeyNoted, NoJob
<1>2. Init => AInv
  <2> SUFFICES ASSUME Init PROVE AInv OBVIOUS
  <2>1. \A c \in Commands : pc[c] = "idle" BY DEF Init
  <2>d. config \in {Defaults, LegacyFile} BY DEF Init
  <2>2. FileForm
    <3>1. ~Defaults.legacy BY DEF Defaults
    <3> QED BY <2>d, <3>1, DefaultsTyped, LegacyIsLegacy DEF FileForm
  <2>3. config.selected = {} /\ config.profile.matchers = {}
    <3>1. Defaults.selected = {} /\ Defaults.profile = NoProfile BY DEF Defaults
    <3>2. LegacyFile.selected = {} /\ LegacyFile.profile = NoProfile BY DEF LegacyFile, Defaults
    <3> QED BY <2>d, <3>1, <3>2 DEF NoProfile
  <2>4. FileChosen /\ SessionMeant BY <2>3 DEF Init, FileChosen, SessionMeant, NoSession
  <2>5. Solo BY <2>1 DEF Solo
  <2>6. \A c \in Commands : Meant(c)
    BY <2>1 DEF Meant, AtChoose, AtMerge, AtSave, AtLock, AtWorker, AtAdopt
  <2> QED BY <2>2, <2>4, <2>5, <2>6 DEF AInv
<1>3. EInv /\ KeysNoted /\ [Next]_vars => KeysNoted' BY KeysNotedStep
<1>4. EInv /\ KeysNoted /\ AInv /\ [Next]_vars => AInv' BY AloneStep
<1>5. AInv => OnlyChosen BY DEF AInv, SessionMeant, OnlyChosen
<1> QED BY <1>1, <1>2, <1>3, <1>4, <1>5, ExplicitAlways, PTL DEF Spec

-----------------------------------------------------------------------------
(* Types, and the history that observations and clearings make             *)

\* A discovery finds finitely many applications.
LEMMA PlayingIsFinite ==
  ASSUME NEW audio \in Audios
  PROVE  IsFiniteSet(Apps \cap Live(audio))
<1> DEFINE f == [s \in Slots |-> audio.at[s]]
<1> DEFINE T == {audio.at[s] : s \in Slots}
<1>1. f \in Surjection(Slots, T) BY DEF Surjection
<1>2. IsFiniteSet(T) BY <1>1, FS_Surjection
<1>3. Apps \cap Live(audio) \subseteq T
  <2>1. \A d \in Devices : audio.at[d] \in {d, NoSource} /\ d \notin Apps BY DEF Audios
  <2>2. NoSource \notin Apps BY DEF AllChoices
  <2> QED BY <2>1, <2>2 DEF Live, Ids
<1> HIDE DEF T
<1> QED BY <1>2, <1>3, FS_Subset

\* A history as the store writes it: bounded, and no application twice.
Proper(hist) == hist \in Histories /\ IsInjective(hist.recent)

\* What makes one
LEMMA ListsAreHistories ==
  ASSUME NEW seq \in Sequences(Apps, MaxRecent), IsInjective(seq), NEW ignored \in SUBSET Apps
  PROVE  Proper([recent |-> seq, ignored |-> ignored])
  BY DEF Proper, Histories

\* An observation lists what plays and was not cleared, then what it knew.
LEMMA ObservedFacts ==
  ASSUME NEW hist, Proper(hist), NEW live \in SUBSET Apps, IsFiniteSet(live)
  PROVE  /\ Proper(Observed(hist, live))
         /\ Observed(hist, live).ignored = hist.ignored \cap live
         /\ ToSet(Observed(hist, live).recent) \subseteq
              (live \ hist.ignored) \cup ToSet(hist.recent)
<1> DEFINE ignored == hist.ignored \cap live
<1> DEFINE seen == live \ ignored
<1> DEFINE new == SetToSeq(seen)
<1> DEFINE older == Without(hist.recent, seen)
<1>m. MaxRecent \in Nat OBVIOUS
<1>1. /\ hist.recent \in Sequences(Apps, MaxRecent) /\ IsInjective(hist.recent)
      /\ hist.ignored \in SUBSET Apps
  BY DEF Proper, Histories
<1>2. Observed(hist, live) = [recent |-> Truncated(new \o older), ignored |-> ignored]
  BY DEF Observed
<1>3. seen \in SUBSET live /\ IsFiniteSet(seen) BY FS_Subset
<1>4. seen = live \ hist.ignored OBVIOUS
<1>5. ignored \in SUBSET Apps /\ ignored = hist.ignored \cap live BY <1>1
<1> HIDE DEF ignored, seen
<1> DEFINE a == Cardinality(seen)
<1>6. a \in Nat /\ new \in Sequences(seen, a) /\ IsInjective(new) /\ ToSet(new) = seen
  BY <1>3, SetToSeqFacts
<1>7. /\ older \in Sequences(Apps, MaxRecent) /\ IsInjective(older)
      /\ ToSet(older) \subseteq ToSet(hist.recent) \ seen
  BY <1>m, <1>1, WithoutFacts
<1> HIDE DEF new, older, a
<1>8. seen \in SUBSET Apps BY <1>3
<1>9. new \in Sequences(Apps, a) BY <1>6, <1>8, WiderSequences
<1>10. ToSet(new) \cap ToSet(older) = {} BY <1>6, <1>7
<1>11. /\ new \o older \in Sequences(Apps, a + MaxRecent) /\ IsInjective(new \o older)
       /\ ToSet(new \o older) \subseteq ToSet(new) \cup ToSet(older)
  BY <1>m, <1>6, <1>7, <1>9, <1>10, JoinedFacts
<1>12. a + MaxRecent \in Nat BY <1>m, <1>6
<1>13. /\ Truncated(new \o older) \in Sequences(Apps, MaxRecent)
       /\ ToSet(Truncated(new \o older)) \subseteq ToSet(new \o older)
       /\ IsInjective(Truncated(new \o older))
  BY <1>11, <1>12, TruncatedFacts
<1>14. Proper(Observed(hist, live)) BY <1>2, <1>5, <1>13, ListsAreHistories
<1> QED BY <1>2, <1>4, <1>5, <1>6, <1>7, <1>11, <1>13, <1>14

\* Clearing lists nothing and ignores what plays, as far as it fits.
LEMMA ClearedFacts ==
  ASSUME NEW live \in SUBSET Apps, IsFiniteSet(live)
  PROVE  /\ Proper([recent |-> <<>>, ignored |-> ToSet(Truncated(SetToSeq(live)))])
         /\ Cardinality(live) <= MaxRecent => ToSet(Truncated(SetToSeq(live))) = live
<1> DEFINE s == SetToSeq(live)
<1> DEFINE a == Cardinality(live)
<1>1. a \in Nat /\ s \in Sequences(live, a) /\ ToSet(s) = live BY SetToSeqFacts
<1> HIDE DEF s, a
<1>2. /\ ToSet(Truncated(s)) \subseteq ToSet(s)
      /\ a <= MaxRecent => Truncated(s) = s
  BY <1>1, TruncatedFacts
<1>3. Proper([recent |-> <<>>, ignored |-> ToSet(Truncated(s))])
  <2>1. <<>> \in Sequences(Apps, MaxRecent) /\ IsInjective(<<>>)
    <3>1. <<>> \in [1 .. 0 -> Apps] /\ 0 \in 0 .. MaxRecent OBVIOUS
    <3> QED BY <3>1 DEF IsInjective, Sequences
  <2>2. ToSet(Truncated(s)) \in SUBSET Apps BY <1>1, <1>2
  <2> QED BY <2>1, <2>2, ListsAreHistories
<1> QED BY <1>1, <1>2, <1>3 DEF s, a

\* The fields of a command's memory that Explicit says nothing about
Typed(j) ==
  /\ j.op \in Ops /\ j.choice \in Migrations /\ j.ready \in BOOLEAN
  /\ j.live \in SUBSET Apps /\ IsFiniteSet(j.live) /\ Proper(j.hist)
  /\ j.meant \in SUBSET AllChoices
  /\ j.keyLeft \in BOOLEAN /\ j.committed \in BOOLEAN

\* Both say together that a command's memory is of its type.
LEMMA JobIsTyped ==
  ASSUME NEW j, Explicit(j), Typed(j)
  PROVE  j \in Job
<1>1. /\ DOMAIN j = {"op", "want", "choice", "cfg", "ready", "live", "hist", "meant", "keyLeft",
                     "committed"}
      /\ j = [x \in DOMAIN j |-> j[x]]
  BY DEF Explicit, IsJob, NoJob
<1>2. j.cfg \in Configs /\ j.want \in SUBSET AllChoices /\ j.hist \in Histories
  BY DEF Explicit, Typed, Proper
<1>3. j = [op |-> j.op, want |-> j.want, choice |-> j.choice, cfg |-> j.cfg, ready |-> j.ready,
           live |-> j.live, hist |-> j.hist, meant |-> j.meant, keyLeft |-> j.keyLeft,
           committed |-> j.committed]
  BY <1>1
<1>4. /\ j.op \in Ops /\ j.choice \in Migrations /\ j.ready \in BOOLEAN
      /\ j.live \in SUBSET Apps /\ j.meant \in SUBSET AllChoices
      /\ j.keyLeft \in BOOLEAN /\ j.committed \in BOOLEAN
  BY DEF Typed
<1> HIDE <1>1
<1> QED BY <1>2, <1>3, <1>4 DEF Job

\* An idle command holds nothing.
LEMMA NoJobTyped == Typed(NoJob)
<1>1. Proper(NoHistory)
  <2>1. <<>> \in [1 .. 0 -> Apps] /\ 0 \in 0 .. MaxRecent OBVIOUS
  <2>2. <<>> \in Sequences(Apps, MaxRecent) /\ IsInjective(<<>>)
    BY <2>1 DEF IsInjective, Sequences
  <2> QED BY <2>2, ListsAreHistories DEF NoHistory
<1> QED BY <1>1, FS_EmptySet DEF Typed, NoJob, Ops, Migrations

JobsTyped == \A c \in Commands : Typed(job[c])

TInv == TypeOK /\ JobsTyped

\* Every step keeps them of their types.
LEMMA JobsTypedStep ==
  ASSUME EInv, TypeOK, JobsTyped, [Next]_vars
  PROVE  JobsTyped'
<1>1. ASSUME NEW c \in Commands, Step(c) PROVE JobsTyped'
  <2>j. Typed(job[c]) BY DEF JobsTyped
  <2>n. Typed(NoJob) BY NoJobTyped
  <2>d. DOMAIN job[c] = DOMAIN NoJob BY DEF EInv, JobsExplicit, Explicit, IsJob
  <2>f. DOMAIN job[c] = {"op", "want", "choice", "cfg", "ready", "live", "hist", "meant", "keyLeft",
                         "committed"}
    BY <2>d DEF NoJob
  <2>k. \A k : Typed([job[c] EXCEPT !.cfg = k])
    <3> SUFFICES ASSUME NEW k PROVE Typed([job[c] EXCEPT !.cfg = k]) OBVIOUS
    <3> QED BY <2>j, <2>f DEF Typed
  <2>s. Shape BY DEF EInv
  <2>e. Ends(c) => job' = [job EXCEPT ![c] = NoJob] BY DEF Ends
  <2>o. \A d \in Commands \ {c} : job'[d] = job[d]
    <3>1. (\E j : job' = [job EXCEPT ![c] = j]) \/ job' = job
      <4> USE DEF Remember, Ends
      <4>1. CASE Begin(c) BY <4>1 DEF Begin
      <4>2. CASE ChooseSources(c) \/ Merge(c) \/ Save(c) \/ Refuse(c)
        BY <4>2 DEF ChooseSources, Merge, Save, Refuse
      <4>3. CASE StartSession(c) \/ Resolve(c) \/ Work(c) BY <4>3 DEF StartSession, Resolve, Work
      <4>4. CASE Inspect(c) \/ Record(c) \/ Clear(c) BY <4>4 DEF Inspect, Record, Clear
      <4>5. CASE CheckPlan(c) \/ PrepareBackup(c) \/ Convert(c) \/ Import(c) \/ Adopt(c)
        BY <4>5 DEF CheckPlan, PrepareBackup, Convert, Import, Adopt
      <4>6. CASE ConversionFails(c) \/ Verify(c) \/ Unlink(c) \/ Restore(c) \/ Crash(c)
        BY <4>6 DEF ConversionFails, Verify, Unlink, Restore, Crash
      <4> QED BY <1>1, <4>1, <4>2, <4>3, <4>4, <4>5, <4>6 DEF Step
    <3> QED BY <2>s, <3>1 DEF Shape
  <2>r. \A j : Remember(c, j) => job'[c] = j BY <2>s DEF Remember, Shape
  <2>x. Ends(c) => Typed(job'[c]) BY <2>e, <2>n, <2>s DEF Shape
  <2>u. job' = job => Typed(job'[c]) BY <2>j
  <2>t. Typed(job'[c])
    <3>1. CASE Begin(c)
      <4>1. PICK op \in Ops, want \in Wants, choice \in Migrations :
              Remember(c, [NoJob EXCEPT !.op = op, !.want = want, !.choice = choice,
                 !.meant = Followed(CASE op \in {"loadProfile", "quickStart"} -> profiled
                                      [] op = "start" /\ want = {} -> chosen
                                      [] OTHER -> want)])
        BY <3>1 DEF Begin
      <4> DEFINE m == Followed(CASE op \in {"loadProfile", "quickStart"} -> profiled
                                 [] op = "start" /\ want = {} -> chosen
                                 [] OTHER -> want)
      <4>2. m \in SUBSET AllChoices BY DEF Followed, TypeOK
      <4> HIDE DEF m
      <4>3. Remember(c, [NoJob EXCEPT !.op = op, !.want = want, !.choice = choice, !.meant = m])
        BY <4>1 DEF m
      <4>4. Typed([NoJob EXCEPT !.op = op, !.want = want, !.choice = choice, !.meant = m])
        BY <2>n, <2>d, <2>f, <4>2 DEF Typed
      <4> QED BY <2>r, <4>3, <4>4
    <3>2. CASE ChooseSources(c)
      <4>1. PICK audio \in Audios :
              Remember(c, [job[c] EXCEPT !.cfg = Chosen(job[c], audio),
                !.ready = job[c].op = "quickStart" /\ Quick(audio, config.profile)])
        BY <3>2 DEF ChooseSources
      <4> DEFINE b == job[c].op = "quickStart" /\ Quick(audio, config.profile)
      <4> DEFINE k == Chosen(job[c], audio)
      <4>2. b \in BOOLEAN OBVIOUS
      <4> HIDE DEF b, k
      <4>3. Remember(c, [job[c] EXCEPT !.cfg = k, !.ready = b]) BY <4>1 DEF b, k
      <4>4. Typed([job[c] EXCEPT !.cfg = k, !.ready = b]) BY <2>j, <2>f, <4>2 DEF Typed
      <4> QED BY <2>r, <4>3, <4>4
    <3>3. CASE Merge(c)
      <4>1. PICK k : Remember(c, [job[c] EXCEPT !.cfg = k, !.ready = FALSE]) BY <3>3 DEF Merge
      <4>2. Typed([job[c] EXCEPT !.cfg = k, !.ready = FALSE]) BY <2>j, <2>f DEF Typed
      <4> QED BY <2>r, <4>1, <4>2
    <3>4. CASE Save(c) BY <3>4, <2>x, <2>u DEF Save
    <3>5. CASE Refuse(c) \/ Record(c) \/ Clear(c) BY <3>5, <2>x DEF Refuse, Record, Clear
    <3>6. CASE StartSession(c) BY <3>6, <2>x, <2>u DEF StartSession
    <3>7. CASE Resolve(c)
      <4>1. PICK k : Remember(c, [job[c] EXCEPT !.cfg = k]) BY <3>7 DEF Resolve
      <4> QED BY <2>r, <2>k, <4>1
    <3>8. CASE Work(c) BY <3>8, <2>x DEF Work
    <3>9. CASE Inspect(c)
      <4>1. PICK l \in SUBSET Apps :
              IsFiniteSet(l) /\ Remember(c, [job[c] EXCEPT !.live = l, !.hist = history])
        <5>1. PICK audio \in Audios :
                Remember(c, [job[c] EXCEPT !.live = Apps \cap Live(audio), !.hist = history])
          BY <3>9 DEF Inspect
        <5>2. Apps \cap Live(audio) \in SUBSET Apps OBVIOUS
        <5>3. IsFiniteSet(Apps \cap Live(audio)) BY PlayingIsFinite
        <5> QED BY <5>1, <5>2, <5>3
      <4>2. Proper(history) BY DEF TypeOK, Proper
      <4>3. Typed([job[c] EXCEPT !.live = l, !.hist = history]) BY <2>j, <2>f, <4>1, <4>2 DEF Typed
      <4> QED BY <2>r, <4>1, <4>3
    <3>10. CASE CheckPlan(c) \/ PrepareBackup(c) \/ Convert(c) \/ Verify(c)
      BY <3>10, <2>x, <2>u DEF CheckPlan, PrepareBackup, Convert, Verify
    <3>11. CASE Import(c)
      <4>1. Typed([job[c] EXCEPT !.keyLeft = TRUE]) BY <2>j, <2>f DEF Typed
      <4> QED BY <3>11, <2>r, <4>1 DEF Import
    <3>12. CASE Adopt(c)
      <4>1. Typed([job[c] EXCEPT !.committed = TRUE]) BY <2>j, <2>f DEF Typed
      <4> QED BY <3>12, <2>r, <4>1 DEF Adopt
    <3>13. CASE ConversionFails(c)
      <4>1. PICK left \in BOOLEAN :
              Remember(c, [job[c] EXCEPT !.keyLeft = left, !.committed = left])
        BY <3>13 DEF ConversionFails
      <4>2. Typed([job[c] EXCEPT !.keyLeft = left, !.committed = left])
        BY <2>j, <2>f DEF Typed
      <4> QED BY <2>r, <4>1, <4>2
    <3>14. CASE Unlink(c) \/ Restore(c) \/ Crash(c) BY <3>14, <2>x DEF Unlink, Restore, Crash
    <3> QED BY <1>1, <3>1, <3>2, <3>3, <3>4, <3>5, <3>6, <3>7, <3>8, <3>9, <3>10, <3>11, <3>12,
               <3>13, <3>14 DEF Step
  <2> QED BY <2>o, <2>t DEF JobsTyped
<1>2. CASE Reconcile \/ StopSession \/ UNCHANGED vars
  BY <1>2 DEF Reconcile, StopSession, vars, JobsTyped
<1> QED BY <1>1, <1>2 DEF Next

\* The history is written by an observation or cleared.
LEMMA HistoryStep ==
  ASSUME TInv, [Next]_vars
  PROVE  Proper(history)'
<1>0. Proper(history) BY DEF TInv, TypeOK, Proper
<1>u. history' = history => Proper(history)' BY <1>0 DEF Proper
<1> USE DEF files
<1>1. ASSUME NEW c \in Commands, Step(c) PROVE Proper(history)'
  <2>1. CASE Record(c)
    <3>1. Typed(job[c]) BY DEF TInv, JobsTyped
    <3>2. job[c].live \in SUBSET Apps /\ IsFiniteSet(job[c].live) /\ Proper(job[c].hist)
      BY <3>1 DEF Typed
    <3>3. history' = Observed(job[c].hist, job[c].live) BY <2>1 DEF Record
    <3>4. Proper(Observed(job[c].hist, job[c].live)) BY <3>2, ObservedFacts
    <3> QED BY <3>3, <3>4
  <2>2. CASE Clear(c)
    <3>1. PICK audio \in Audios :
            history' = [recent |-> <<>>,
                        ignored |-> ToSet(Truncated(SetToSeq(Apps \cap Live(audio))))]
      BY <2>2 DEF Clear
    <3>2. Apps \cap Live(audio) \in SUBSET Apps OBVIOUS
    <3>3. IsFiniteSet(Apps \cap Live(audio)) BY PlayingIsFinite
    <3> DEFINE l == Apps \cap Live(audio)
    <3> HIDE DEF l
    <3>4. Proper([recent |-> <<>>, ignored |-> ToSet(Truncated(SetToSeq(l)))])
      BY <3>2, <3>3, ClearedFacts DEF l
    <3> QED BY <3>1, <3>4 DEF l
  <2>3. CASE Begin(c) BY <2>3, <1>u DEF Begin
  <2>4. CASE ChooseSources(c) \/ Merge(c) \/ Save(c) \/ Refuse(c)
    BY <2>4, <1>u DEF ChooseSources, Merge, Save, Refuse
  <2>5. CASE StartSession(c) \/ Resolve(c) \/ Work(c) \/ Inspect(c)
    BY <2>5, <1>u DEF StartSession, Resolve, Work, Inspect
  <2>6. CASE CheckPlan(c) \/ PrepareBackup(c) \/ Convert(c) \/ Import(c) \/ Adopt(c)
    BY <2>6, <1>u DEF CheckPlan, PrepareBackup, Convert, Import, Adopt
  <2>7. CASE ConversionFails(c) \/ Verify(c) \/ Unlink(c) \/ Restore(c) \/ Crash(c)
    BY <2>7, <1>u DEF ConversionFails, Verify, Unlink, Restore, Crash
  <2> QED BY <1>1, <2>1, <2>2, <2>3, <2>4, <2>5, <2>6, <2>7 DEF Step
<1>2. CASE Reconcile \/ StopSession \/ UNCHANGED vars
  BY <1>2, <1>u DEF Reconcile, StopSession, vars
<1> QED BY <1>1, <1>2 DEF Next

\* A Session carries Sources, never the mark of an id that is gone.
LEMMA SessionStep ==
  ASSUME EInv, TInv, [Next]_vars
  PROVE  session' \in Sessions
<1>0. session \in Sessions BY DEF TInv, TypeOK
<1>1. ASSUME NEW c \in Commands, Step(c) PROVE session' \in Sessions
  <2>1. CASE Work(c)
    <3> DEFINE k == job[c].cfg
    <3> DEFINE present(a) == {i \in k.ids : a.at[i] # NoSource}
    <3> DEFINE resolved(a) == StartWith(a, k.selected, present(a))
    <3>1. PICK audio \in Audios :
            /\ CanStart(audio, k.selected, present(audio))
            /\ session' = [on |-> TRUE, matchers |-> resolved(audio).matchers,
                           sources |-> {audio.at[i] : i \in resolved(audio).ids},
                           named |-> job[c].want \cap Mics, meant |-> job[c].meant]
      BY <2>1 DEF Work
    <3>2. k.selected \in SUBSET AllChoices BY StepLeaves DEF Configs
    <3>3. job[c].meant \in SUBSET AllChoices BY DEF TInv, JobsTyped, Typed
    <3> HIDE DEF k, present
    <3>4. present(audio) \subseteq Matching(audio, k.selected) BY <3>1 DEF CanStart
    <3>5. /\ resolved(audio).matchers \subseteq k.selected
          /\ \A i \in resolved(audio).ids : audio.at[i] \in k.selected
      BY <3>4, StartChosen
    <3> HIDE DEF resolved
    <3>6. /\ resolved(audio).matchers \in SUBSET AllChoices
          /\ {audio.at[i] : i \in resolved(audio).ids} \in SUBSET AllChoices
      BY <3>2, <3>5
    <3> QED BY <3>1, <3>3, <3>6 DEF Sessions
  <2>3. CASE Begin(c) BY <1>0, <2>3 DEF Begin
  <2>4. CASE ChooseSources(c) \/ Merge(c) \/ Save(c) \/ Refuse(c)
    BY <1>0, <2>4 DEF ChooseSources, Merge, Save, Refuse
  <2>5. CASE StartSession(c) \/ Resolve(c) \/ Inspect(c) \/ Record(c) \/ Clear(c)
    BY <1>0, <2>5 DEF StartSession, Resolve, Inspect, Record, Clear
  <2>6. CASE CheckPlan(c) \/ PrepareBackup(c) \/ Convert(c) \/ Import(c) \/ Adopt(c)
    BY <1>0, <2>6 DEF CheckPlan, PrepareBackup, Convert, Import, Adopt
  <2>7. CASE ConversionFails(c) \/ Verify(c) \/ Unlink(c) \/ Restore(c) \/ Crash(c)
    BY <1>0, <2>7 DEF ConversionFails, Verify, Unlink, Restore, Crash
  <2> QED BY <1>1, <2>1, <2>3, <2>4, <2>5, <2>6, <2>7 DEF Step
<1>2. CASE Reconcile
  <2>1. PICK app \in session.matchers \cap Apps :
          session' = [session EXCEPT !.sources = session.sources \cup {app}]
    BY <1>2 DEF Reconcile
  <2>2. session.sources \cup {app} \in SUBSET AllChoices BY <1>0, <2>1 DEF Sessions, AllChoices
  <2> QED BY <1>0, <2>1, <2>2 DEF Sessions
<1>3. CASE StopSession BY <1>3 DEF StopSession, NoSession, Sessions
<1>4. CASE UNCHANGED vars BY <1>0, <1>4 DEF vars
<1> QED BY <1>1, <1>2, <1>3, <1>4 DEF Next

\* Where the commands are, who holds the lock, and how many commands there were
Places ==
  /\ lock \in Commands \cup {NoOne} /\ pc \in [Commands -> PCs]
  /\ begun \in 0 .. MaxCommands /\ alone \in BOOLEAN

\* Every step leads to a place that there is.
LEMMA PlacesStep ==
  ASSUME Places, [Next]_vars
  PROVE  Places'
<1> USE DEF Places, Goto, Ends
<1>p. \A p \in PCs, c \in Commands : [pc EXCEPT ![c] = p] \in [Commands -> PCs] OBVIOUS
<1>i. {"idle", "choose", "merge", "save", "lock", "resolve", "worker", "observe", "record",
       "check", "backup", "convert", "adopt", "verify", "unlink", "restore"} \subseteq PCs
  BY DEF PCs
<1>1. ASSUME NEW c \in Commands, Step(c) PROVE Places'
  <2>1. CASE Begin(c)
    <3>1. PICK op \in Ops, want \in Wants : pc' = [pc EXCEPT ![c] = FirstStep(op, want)]
      BY <2>1 DEF Begin
    <3>2. FirstStep(op, want) \in PCs BY <1>i DEF FirstStep, Ops
    <3>3. pc' \in [Commands -> PCs] BY <1>p, <3>1, <3>2
    <3>4. begun' \in 0 .. MaxCommands BY <2>1 DEF Begin
    <3>5. alone' \in BOOLEAN BY <2>1 DEF Begin
    <3>6. lock' = lock BY <2>1 DEF Begin
    <3> QED BY <3>3, <3>4, <3>5, <3>6
  <2>2. CASE Save(c) BY <1>i, <2>2 DEF Save
  <2>3. CASE ChooseSources(c) BY <1>i, <2>3 DEF ChooseSources
  <2>4. CASE Merge(c) BY <1>i, <2>4 DEF Merge
  <2>5. CASE Refuse(c) BY <1>i, <2>5 DEF Refuse
  <2>6. CASE StartSession(c) BY <1>i, <2>6 DEF StartSession
  <2>7. CASE Resolve(c)
    <3>1. Goto(c, "resolve", "worker") /\ UNCHANGED <<lock, begun, alone>> BY <2>7 DEF Resolve
    <3> QED BY <1>i, <3>1
  <2>8. CASE Work(c) BY <1>i, <2>8 DEF Work
  <2>9. CASE Inspect(c) BY <1>i, <2>9 DEF Inspect
  <2>10. CASE Record(c) BY <1>i, <2>10 DEF Record
  <2>11. CASE Clear(c) BY <1>i, <2>11 DEF Clear
  <2>12. CASE CheckPlan(c) \/ PrepareBackup(c) \/ Convert(c) \/ Import(c)
    BY <1>i, <2>12 DEF CheckPlan, PrepareBackup, Convert, Import
  <2>13. CASE Adopt(c) BY <1>i, <2>13 DEF Adopt
  <2>14. CASE ConversionFails(c) BY <1>i, <2>14 DEF ConversionFails
  <2>15. CASE Verify(c) BY <1>i, <2>15 DEF Verify
  <2>16. CASE Unlink(c) BY <1>i, <2>16 DEF Unlink
  <2>17. CASE Restore(c) \/ Crash(c) BY <1>i, <2>17 DEF Restore, Crash
  <2> QED BY <1>1, <2>1, <2>2, <2>3, <2>4, <2>5, <2>6, <2>7, <2>8, <2>9, <2>10, <2>11, <2>12,
             <2>13, <2>14, <2>15, <2>16, <2>17 DEF Step
<1>2. CASE Reconcile \/ StopSession \/ UNCHANGED vars BY <1>2 DEF Reconcile, StopSession, vars
<1> QED BY <1>1, <1>2 DEF Next

\* What is noted of the user's wishes and told of a migration
Notes ==
  /\ backup \in BOOLEAN /\ migrated \in BOOLEAN
  /\ chosen \in SUBSET AllChoices /\ profiled \in SUBSET AllChoices /\ hidden \in SUBSET Apps
  /\ answer \in {"none", "complete", "incomplete"}

\* Every step notes what there may be.
LEMMA NotesStep ==
  ASSUME EInv, JobsTyped, Notes, [Next]_vars
  PROVE  Notes'
<1> USE DEF Notes, files, told
<1>f. \A x, T : x \in SUBSET T => Followed(x) \in SUBSET T BY DEF Followed
<1>1. ASSUME NEW c \in Commands, Step(c) PROVE Notes'
  <2>j. job[c].meant \in SUBSET AllChoices /\ job[c].want \in SUBSET AllChoices
    BY StepLeaves DEF JobsTyped, Typed
  <2>k. /\ Followed(job[c].meant) \in SUBSET AllChoices
        /\ Followed(job[c].want) \in SUBSET AllChoices
    BY <2>j, <1>f
  <2>1. CASE Begin(c) BY <2>1 DEF Begin
  <2>2. CASE Save(c) BY <2>2, <2>k DEF Save
  <2>3. CASE ChooseSources(c) \/ Merge(c) \/ Refuse(c)
    BY <2>3 DEF ChooseSources, Merge, Refuse
  <2>4. CASE StartSession(c) \/ Work(c) \/ Record(c) BY <2>4 DEF StartSession, Work, Record
  <2>5. CASE Resolve(c) BY <2>5, <2>k DEF Resolve
  <2>6. CASE Inspect(c) BY <2>6 DEF Inspect
  <2>7. CASE Clear(c)
    <3>1. \A audio : Followed(Apps \cap Live(audio)) \in SUBSET Apps BY <1>f
    <3> QED BY <2>7, <3>1 DEF Clear
  <2>8. CASE CheckPlan(c) \/ PrepareBackup(c) \/ Convert(c) \/ Import(c) \/ Adopt(c)
    BY <2>8 DEF CheckPlan, PrepareBackup, Convert, Import, Adopt
  <2>9. CASE ConversionFails(c) \/ Verify(c) \/ Unlink(c) \/ Restore(c) \/ Crash(c)
    BY <2>9 DEF ConversionFails, Verify, Unlink, Restore, Crash
  <2> QED BY <1>1, <2>1, <2>2, <2>3, <2>4, <2>5, <2>6, <2>7, <2>8, <2>9 DEF Step
<1>2. CASE Reconcile \/ StopSession \/ UNCHANGED vars BY <1>2 DEF Reconcile, StopSession, vars
<1> QED BY <1>1, <1>2 DEF Next

\* Every variable keeps its type, whatever is discovered: the history never
\* lists an application twice nor more than fit, and only a legacy file holds
\* concrete ids (source_history.py, save_config).
THEOREM SettingsTypes == Spec => []TypeOK
<1> DEFINE T == /\ FileForm /\ JobsTyped /\ Proper(history)
                /\ session \in Sessions /\ Places /\ Notes
<1>1. EInv /\ T => TypeOK
  <2> SUFFICES ASSUME EInv, T PROVE TypeOK OBVIOUS
  <2>1. config \in Configs BY DEF EInv, FileIsFree
  <2>2. job \in [Commands -> Job]
    <3>1. \A c \in Commands : job[c] \in Job
      BY JobIsTyped DEF EInv, JobsExplicit, JobsTyped
    <3> QED BY <3>1 DEF EInv, Shape
  <2> QED BY <2>1, <2>2 DEF TypeOK, FileForm, Proper, Places, Notes
<1>2. EInv /\ T /\ [Next]_vars => T'
  <2> SUFFICES ASSUME EInv, T, [Next]_vars PROVE T' OBVIOUS
  <2>1. TInv BY <1>1 DEF TInv
  <2>2. FileForm' BY FileFormStep
  <2>3. JobsTyped' BY <2>1, JobsTypedStep DEF TInv
  <2>4. Proper(history)' /\ session' \in Sessions BY <2>1, HistoryStep, SessionStep
  <2>5. Places' /\ Notes' BY PlacesStep, NotesStep
  <2> QED BY <2>2, <2>3, <2>4, <2>5
<1>3. Init => T
  <2> SUFFICES ASSUME Init PROVE T OBVIOUS
  <2>1. FileForm
    <3>1. config \in {Defaults, LegacyFile} BY DEF Init
    <3>2. ~Defaults.legacy BY DEF Defaults
    <3> QED BY <3>1, <3>2, DefaultsTyped, LegacyIsLegacy DEF FileForm
  <2>2. JobsTyped BY NoJobTyped DEF Init, JobsTyped
  <2>3. Proper(history)
    <3>1. history = NoJob.hist BY DEF Init, NoJob
    <3> QED BY <3>1, NoJobTyped DEF Typed
  <2>4. session \in Sessions BY DEF Init, NoSession, Sessions
  <2>5. Places BY DEF Init, Places, PCs
  <2>6. Notes
    <3>1. migrated \in BOOLEAN BY DEF Init
    <3> QED BY <3>1 DEF Init, Notes
  <2> QED BY <2>1, <2>2, <2>3, <2>4, <2>5, <2>6
<1> HIDE DEF T
<1> QED BY <1>1, <1>2, <1>3, ExplicitAlways, PTL DEF Spec

-----------------------------------------------------------------------------
(* The history                                                             *)

\* No more applications play at once than the history keeps: what it ignores
\* is cut to the same length.
FewPlay == \A audio \in Audios : Cardinality(Apps \cap Live(audio)) <= MaxRecent

\* While no two commands have overlapped: what was cleared and plays on is not
\* in the history, which ignores it; an inspection under way has seen it play
\* and has the history as it is.
HInv ==
  alone =>
    /\ Solo
    /\ hidden \subseteq history.ignored /\ hidden \cap ToSet(history.recent) = {}
    /\ \A c \in Commands :
         pc[c] = "record" => job[c].hist = history /\ hidden \subseteq job[c].live

\* The steps that leave the history alone lead to no inspection's second half.
LEMMA BesidesHistory ==
  ASSUME EInv, NEW c \in Commands, Step(c), ~Inspect(c), ~Record(c), ~Clear(c), alone'
  PROVE  /\ history' = history /\ pc'[c] # "record"
         /\ hidden' = hidden
<1>s. Shape BY DEF EInv
<1> USE DEF files, told, Goto, Ends
<1>1. CASE Begin(c)
  <2>1. PICK op \in Ops, want \in Wants : pc' = [pc EXCEPT ![c] = FirstStep(op, want)]
    BY <1>1 DEF Begin
  <2>2. FirstStep(op, want) # "record" BY DEF FirstStep, Ops
  <2>3. history' = history /\ hidden' = hidden BY <1>1 DEF Begin
  <2> QED BY <1>s, <2>1, <2>2, <2>3 DEF Shape
<1> USE <1>s DEF Shape
<1>2. CASE ChooseSources(c) \/ Merge(c) BY <1>2 DEF ChooseSources, Merge
<1>3. CASE Save(c) \/ Refuse(c) BY <1>3 DEF Save, Refuse
<1>4. CASE StartSession(c) \/ Resolve(c) \/ Work(c) BY <1>4 DEF StartSession, Resolve, Work
<1>5. CASE CheckPlan(c) \/ PrepareBackup(c) \/ Convert(c) \/ Import(c) \/ Adopt(c)
  BY <1>5 DEF CheckPlan, PrepareBackup, Convert, Import, Adopt
<1>6. CASE ConversionFails(c) \/ Verify(c) \/ Unlink(c) \/ Restore(c) \/ Crash(c)
  BY <1>6 DEF ConversionFails, Verify, Unlink, Restore, Crash
<1> QED BY <1>1, <1>2, <1>3, <1>4, <1>5, <1>6 DEF Step

\* What is cleared stays away at every step.
LEMMA HiddenStep ==
  ASSUME FewPlay, EInv, TypeOK, JobsTyped, HInv, [Next]_vars
  PROVE  HInv'
<1> USE DEF files, told
<1>1. ASSUME NEW c \in Commands, Step(c), alone' PROVE HInv'
  <2>1. /\ alone /\ \A d \in Commands \ {c} : pc[d] = "idle" /\ pc'[d] = "idle"
    BY <1>1, StepAlone DEF HInv
  <2>2. /\ hidden \subseteq history.ignored /\ hidden \cap ToSet(history.recent) = {}
        /\ pc[c] = "record" => job[c].hist = history /\ hidden \subseteq job[c].live
    BY <2>1 DEF HInv
  <2>3. Solo' BY <2>1 DEF Solo
  <2>4. CASE ~Inspect(c) /\ ~Record(c) /\ ~Clear(c)
    BY <1>1, <2>1, <2>2, <2>3, <2>4, BesidesHistory DEF HInv
  <2>5. CASE Inspect(c)
    <3>1. PICK audio \in Audios :
            /\ Goto(c, "observe", "record")
            /\ Remember(c, [job[c] EXCEPT !.live = Apps \cap Live(audio), !.hist = history])
            /\ hidden' = hidden \cap Live(audio)
      BY <2>5 DEF Inspect
    <3>2. {"live", "hist"} \subseteq DOMAIN job[c]
      BY DEF EInv, JobsExplicit, Explicit, IsJob, NoJob
    <3>3. job'[c].live = Apps \cap Live(audio) /\ job'[c].hist = history
      <4>1. job'[c] = [job[c] EXCEPT !.live = Apps \cap Live(audio), !.hist = history]
        BY <3>1, StepLeaves
      <4> QED BY <3>2, <4>1
    <3>4. history' = history /\ hidden \subseteq Apps BY <2>5 DEF Inspect, TypeOK
    <3> QED BY <2>1, <2>2, <2>3, <3>1, <3>3, <3>4 DEF HInv
  <2>6. CASE Record(c)
    <3>1. pc[c] = "record" /\ Ends(c) /\ history' = Observed(job[c].hist, job[c].live)
          /\ hidden' = hidden
      BY <2>6 DEF Record
    <3>2. history' = Observed(history, job[c].live) /\ hidden \subseteq job[c].live
      BY <2>2, <3>1
    <3>3. /\ Observed(history, job[c].live).ignored = history.ignored \cap job[c].live
          /\ ToSet(Observed(history, job[c].live).recent) \subseteq
               (job[c].live \ history.ignored) \cup ToSet(history.recent)
      <4>1. Proper(history) /\ job[c].live \in SUBSET Apps /\ IsFiniteSet(job[c].live)
        BY DEF TypeOK, Proper, JobsTyped, Typed
      <4> QED BY <4>1, ObservedFacts
    <3>4. pc'[c] = "idle" BY <3>1, StepLeaves
    <3> QED BY <2>1, <2>2, <2>3, <3>1, <3>2, <3>3, <3>4 DEF HInv
  <2>7. CASE Clear(c)
    <3>1. PICK audio \in Audios :
            /\ history' = [recent |-> <<>>,
                           ignored |-> ToSet(Truncated(SetToSeq(Apps \cap Live(audio))))]
            /\ hidden' = Followed(Apps \cap Live(audio))
      BY <2>7 DEF Clear
    <3>2. Apps \cap Live(audio) \in SUBSET Apps /\ Cardinality(Apps \cap Live(audio)) <= MaxRecent
      BY DEF FewPlay
    <3>3. IsFiniteSet(Apps \cap Live(audio)) BY PlayingIsFinite
    <3> DEFINE l == Apps \cap Live(audio)
    <3> HIDE DEF l
    <3>4. ToSet(Truncated(SetToSeq(l))) = l BY <3>2, <3>3, ClearedFacts DEF l
    <3>5. history' = [recent |-> <<>>, ignored |-> l] /\ hidden' = l
      BY <2>1, <3>1, <3>4 DEF l, Followed
    <3>6. ToSet(<<>>) = {} BY DEF ToSet
    <3>7. pc'[c] = "idle"
      <4>1. Ends(c) BY <2>7 DEF Clear
      <4> QED BY <4>1, StepLeaves
    <3> QED BY <2>1, <2>3, <3>5, <3>6, <3>7 DEF HInv
  <2> QED BY <2>4, <2>5, <2>6, <2>7
<1>2. CASE Reconcile \/ StopSession \/ UNCHANGED vars
  <2>1. UNCHANGED <<history, hidden, pc, job, alone>>
    BY <1>2 DEF Reconcile, StopSession, vars
  <2> QED BY <2>1 DEF HInv, Solo
<1>3. CASE ~alone' BY <1>3 DEF HInv
<1> QED BY <1>1, <1>2, <1>3 DEF Next

\* What was cleared from the history does not come back while it plays on, if
\* no more play than the history keeps (SourceHistoryStore.clear and observe).
THEOREM ClearedAway ==
  ASSUME FewPlay
  PROVE  Spec => []ClearedStays
<1>1. Init => HInv
  <2> SUFFICES ASSUME Init PROVE HInv OBVIOUS
  <2>1. hidden = {} /\ \A c \in Commands : pc[c] = "idle" BY DEF Init
  <2> QED BY <2>1 DEF HInv, Solo
<1>2. EInv /\ TypeOK /\ JobsTyped /\ HInv /\ [Next]_vars => HInv' BY HiddenStep
<1>3. Init => JobsTyped BY NoJobTyped DEF Init, JobsTyped
<1>4. EInv /\ TypeOK /\ JobsTyped /\ [Next]_vars => JobsTyped' BY JobsTypedStep
<1>5. HInv => ClearedStays BY DEF HInv, ClearedStays
<1> QED BY <1>1, <1>2, <1>3, <1>4, <1>5, ExplicitAlways, SettingsTypes, PTL DEF Spec
=============================================================================
