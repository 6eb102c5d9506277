------------------------- MODULE ReceiverProperties -------------------------
(***************************************************************************)
(* What setup, removal and uninstall promise about Receivers.              *)
(***************************************************************************)
EXTENDS Receivers

\* A key that a setup reported as done has put there, and a removal or an
\* uninstall reported as revoked, is not accepted by the Receiver: lost answers,
\* crashes and retries never turn an unverified revocation into a verified one.
VerifiedMeansRevoked == \A r \in Receivers : claimed[r] = {}

\* As long as a Receiver accepts the key of a setup that was reported as done,
\* the private key to revoke it with is kept, until the user gives it up. Of the
\* key that a failed or killed setup has left there RetryKeyKept speaks.
CredentialsKept ==
  \A r \in Receivers : \A k \in owned[r] \cap authorized[r] : identity[r] = k

\* Whatever became of the setup that put a key on a Receiver, only an uninstall's
\* last step and what the user abandons take the private key away, or put another
\* in its place, while the Receiver accepts it: a failed setup forgets its identity
\* (revoke_local) only after a complete roll-back, and a new one finds it there.
RetryKeyKept ==
  [][\A r \in Receivers : identity[r] \in authorized[r] /\ identity'[r] # identity[r] =>
       \E c \in Commands : pc[c] = "purge" \/ job[c].abandon]_vars

\* The Connection or the pending removal names a finished setup's key as a Managed
\* Identity, so that removal asks the Receiver to revoke it.
KeysAreListed ==
  \A r \in Receivers :
    owned[r] \cap authorized[r] # {} => "receiver-only" \in {config.saved[r], pending[r].level}

\* A Receiver that is listed as set up, with nothing pending, has its identity
\* and its Trust Record: no removal that stopped half way looks finished.
NothingHalfRemoved ==
  \A r \in Receivers :
    config.saved[r] = "receiver-only" /\ ~IsPending(r) => identity[r] # NoKey /\ r \in trust

\* No Session runs while a removal is pending, however Start, Stop, removals
\* and crashes follow each other.
BlockedWhilePending == session => \A r \in Receivers : ~IsPending(r)

\* Every entry written to pending-removals.json can be read back.
PendingIsReadable == Readable
=============================================================================
