---------------------------- MODULE MCStatements ----------------------------
(* Values of the constants of LedgerStatements for the model checker. *)
EXTENDS LedgerStatements

One == {1}
Pair == {1, 2}
\* The second delivery was requested later.
FirstEarlier == [d \in Pair |-> d - 1]

Observation(id, lifecycle, observedAt) ==
    [id |-> id, lifecycle |-> lifecycle, observedAt |-> observedAt]

\* Two observations of both deliveries, each of which may be sent twice.
TwoObservations == {Observation("o1", "expired", 1), Observation("o2", "revoked", 1)}

OneRetry == {[delivery |-> 1, key |-> "key1"]}
OneReceipt == {[remote |-> "m1", kind |-> "delivered", digest |-> "g1"]}
=============================================================================
