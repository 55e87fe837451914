----------------------------- MODULE MCIntents ------------------------------
(* Values of the constants of IntentCreation for the model checker. *)
EXTENDS IntentCreation

CONSTANTS c1, c2, c3  \* the calls

Request(source, key, release, expiresAt, body) ==
    [source |-> source, key |-> key, release |-> release,
     expiresAt |-> expiresAt, body |-> body]

Invitation == Request("organization", "k1", "invitation", 1, "b1")
\* Changed input for the same slot, rendered from another template release.
Changed == Request("organization", "k1", "submitted", NoExpiry, "b2")
\* The same key of another source: another slot, the first template release.
Access == Request("access", "k1", "invitation", NoExpiry, "b1")

\* The first call meets every combination of the others, which may repeat it,
\* contradict it or contend for its template release.
Contention ==
    [c \in Calls |-> CASE c = c1 -> {Invitation, Changed, Access}
                       [] c = c2 -> {Invitation, Changed}
                       [] c = c3 -> {Invitation, Access}]
=============================================================================
