------------------------------ MODULE MCLedger ------------------------------
(* Values of the constants of DeliveryLedger for the model checker. *)
EXTENDS DeliveryLedger, TLC

Invitation == [source |-> "organization-blue", invitation |-> "inv"]

OneSubject == {Invitation}
NoSubjects == {}

\* One delivery of the invitation.
Single == {1}
SingleSubjectOf == [d \in Single |-> Invitation]
\* Two deliveries of the same invitation.
Pair == {1, 2}
PairSubjectOf == [d \in Pair |-> Invitation]

OneDelay == <<1>>
TwoDelays == <<1, 2>>

WorkerSymmetry == Permutations(Workers)
=============================================================================
