------------------------------ MODULE MCPages -------------------------------
(* Values of the constants of DeliveryPages for the model checker. *)
EXTENDS DeliveryPages, MCLedger

Three == 1..3
\* The source of the second delivery ends its invitation.
SecondSubjectOf == [d \in Three |-> IF d = 2 THEN Invitation ELSE NoSubject]
NoDelays == <<>>
UsedFilters == {NoFilter, "queued", "failed"}
=============================================================================
