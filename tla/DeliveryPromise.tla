-------------------------- MODULE DeliveryPromise ---------------------------
(***************************************************************************)
(* What the delivery ledger promises to the business that requested a      *)
(* notification and to the email provider, without tables, workers or      *)
(* evidence: a delivery is pending, in flight or settled; it is tried at   *)
(* most Budget times; the provider is called at most once for a try; and a *)
(* new try begins only after the call of the previous one was made and     *)
(* known to have failed for the time being.                                *)
(***************************************************************************)
EXTENDS Integers

CONSTANTS Deliveries, Budget

VARIABLES
    phase,  \* where the delivery stands
    tries,  \* how many tries have begun
    calls   \* the tries for which the provider was called

vars == <<phase, tries, calls>>

Init ==
    /\ phase = [d \in Deliveries |-> "none"]
    /\ tries = [d \in Deliveries |-> 0]
    /\ calls = [d \in Deliveries |-> {}]

Move(d, from, to) ==
    /\ phase[d] \in from
    /\ phase' = [phase EXCEPT ![d] = to]

Called(d) == tries[d] \in calls[d]

Request(d) == Move(d, {"none"}, "pending") /\ UNCHANGED <<tries, calls>>

Begin(d) ==
    /\ Move(d, {"pending"}, "in_flight")
    /\ tries[d] < Budget
    /\ tries' = [tries EXCEPT ![d] = @ + 1]
    /\ UNCHANGED calls

\* The call of the latest try.  It may come after a late report on an earlier
\* try has settled the delivery, never after a cancellation.
Call(d) ==
    /\ tries[d] > 0 /\ ~Called(d)
    /\ calls' = [calls EXCEPT ![d] = @ \cup {tries[d]}]
    /\ UNCHANGED <<phase, tries>>

Postpone(d) ==
    /\ Move(d, {"in_flight"}, "pending")
    /\ Called(d) /\ tries[d] < Budget
    /\ UNCHANGED <<tries, calls>>

Accept(d) == Move(d, {"in_flight"}, "accepted") /\ Called(d) /\ UNCHANGED <<tries, calls>>

\* Success and failure of the delivery are reported about some call.
Deliver(d) ==
    /\ Move(d, {"in_flight", "accepted"}, "delivered")
    /\ calls[d] # {}
    /\ UNCHANGED <<tries, calls>>

Fail(d) ==
    /\ Move(d, {"in_flight", "accepted"}, "failed")
    /\ calls[d] # {}
    /\ UNCHANGED <<tries, calls>>

Cancel(D) ==
    /\ \A d \in D : phase[d] = "pending"
    /\ phase' = [d \in Deliveries |-> IF d \in D THEN "failed" ELSE phase[d]]
    /\ UNCHANGED <<tries, calls>>

LoseTrack(d) == Move(d, {"in_flight"}, "unknown") /\ Called(d) /\ UNCHANGED <<tries, calls>>

Next ==
    \/ \E d \in Deliveries :
        \/ Request(d) \/ Begin(d) \/ Call(d) \/ Postpone(d)
        \/ Accept(d) \/ Deliver(d) \/ Fail(d) \/ LoseTrack(d)
    \/ \E D \in SUBSET Deliveries : Cancel(D)

Spec == Init /\ [][Next]_vars
=============================================================================
