--------------------------- MODULE IntentRegistry ---------------------------
(***************************************************************************)
(* What creating an intent promises, without templates, locks or calls in  *)
(* progress: a slot (one source's idempotency key) is taken at most once;  *)
(* a caller is told that its request is registered only when exactly that  *)
(* request is, and is refused with a conflict only when another one is.    *)
(***************************************************************************)
CONSTANTS
    Requests,  \* the requests callers can make
    Slot(_)    \* the slot each of them asks for

VARIABLES
    registered,  \* the requests that became intents
    confirmed,   \* the requests some caller was told are registered
    refused      \* the requests some caller was refused with a conflict

vars == <<registered, confirmed, refused>>

Init == registered = {} /\ confirmed = {} /\ refused = {}

\* The confirmation may reach the caller at once or never.
Register(r) ==
    /\ \A q \in registered : Slot(q) # Slot(r)
    /\ registered' = registered \cup {r}
    /\ confirmed' \in {confirmed, confirmed \cup {r}}
    /\ UNCHANGED refused

Confirm(r) ==
    /\ r \in registered
    /\ confirmed' = confirmed \cup {r}
    /\ UNCHANGED <<registered, refused>>

Refuse(r) ==
    /\ \E q \in registered : q # r /\ Slot(q) = Slot(r)
    /\ refused' = refused \cup {r}
    /\ UNCHANGED <<registered, confirmed>>

Next == \E r \in Requests : Register(r) \/ Confirm(r) \/ Refuse(r)

Spec == Init /\ [][Next]_vars
=============================================================================
