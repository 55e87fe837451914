---------------------------- MODULE DeliveryPages ----------------------------
(***************************************************************************)
(* list_deliveries while the ledger moves: an administrator follows        *)
(* next_cursor from page to page, by descending id, optionally for one     *)
(* status.  Every page is one statement; between two of them deliveries    *)
(* are created anywhere in the order of ids and change their status.       *)
(***************************************************************************)
EXTENDS DeliveryLedger

CONSTANTS
    Filters,     \* the status filters an administrator uses
    NoFilter,    \* deliveries of every status
    NoCursor,    \* no cursor, or no further page
    PageLimit    \* limit

ASSUME FiltersAssumption ==
    Filters \subseteq Statuses \cup {NoFilter} /\ NoFilter \notin Statuses
ASSUME PageAssumption == PageLimit \in Nat \ {0} /\ NoCursor \notin Deliveries

VARIABLES
    page,    \* the listing: its stage, filter and the cursor of the next call
    listed,  \* how often each delivery was returned; 2 stands for more
    steady   \* history: the deliveries that matched all through the listing

listVars == <<page, listed, steady>>
pageVars == <<vars, listVars>>

-----------------------------------------------------------------------------
Matches(d, filter) ==
    status[d] # "absent" /\ (filter = NoFilter \/ status[d] = filter)

\* Fault: the delivery at the cursor is returned again.
FollowsOrIs(d, cursor) == cursor = NoCursor \/ d <= cursor

\* deliveries.id < cursor
Follows(d, cursor) == cursor = NoCursor \/ d < cursor

\* The first n of a set of deliveries: order by id desc limit n.
FirstOf(S, n) == {d \in S : Cardinality({e \in S : e > d}) < n}
LastOf(S) == CHOOSE d \in S : \A e \in S : d <= e

\* Fault: the cursor is the row that told there is more.
CursorAtProbe(rows) ==
    IF Cardinality(rows) > PageLimit THEN LastOf(rows) ELSE NoCursor

\* One row more than the limit tells whether there is a further page; the
\* cursor is the last row that is returned.
NextCursor(rows) ==
    IF Cardinality(rows) > PageLimit THEN LastOf(FirstOf(rows, PageLimit)) ELSE NoCursor

PageInit ==
    /\ Init
    /\ page = [stage |-> "idle", filter |-> NoFilter, cursor |-> NoCursor]
    /\ listed = [d \in Deliveries |-> 0]
    /\ steady = {}

StartListing(filter) ==
    /\ page.stage = "idle"
    /\ page' = [stage |-> "open", filter |-> filter, cursor |-> NoCursor]
    /\ steady' = {d \in Deliveries : Matches(d, filter)}
    /\ UNCHANGED <<vars, listed>>

\* One call of list_deliveries.
ListDeliveries ==
    LET rows    == FirstOf({d \in Deliveries : /\ Matches(d, page.filter)
                                               /\ Follows(d, page.cursor)},
                           PageLimit + 1)
        records == FirstOf(rows, PageLimit)
    IN  /\ page.stage = "open"
        /\ listed' = [d \in Deliveries |->
                        IF d \in records /\ listed[d] < 2 THEN listed[d] + 1 ELSE listed[d]]
        /\ page' = [page EXCEPT !.stage = IF NextCursor(rows) = NoCursor THEN "done" ELSE "open",
                                !.cursor = NextCursor(rows)]
        /\ UNCHANGED <<vars, steady>>

\* The ledger moves; what ceases to match is no longer steady.
LedgerStep ==
    /\ Next
    /\ UNCHANGED <<page, listed>>
    /\ steady' = {d \in steady : Matches(d, page.filter)'}

PageNext ==
    \/ LedgerStep
    \/ \E filter \in Filters : StartListing(filter)
    \/ ListDeliveries

PageSpec == PageInit /\ [][PageNext]_pageVars

\* The administrator goes on as long as there is a cursor.
FairPageSpec == PageSpec /\ WF_pageVars(ListDeliveries)

-----------------------------------------------------------------------------
(* Properties *)

\* No delivery is returned twice in a listing, whatever is created or changes
\* between its pages (list_deliveries).
ListedOnce == \A d \in Deliveries : listed[d] <= 1

\* A delivery that matched the filter all through the listing is returned,
\* whatever happens to the deliveries around it (list_deliveries).
SteadyListed == page.stage = "done" => \A d \in steady : listed[d] > 0

\* A listing comes to an end although deliveries are created and change
\* meanwhile (next_cursor of list_deliveries).
ListingEnds == page.stage = "open" ~> page.stage = "done"

=============================================================================
