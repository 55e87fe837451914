------------------------------ MODULE MCSchema ------------------------------
(* Values of the constants of SchemaLifecycle for the model checker. *)
EXTENDS SchemaLifecycle

TwoTables == <<"attempts", "deliveries">>

\* At first the catalog may be wrong or the host's ledger, not both: one change
\* could not mend both, and every adoption would be refused.
OneFlawInit ==
    /\ Init
    /\ \/ host = "proven"
       \/ /\ catalog.layout = 1 /\ catalog.definition = Legacy
          /\ catalog.owned /\ catalog.extras = {}

OneFlawSpec == OneFlawInit /\ [][Next]_vars /\ Fairness
=============================================================================
