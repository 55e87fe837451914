------------------------------ MODULE MCDetail ------------------------------
(* Values of the constants of DeliveryDetail for the model checker are those *)
(* of the ledger's; this module brings the two together.                     *)
EXTENDS DeliveryDetail, MCLedger
=============================================================================
