----------------------------- MODULE MCDelivery -----------------------------
(* The instance of UpdateDelivery for TLC; its constants are numbers.       *)
EXTENDS UpdateDelivery
=============================================================================
