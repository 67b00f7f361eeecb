----------------------------- MODULE MCExchange ------------------------------
(* The instance of Exchange that TLC checks; the cfg files set its constants. *)
EXTENDS Exchange
=============================================================================
