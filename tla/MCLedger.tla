------------------------------ MODULE MCLedger ------------------------------
(* One account with two requests, for TLC; the bounds are in MCLedger.cfg. *)
EXTENDS Ledger, TLC

RequestSymmetry == Permutations(Requests)
=============================================================================
