----------------------------- MODULE MCDispatch -----------------------------
(* Two members and a few requests, for TLC; the bounds are in the .cfg.    *)
EXTENDS Dispatch, TLC

DispatchSymmetry == Permutations(Accounts) \cup Permutations(Requests)
=============================================================================
