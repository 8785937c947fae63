---------------------------- MODULE MCAuthStore ----------------------------
(* The member sessions for TLC; the bounds are in MCAuthStore.cfg.         *)
EXTENDS AuthStore, TLC

DeviceSymmetry == Permutations(Hwids)
=============================================================================
