--------------------------- MODULE MCClientSession ---------------------------
(* Two processes of the shell on one PC and a third on another; the bounds  *)
(* are in MCClientSession.cfg.                                              *)
EXTENDS ClientSession, TLC

CONSTANTS s1, s2, s3, pc1, pc2

TwoPcs == s1 :> pc1 @@ s2 :> pc1 @@ s3 :> pc2

ShellSymmetry == Permutations({s1, s2})
=============================================================================
