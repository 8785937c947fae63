------------------------------ MODULE MCBroker ------------------------------
(***************************************************************************)
(* The broker for TLC: one member, one recording, and the requests each    *)
(* run is about.  The bounds are in the .cfg files.                        *)
(***************************************************************************)
EXTENDS Broker, TLC

CONSTANTS ann, r1, u1

CostOf == [u \in Audios |-> 2]

Admin(kind) == [kind |-> kind, account |-> ann]
Money(kind, x) == [kind |-> kind, account |-> ann, amount |-> x]
Job(g) == [kind |-> "transcribe", account |-> ann, request |-> r1,
           audio |-> u1, gen |-> g]

\* Everything a client or the admin can ask.
AllOps ==
  {Money("redeem", 4), Money("topup", 2), Money("deduct", 2), Money("deduct", 1),
   Admin("login"), Admin("suspend"), Admin("unsuspend"), Job(0), Job(1)}

\* The same without deductions.
NoDeductOps == {op \in AllOps : op.kind # "deduct"}

ConnSymmetry == Permutations(Conns)
=============================================================================
