------------------------------ MODULE MCPanel ------------------------------
(* Small prices, lengths and caps for TLC; a minute has two seconds here.  *)
EXTENDS Panel

TLC == INSTANCE TLC

Capped(day, month, fallbackDay) ==
  [day |-> [l \in Line |-> day], month |-> [l \in Line |-> month],
   fallbackDay |-> fallbackDay]

MCMin == [v \in Vendor |-> IF v = "Groq" THEN 3 ELSE 1]
MCPrices == {[kind |-> "multiple", value |-> 3]}
MCLimits == {Capped({2}, {3}, {2})}
MCSym == TLC!Permutations(Accounts)
=============================================================================
