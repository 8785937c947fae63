----------------------------- MODULE MCMembers -----------------------------
EXTENDS Members, TLC

Symmetries == Permutations(Hwids) \cup Permutations(Codes)
=============================================================================
