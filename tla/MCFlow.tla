------------------------------- MODULE MCFlow -------------------------------
(* The dictation flow on two presses of up to three seconds each, a         *)
(* restart by the updater and a login or logout.                            *)
EXTENDS Flow
=============================================================================
