---------------------------- MODULE AccountBook ----------------------------
(***************************************************************************)
(* What the prepaid ledger (crates/ledger) promises, with no entry in      *)
(* sight: money that was paid in is on the balance, on hold for a request, *)
(* charged, or withdrawn, and nothing moves it but the five operations.    *)
(* Ledger.tla implements it; Broker.tla moves money through it.            *)
(***************************************************************************)
EXTENDS Integers

CONSTANTS Accounts,   \* the members
          Requests,   \* the transcription requests that can hold money
          Amounts     \* the amounts (in kurus) an operation can move

ASSUME AmountsAssumption == Amounts \subseteq Nat

VARIABLES funded,     \* funded[a]: all the admin ever loaded
          withdrawn,  \* withdrawn[a]: all the admin ever deducted
          balance,    \* balance[a]: what a can still spend
          held,       \* held[a][r]: blocked for r, neither settled nor released
          onHold,     \* onHold[a]: blocked over all the requests of a
          charged     \* charged[a]: settled over all the requests of a

bookVars == <<funded, withdrawn, balance, held, onHold, charged>>

BookTypeOK ==
  /\ funded \in [Accounts -> Nat]
  /\ withdrawn \in [Accounts -> Nat]
  /\ balance \in [Accounts -> Nat]
  /\ held \in [Accounts -> [Requests -> Nat]]
  /\ onHold \in [Accounts -> Int]
  /\ charged \in [Accounts -> Nat]

BookInit ==
  /\ funded = [a \in Accounts |-> 0]
  /\ withdrawn = [a \in Accounts |-> 0]
  /\ balance = [a \in Accounts |-> 0]
  /\ held = [a \in Accounts |-> [r \in Requests |-> 0]]
  /\ onHold = [a \in Accounts |-> 0]
  /\ charged = [a \in Accounts |-> 0]

\* Ledger::topup
Fund(a, x) ==
  /\ x > 0
  /\ funded' = [funded EXCEPT ![a] = @ + x]
  /\ balance' = [balance EXCEPT ![a] = @ + x]
  /\ UNCHANGED <<withdrawn, held, onHold, charged>>

\* Ledger::deduct: the balance never goes below zero.
Withdraw(a, x) ==
  /\ x > 0
  /\ x <= balance[a]
  /\ withdrawn' = [withdrawn EXCEPT ![a] = @ + x]
  /\ balance' = [balance EXCEPT ![a] = @ - x]
  /\ UNCHANGED <<funded, held, onHold, charged>>

\* Ledger::block: one hold for a request at a time, covered by the balance.
Hold(a, r, x) ==
  /\ x > 0
  /\ held[a][r] = 0
  /\ x <= balance[a]
  /\ balance' = [balance EXCEPT ![a] = @ - x]
  /\ held' = [held EXCEPT ![a][r] = x]
  /\ onHold' = [onHold EXCEPT ![a] = @ + x]
  /\ UNCHANGED <<funded, withdrawn, charged>>

\* Ledger::settle: a charge comes out of the hold and never exceeds it.
Charge(a, r, x) ==
  /\ x <= held[a][r]
  /\ held' = [held EXCEPT ![a][r] = @ - x]
  /\ onHold' = [onHold EXCEPT ![a] = @ - x]
  /\ charged' = [charged EXCEPT ![a] = @ + x]
  /\ UNCHANGED <<funded, withdrawn, balance>>

\* Ledger::release: what was held goes back to the balance.
Return(a, r, x) ==
  /\ x > 0
  /\ x <= held[a][r]
  /\ held' = [held EXCEPT ![a][r] = @ - x]
  /\ onHold' = [onHold EXCEPT ![a] = @ - x]
  /\ balance' = [balance EXCEPT ![a] = @ + x]
  /\ UNCHANGED <<funded, withdrawn, charged>>

\* Ledger::new: an empty book.
NewBook ==
  /\ funded' = [a \in Accounts |-> 0]
  /\ withdrawn' = [a \in Accounts |-> 0]
  /\ balance' = [a \in Accounts |-> 0]
  /\ held' = [a \in Accounts |-> [r \in Requests |-> 0]]
  /\ onHold' = [a \in Accounts |-> 0]
  /\ charged' = [a \in Accounts |-> 0]

\* What comes in and what is asked for is an amount of the callers; what is
\* charged or given back is any part of a hold.
BookNext ==
  \E a \in Accounts :
    \/ \E x \in Amounts :
         Fund(a, x) \/ Withdraw(a, x) \/ \E r \in Requests : Hold(a, r, x)
    \/ \E r \in Requests : \E x \in 0..held[a][r] : Charge(a, r, x) \/ Return(a, r, x)

BookSpec == BookInit /\ [][BookNext]_bookVars
=============================================================================
