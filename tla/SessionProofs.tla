--------------------------- MODULE SessionProofs ---------------------------
(***************************************************************************)
(* TLAPS proofs about the sessions of members, for every set of accounts,  *)
(* devices, codes, PCs and shells, every limit and every bound.            *)
(*                                                                         *)
(* Part 1 is the store itself (module AuthStore).  Part 2 is the broker's  *)
(* handlers around it (Members): each does to the store one of its own     *)
(* calls or nothing, so that the composition implements AuthStore and      *)
(* inherits part 1; the rest relates the panel's half to it.  Part 3 is    *)
(* the shells in front of it (ClientSession), where again every step is a  *)
(* call of the store or none; its invariant says where the newest pair of  *)
(* a login is.                                                             *)
(***************************************************************************)
EXTENDS Members, ClientSession, TLAPS

-----------------------------------------------------------------------------
(* Part 1: the store.                                                      *)

\* What an issued pair says of the state: who can hold one, which one it
\* descends from, and that a pair of the current generation is bound.
PairsInv ==
  \A i \in DOMAIN issued :
    /\ issued[i].account \in registered
    /\ issued[i].root \in 1..i
    /\ issued[issued[i].root].account = issued[i].account
    /\ issued[i].gen <= generation[issued[i].account]
    /\ issued[i].gen = generation[issued[i].account] =>
         /\ issued[i].hwid \in slots[issued[i].account]
         /\ issued[i].account \notin suspended

\* What a refresh record says: it is the account's own, and current.
RefreshInv ==
  \A a \in Accounts : \A i \in refresh[a] :
    /\ issued[i].account = a
    /\ issued[i].gen = generation[a]

\* A login ended for a reuse has lost its generation.
BurnedInv ==
  \A i \in DOMAIN issued :
    issued[i].root \in burned => issued[i].gen < generation[issued[i].account]

\* The inductive invariant of the store.
IInv ==
  /\ TypeOK
  /\ PairsInv
  /\ RefreshInv
  /\ BurnedInv
  /\ OneExchangeablePerLogin

-----------------------------------------------------------------------------
(***************************************************************************)
(* The initial state is well typed.                                        *)
(***************************************************************************)
LEMMA InitTypeOK == Init => TypeOK
  BY AuthAssumption DEF Init, TypeOK

(***************************************************************************)
(* Issuing a pair keeps the token variables well typed.                    *)
(***************************************************************************)
LEMMA IssueTypeOK ==
  ASSUME TypeOK, NEW a \in Accounts, NEW h \in Hwids, NEW now \in Nat,
         NEW root \in 1..(Len(issued) + 1), NEW R \in SUBSET DOMAIN issued,
         IssuePair(a, h, now, root, R)
  PROVE  /\ issued' \in Seq(Pair)
         /\ DOMAIN issued' = DOMAIN issued \cup {Len(issued) + 1}
         /\ DOMAIN issued = 1..Len(issued)
         /\ Len(issued) \in Nat
         /\ issued'[Len(issued) + 1] = [account |-> a, hwid |-> h, at |-> now,
                                        gen |-> generation[a], root |-> root]
         /\ \A i \in DOMAIN issued : issued'[i] = issued[i] /\ issued[i] \in Pair
         /\ refresh' \in [Accounts -> SUBSET DOMAIN issued']
         /\ rotated' \subseteq DOMAIN issued'
  <1> DEFINE p == [account |-> a, hwid |-> h, at |-> now,
                   gen |-> generation[a], root |-> root]
  <1>1. Len(issued) \in Nat /\ DOMAIN issued = 1..Len(issued)
    BY DEF TypeOK
  <1>2. p \in Pair
    BY <1>1 DEF TypeOK, Pair
  <1>3. issued' = Append(issued, p)
    BY DEF IssuePair
  <1>4. issued' \in Seq(Pair) /\ DOMAIN issued' = DOMAIN issued \cup {Len(issued) + 1}
    BY <1>1, <1>2, <1>3 DEF TypeOK
  <1>5. \A i \in DOMAIN issued : issued'[i] = issued[i] /\ issued[i] \in Pair
    BY <1>1, <1>2, <1>3 DEF TypeOK
  <1>6. issued'[Len(issued) + 1] = p
    BY <1>1, <1>2, <1>3 DEF TypeOK
  <1>7. refresh' \in [Accounts -> SUBSET DOMAIN issued'] /\ rotated' \subseteq DOMAIN issued'
    BY <1>4 DEF TypeOK, IssuePair
  <1> QED
    BY <1>1, <1>4, <1>5, <1>6, <1>7

-----------------------------------------------------------------------------
(***************************************************************************)
(* The three calls that issue a pair, seen as an IssuePair of good data.   *)
(***************************************************************************)
LEMMA IssuedData ==
  ASSUME TypeOK
  PROVE  /\ Len(issued) \in Nat
         /\ DOMAIN issued = 1..Len(issued)
         /\ NewChain \in 1..(Len(issued) + 1)
         /\ {} \in SUBSET DOMAIN issued
         /\ \A i \in DOMAIN issued : /\ issued[i] \in Pair
                                     /\ issued[i].account \in Accounts
                                     /\ issued[i].hwid \in Hwids
                                     /\ {i} \in SUBSET DOMAIN issued
         /\ \A t \in Now : t \in Nat
<1>1. Len(issued) \in Nat /\ DOMAIN issued = 1..Len(issued)
  BY DEF TypeOK
<1>2. NewChain \in 1..(Len(issued) + 1)
  BY <1>1 DEF NewChain
<1>3. \A i \in DOMAIN issued : issued[i] \in Pair
  BY DEF TypeOK
<1>4. \A i \in DOMAIN issued : issued[i].account \in Accounts /\ issued[i].hwid \in Hwids
  BY <1>3 DEF Pair
<1>5. \A t \in Now : t \in Nat
  BY DEF TypeOK, Now
<1> QED
  BY <1>1, <1>2, <1>3, <1>4, <1>5

(***************************************************************************)
(* Ending the sessions of an account moves it, and no other account, to a  *)
(* generation no pair of it has, with no refresh record.                   *)
(***************************************************************************)
LEMMA DropSessionsEffect ==
  ASSUME TypeOK, NEW a \in Accounts, DropSessions(a)
  PROVE  /\ generation' \in [Accounts -> Nat]
         /\ refresh' \in [Accounts -> SUBSET DOMAIN issued]
         /\ generation'[a] = generation[a] + 1
         /\ refresh'[a] = {}
         /\ \A b \in Accounts \ {a} : /\ generation'[b] = generation[b]
                                      /\ refresh'[b] = refresh[b]
  BY DEF TypeOK, DropSessions

(***************************************************************************)
(* Every call keeps the store well typed.                                  *)
(***************************************************************************)
LEMMA NextTypeOK == TypeOK /\ PairsInv /\ [Next]_authVars => TypeOK'
<1> SUFFICES ASSUME TypeOK, PairsInv, [Next]_authVars PROVE TypeOK'
  OBVIOUS
<1> USE AuthAssumption
<1> DEFINE Issues == /\ issued' \in Seq(Pair)
                     /\ refresh' \in [Accounts -> SUBSET DOMAIN issued']
                     /\ rotated' \subseteq DOMAIN issued'
                     /\ DOMAIN issued' = DOMAIN issued \cup {Len(issued) + 1}
<1>0. /\ DOMAIN issued = 1..Len(issued) /\ Len(issued) \in Nat
      /\ \A i \in DOMAIN issued : issued[i] \in Pair
  BY IssuedData
<1>1. ASSUME NEW c \in Codes, NEW now \in Now, CreateInvite(c, now) PROVE TypeOK'
  BY <1>1 DEF CreateInvite, TypeOK, Now, deviceVars, lockVars, tokenVars
<1>2. ASSUME NEW c \in Codes, NEW now \in Now, NEW a \in Accounts, NEW h \in Hwids,
             RedeemInvite(c, a, h, now)
      PROVE TypeOK'
  <2>1. IssuePair(a, h, now, NewChain, {})
    BY <1>2 DEF RedeemInvite
  <2>2. Issues
    BY <2>1, IssuedData, IssueTypeOK
  <2> QED
    BY <1>2, <2>2 DEF RedeemInvite, TypeOK, lockVars
<1>3. ASSUME NEW a \in Accounts, NEW now \in Now, NEW h \in Hwids, LoginOk(a, h, now)
      PROVE TypeOK'
  <2>1. IssuePair(a, h, now, NewChain, {})
    BY <1>3 DEF LoginOk
  <2>2. Issues
    BY <2>1, IssuedData, IssueTypeOK
  <2>3. /\ slots' \in [Accounts -> SUBSET Hwids]
        /\ failed' \in [Accounts -> 0..(LOCKOUT_THRESHOLD - 1)]
        /\ guesses' \in [Accounts -> Seq(Nat)]
    BY <1>3 DEF LoginOk, TypeOK
  <2> QED
    BY <1>3, <2>2, <2>3 DEF LoginOk, TypeOK, inviteVars
<1>4. ASSUME NEW a \in Accounts, NEW now \in Now, NEW h \in Hwids, LoginNoSlot(a, h, now)
      PROVE TypeOK'
  <2>1. /\ failed' \in [Accounts -> 0..(LOCKOUT_THRESHOLD - 1)]
        /\ guesses' \in [Accounts -> Seq(Nat)]
    BY <1>4 DEF LoginNoSlot, TypeOK
  <2> QED
    BY <1>4, <2>1 DEF LoginNoSlot, TypeOK, inviteVars, deviceVars, tokenVars
<1>5. ASSUME NEW a \in Accounts, NEW now \in Now, LoginWrongPassword(a, now)
      PROVE TypeOK'
  <2> DEFINE past == Append(guesses[a], clock)
  <2>1. past \in Seq(Nat) /\ past # << >>
    <3>1. guesses[a] \in Seq(Nat) /\ clock \in Nat
      BY DEF TypeOK
    <3>2. past \in Seq(Nat) /\ Len(past) = Len(guesses[a]) + 1
      BY <3>1
    <3>3. Len(guesses[a]) \in Nat
      BY <3>1
    <3>4. Len(past) # 0
      BY <3>2, <3>3
    <3> QED
      BY <3>2, <3>4
  <2>2. Tail(past) \in Seq(Nat)
    BY <2>1
  <2>3. guesses' \in [Accounts -> Seq(Nat)]
    BY <1>5, <2>1, <2>2 DEF LoginWrongPassword, TypeOK
  <2>4. failed' \in [Accounts -> 0..(LOCKOUT_THRESHOLD - 1)]
    <3>1. failed[a] \in 0..(LOCKOUT_THRESHOLD - 1) /\ LOCKOUT_THRESHOLD \in Nat \ {0}
      BY DEF TypeOK, AuthAssumption
    <3>2. failed' = [failed EXCEPT ![a] =
                       IF failed[a] + 1 >= LOCKOUT_THRESHOLD THEN 0 ELSE failed[a] + 1]
      BY <1>5 DEF LoginWrongPassword
    <3> QED
      BY <3>1, <3>2 DEF TypeOK
  <2>5. lockedUntil' \in [Accounts -> Nat]
    <3>1. now + LOCKOUT_SECS \in Nat
      BY IssuedData DEF AuthAssumption
    <3>2. lockedUntil' = [lockedUntil EXCEPT ![a] =
                            IF failed[a] + 1 >= LOCKOUT_THRESHOLD
                            THEN now + LOCKOUT_SECS ELSE lockedUntil[a]]
      BY <1>5 DEF LoginWrongPassword
    <3> QED
      BY <3>1, <3>2 DEF TypeOK
  <2> QED
    BY <1>5, <2>3, <2>4, <2>5
    DEF LoginWrongPassword, TypeOK, inviteVars, deviceVars, tokenVars
<1>6. ASSUME NEW i \in DOMAIN issued, NEW now \in Now, RefreshOk(i, now)
      PROVE TypeOK'
  <2>1. IssuePair(issued[i].account, issued[i].hwid, now, issued[i].root, {i})
    BY <1>6 DEF RefreshOk
  <2>2. issued[i].root \in 1..(Len(issued) + 1)
    BY <1>0 DEF PairsInv
  <2>3. Issues
    BY <2>1, <2>2, IssuedData, IssueTypeOK
  <2> QED
    BY <1>6, <2>3 DEF RefreshOk, TypeOK, inviteVars, deviceVars, lockVars
<1>7. ASSUME NEW i \in DOMAIN issued, NEW h \in Hwids, RefreshReuse(i, h)
      PROVE TypeOK'
  <2>1. issued[i].root \in DOMAIN issued /\ issued[i].account \in Accounts
    BY <1>0, IssuedData DEF PairsInv
  <2>2. DropSessions(issued[i].account)
    BY <1>7 DEF RefreshReuse
  <2>3. /\ generation' \in [Accounts -> Nat]
        /\ refresh' \in [Accounts -> SUBSET DOMAIN issued]
    BY <2>1, <2>2, DropSessionsEffect
  <2>4. burned' \subseteq DOMAIN issued
    BY <1>7, <2>1 DEF RefreshReuse, TypeOK
  <2> QED
    BY <1>7, <2>3, <2>4 DEF RefreshReuse, TypeOK, inviteVars, deviceVars, lockVars
<1>8. ASSUME NEW a \in Accounts, Suspend(a) PROVE TypeOK'
  <2>1. /\ generation' \in [Accounts -> Nat]
        /\ refresh' \in [Accounts -> SUBSET DOMAIN issued]
    BY <1>8, DropSessionsEffect DEF Suspend
  <2> QED
    BY <1>8, <2>1 DEF Suspend, TypeOK, inviteVars, deviceVars, lockVars
<1>9. ASSUME NEW a \in Accounts, Unsuspend(a) PROVE TypeOK'
  BY <1>9 DEF Unsuspend, TypeOK, inviteVars, deviceVars, lockVars, tokenVars
<1>10. ASSUME NEW a \in Accounts, ResetHwid(a) PROVE TypeOK'
  <2>1. /\ generation' \in [Accounts -> Nat]
        /\ refresh' \in [Accounts -> SUBSET DOMAIN issued]
    BY <1>10, DropSessionsEffect DEF ResetHwid
  <2>2. slots' \in [Accounts -> SUBSET Hwids]
    BY <1>10 DEF ResetHwid, TypeOK
  <2> QED
    BY <1>10, <2>1, <2>2 DEF ResetHwid, TypeOK, inviteVars, lockVars
<1>11. ASSUME NEW a \in Accounts, NEW n \in SlotLimits, SetMaxSlots(a, n) PROVE TypeOK'
  BY <1>11, SMTT(30) DEF SetMaxSlots, TypeOK, inviteVars, lockVars, tokenVars
<1>12. ASSUME Tick PROVE TypeOK'
  BY <1>12 DEF Tick, TypeOK, inviteVars, deviceVars, lockVars, tokenVars
<1>13. ASSUME UNCHANGED authVars PROVE TypeOK'
  BY <1>13 DEF authVars, TypeOK, inviteVars, deviceVars, lockVars, tokenVars
<1> QED
  BY <1>1, <1>2, <1>3, <1>4, <1>5, <1>6, <1>7, <1>8, <1>9, <1>10, <1>11, <1>12, <1>13
  DEF Next, InviteNext, LoginNext, RefreshNext, AdminNext

-----------------------------------------------------------------------------
(***************************************************************************)
(* A step that issues a pair to a bound device of a running account keeps  *)
(* what pairs, records and burned logins say.  The pair either starts a    *)
(* login or takes the place of the one live record of its login.           *)
(***************************************************************************)
LEMMA IssueKeepsIInv ==
  ASSUME IInv, TypeOK', NEW a \in Accounts, NEW h \in Hwids, NEW now \in Nat,
         NEW root \in 1..(Len(issued) + 1), NEW R \in SUBSET DOMAIN issued,
         IssuePair(a, h, now, root, R),
         a \in registered', h \in slots'[a], a \notin suspended,
         registered \subseteq registered',
         \A b \in Accounts : slots[b] \subseteq slots'[b] \/ b \notin registered,
         UNCHANGED <<suspended, generation, burned>>,
         \/ root = Len(issued) + 1 /\ R = {}
         \/ \E i \in DOMAIN issued :
              /\ R = {i} /\ issued[i].root = root /\ issued[i].account = a
              /\ i \in refresh[a] /\ i \notin rotated
  PROVE  IInv'
<1> DEFINE n == Len(issued) + 1
<1>1. /\ DOMAIN issued = 1..Len(issued)
      /\ Len(issued) \in Nat
      /\ DOMAIN issued' = DOMAIN issued \cup {n}
      /\ issued'[n].account = a /\ issued'[n].hwid = h
      /\ issued'[n].gen = generation[a] /\ issued'[n].root = root
      /\ \A i \in DOMAIN issued : issued'[i] = issued[i] /\ issued[i] \in Pair
  <2>1. TypeOK
    BY DEF IInv
  <2>2. issued'[n] = [account |-> a, hwid |-> h, at |-> now,
                      gen |-> generation[a], root |-> root]
    BY <2>1, IssueTypeOK
  <2>3. /\ DOMAIN issued = 1..Len(issued)
        /\ Len(issued) \in Nat
        /\ DOMAIN issued' = DOMAIN issued \cup {n}
        /\ \A i \in DOMAIN issued : issued'[i] = issued[i] /\ issued[i] \in Pair
    BY <2>1, IssueTypeOK
  <2> QED
    BY <2>2, <2>3
<1>2. /\ refresh'[a] = refresh[a] \cup {n}
      /\ \A b \in Accounts \ {a} : refresh'[b] = refresh[b]
      /\ rotated' = rotated \cup R
  BY DEF IssuePair, IInv, TypeOK
<1>3. generation[a] \in Nat /\ n \notin DOMAIN issued
  BY <1>1 DEF IInv, TypeOK
<1>4. /\ root = n \/ (root \in DOMAIN issued /\ issued[root].account = a)
      /\ root \in 1..n
  BY <1>1 DEF IInv, PairsInv
<1>5. root \notin burned
  <2>1. CASE root = n
    BY <2>1, <1>3 DEF IInv, TypeOK
  <2>2. CASE root # n
    <3>1. PICK i \in DOMAIN issued : issued[i].root = root /\ i \in refresh[a]
                                     /\ issued[i].account = a
      BY <2>2
    <3>2. issued[i].gen = generation[a]
      BY <3>1 DEF IInv, RefreshInv
    <3> QED
      BY <3>1, <3>2, <1>3 DEF IInv, BurnedInv
  <2> QED
    BY <2>1, <2>2
<1>6. PairsInv'
  <2> SUFFICES ASSUME NEW i \in DOMAIN issued'
               PROVE  /\ issued'[i].account \in registered'
                      /\ issued'[i].root \in 1..i
                      /\ issued'[issued'[i].root].account = issued'[i].account
                      /\ issued'[i].gen <= generation[issued'[i].account]
                      /\ issued'[i].gen = generation[issued'[i].account] =>
                           /\ issued'[i].hwid \in slots'[issued'[i].account]
                           /\ issued'[i].account \notin suspended
    BY DEF PairsInv
  <2>1. CASE i = n
    BY <2>1, <1>1, <1>3, <1>4
  <2>2. CASE i \in DOMAIN issued
    <3>1. /\ issued[i].account \in registered
          /\ issued[i].root \in 1..i
          /\ issued[issued[i].root].account = issued[i].account
          /\ issued[i].gen <= generation[issued[i].account]
          /\ issued[i].gen = generation[issued[i].account] =>
               /\ issued[i].hwid \in slots[issued[i].account]
               /\ issued[i].account \notin suspended
      BY <2>2 DEF IInv, PairsInv
    <3>2. issued[i].root \in DOMAIN issued /\ issued[i].account \in Accounts
      BY <2>2, <3>1, <1>1 DEF Pair
    <3> QED
      BY <2>2, <3>1, <3>2, <1>1
  <2> QED
    BY <2>1, <2>2, <1>1
<1>7. RefreshInv'
  <2> SUFFICES ASSUME NEW b \in Accounts, NEW i \in refresh'[b]
               PROVE  issued'[i].account = b /\ issued'[i].gen = generation[b]
    BY DEF RefreshInv
  <2>1. CASE i = n
    <3>1. b = a
      BY <2>1, <1>2, <1>3 DEF IInv, TypeOK
    <3> QED
      BY <2>1, <3>1, <1>1
  <2>2. CASE i # n
    <3>1. i \in refresh[b]
      BY <2>2, <1>2
    <3>2. i \in DOMAIN issued
      BY <3>1 DEF IInv, TypeOK
    <3> QED
      BY <3>1, <3>2, <1>1 DEF IInv, RefreshInv
  <2> QED
    BY <2>1, <2>2
<1>8. BurnedInv'
  BY <1>1, <1>5 DEF IInv, BurnedInv
<1>9. OneExchangeablePerLogin'
  <2> SUFFICES ASSUME NEW i \in DOMAIN issued', NEW j \in DOMAIN issued',
                      i \in refresh'[issued'[i].account], i \notin rotated',
                      j \in refresh'[issued'[j].account], j \notin rotated',
                      issued'[i].root = issued'[j].root
               PROVE  i = j
    BY DEF OneExchangeablePerLogin, Live
  <2>1. ASSUME NEW k \in DOMAIN issued, k \in refresh'[issued'[k].account]
        PROVE  k \in refresh[issued[k].account] /\ issued[k].account \in Accounts
    BY <2>1, <1>1, <1>2, <1>3 DEF Pair
  <2>2. ASSUME NEW k \in DOMAIN issued, k \in refresh'[issued'[k].account],
               k \notin rotated', issued'[k].root = root
        PROVE  FALSE
    <3>1. CASE root = n
      BY <3>1, <2>2, <1>1, <1>3 DEF IInv, PairsInv
    <3>2. CASE root # n
      <4>1. PICK m \in DOMAIN issued : /\ R = {m} /\ issued[m].root = root
                                       /\ issued[m].account = a
                                       /\ m \in refresh[a] /\ m \notin rotated
        BY <3>2
      <4>2. k \in refresh[issued[k].account] /\ k \notin rotated
        BY <2>1, <2>2, <1>2
      <4>3. k = m
        BY <4>1, <4>2, <2>2, <1>1 DEF IInv, OneExchangeablePerLogin, Live
      <4> QED
        BY <4>1, <4>3, <2>2, <1>2
    <3> QED
      BY <3>1, <3>2
  <2>3. CASE i \in DOMAIN issued /\ j \in DOMAIN issued
    BY <2>3, <2>1, <1>1, <1>2 DEF IInv, OneExchangeablePerLogin, Live
  <2>4. CASE i = n \/ j = n
    BY <2>4, <2>2, <1>1
  <2> QED
    BY <2>3, <2>4, <1>1
<1> QED
  BY <1>6, <1>7, <1>8, <1>9 DEF IInv

(***************************************************************************)
(* A step that ends the sessions of an account keeps the invariant, also   *)
(* when it unbinds the account's devices, stops it or burns its logins.    *)
(***************************************************************************)
LEMMA DropKeepsIInv ==
  ASSUME IInv, TypeOK', NEW a \in Accounts, DropSessions(a),
         UNCHANGED <<registered, issued, rotated>>,
         \A b \in Accounts \ {a} : slots'[b] = slots[b],
         suspended' \subseteq suspended \cup {a},
         \A i \in DOMAIN issued :
           issued[i].root \in burned' \ burned => issued[i].account = a
  PROVE  IInv'
<1>1. /\ generation'[a] = generation[a] + 1
      /\ refresh'[a] = {}
      /\ \A b \in Accounts \ {a} : generation'[b] = generation[b] /\ refresh'[b] = refresh[b]
  BY DropSessionsEffect DEF IInv
<1>2. \A b \in Accounts : generation[b] \in Nat
  BY DEF IInv, TypeOK
<1>3. \A i \in DOMAIN issued : /\ issued[i].account \in Accounts
                               /\ issued[i].gen <= generation[issued[i].account]
                               /\ issued[i].gen \in Nat
  <2>1. \A i \in DOMAIN issued : issued[i] \in Pair
    BY DEF IInv, TypeOK
  <2> QED
    BY <2>1 DEF IInv, PairsInv, Pair
<1>4. PairsInv'
  <2> SUFFICES ASSUME NEW i \in DOMAIN issued
               PROVE  /\ issued[i].account \in registered
                      /\ issued[i].root \in 1..i
                      /\ issued[issued[i].root].account = issued[i].account
                      /\ issued[i].gen <= generation'[issued[i].account]
                      /\ issued[i].gen = generation'[issued[i].account] =>
                           /\ issued[i].hwid \in slots'[issued[i].account]
                           /\ issued[i].account \notin suspended'
    BY DEF PairsInv
  <2>1. CASE issued[i].account = a
    BY <2>1, <1>1, <1>2, <1>3 DEF IInv, PairsInv
  <2>2. CASE issued[i].account # a
    BY <2>2, <1>1, <1>2, <1>3 DEF IInv, PairsInv
  <2> QED
    BY <2>1, <2>2
<1>5. RefreshInv'
  BY <1>1 DEF IInv, RefreshInv
<1>6. BurnedInv'
  <2> SUFFICES ASSUME NEW i \in DOMAIN issued, issued[i].root \in burned'
               PROVE  issued[i].gen < generation'[issued[i].account]
    BY DEF BurnedInv
  <2>1. CASE issued[i].account = a
    BY <2>1, <1>1, <1>2, <1>3
  <2>2. CASE issued[i].account # a
    BY <2>2, <1>1, <1>3 DEF IInv, BurnedInv
  <2> QED
    BY <2>1, <2>2
<1>7. OneExchangeablePerLogin'
  <2>1. \A i \in DOMAIN issued :
          i \in refresh'[issued[i].account] => i \in refresh[issued[i].account]
    BY <1>1, <1>3
  <2> QED
    BY <2>1 DEF IInv, OneExchangeablePerLogin, Live
<1> QED
  BY <1>4, <1>5, <1>6, <1>7 DEF IInv

(***************************************************************************)
(* A step that touches no session keeps the invariant; lifting a           *)
(* suspension is one, because stopping the account ended its sessions.     *)
(***************************************************************************)
LEMMA OtherKeepsIInv ==
  ASSUME IInv, TypeOK', suspended' \subseteq suspended,
         UNCHANGED <<registered, slots, generation, refresh, rotated, issued, burned>>
  PROVE  IInv'
<1>1. PairsInv'
  BY DEF IInv, PairsInv
<1>2. RefreshInv' /\ BurnedInv' /\ OneExchangeablePerLogin'
  BY DEF IInv, RefreshInv, BurnedInv, OneExchangeablePerLogin, Live
<1> QED
  BY <1>1, <1>2 DEF IInv

(***************************************************************************)
(* Every call keeps the invariant.                                         *)
(***************************************************************************)
LEMMA NextIInv == IInv /\ [Next]_authVars => IInv'
<1> SUFFICES ASSUME IInv, [Next]_authVars PROVE IInv'
  OBVIOUS
<1>0. TypeOK /\ TypeOK'
  BY NextTypeOK DEF IInv
<1>1. ASSUME NEW c \in Codes, NEW now \in Now, CreateInvite(c, now) PROVE IInv'
  BY <1>0, <1>1, OtherKeepsIInv DEF CreateInvite, deviceVars, tokenVars
<1>2. ASSUME NEW c \in Codes, NEW now \in Now, NEW a \in Accounts, NEW h \in Hwids,
             RedeemInvite(c, a, h, now)
      PROVE IInv'
  <2>1. IssuePair(a, h, now, NewChain, {})
    BY <1>2 DEF RedeemInvite
  <2>2. /\ a \in registered' /\ h \in slots'[a] /\ a \notin suspended
        /\ registered \subseteq registered'
        /\ \A b \in Accounts : slots[b] \subseteq slots'[b] \/ b \notin registered
        /\ UNCHANGED <<suspended, generation, burned>>
    BY <1>0, <1>2 DEF RedeemInvite, TypeOK
  <2>3. now \in Nat /\ NewChain \in 1..(Len(issued) + 1) /\ {} \in SUBSET DOMAIN issued
    BY <1>0, IssuedData
  <2> QED
    BY <1>0, <2>1, <2>2, <2>3, IssueKeepsIInv DEF NewChain
<1>3. ASSUME NEW a \in Accounts, NEW now \in Now, NEW h \in Hwids, LoginOk(a, h, now)
      PROVE IInv'
  <2>1. IssuePair(a, h, now, NewChain, {})
    BY <1>3 DEF LoginOk
  <2>2. /\ a \in registered' /\ h \in slots'[a] /\ a \notin suspended
        /\ registered \subseteq registered'
        /\ \A b \in Accounts : slots[b] \subseteq slots'[b] \/ b \notin registered
        /\ UNCHANGED <<suspended, generation, burned>>
    BY <1>0, <1>3 DEF LoginOk, PasswordChecked, TypeOK
  <2>3. now \in Nat /\ NewChain \in 1..(Len(issued) + 1) /\ {} \in SUBSET DOMAIN issued
    BY <1>0, IssuedData
  <2> QED
    BY <1>0, <2>1, <2>2, <2>3, IssueKeepsIInv DEF NewChain
<1>4. ASSUME NEW a \in Accounts, NEW now \in Now, NEW h \in Hwids, LoginNoSlot(a, h, now)
      PROVE IInv'
  BY <1>0, <1>4, OtherKeepsIInv DEF LoginNoSlot, deviceVars, tokenVars
<1>5. ASSUME NEW a \in Accounts, NEW now \in Now, LoginWrongPassword(a, now)
      PROVE IInv'
  BY <1>0, <1>5, OtherKeepsIInv DEF LoginWrongPassword, deviceVars, tokenVars
<1>6. ASSUME NEW i \in DOMAIN issued, NEW now \in Now, RefreshOk(i, now)
      PROVE IInv'
  <2> DEFINE a == issued[i].account
             h == issued[i].hwid
             root == issued[i].root
  <2>1. IssuePair(a, h, now, root, {i}) /\ i \in refresh[a] /\ i \notin rotated
    BY <1>6 DEF RefreshOk, Live, Suspicious
  <2>2. a \in Accounts /\ h \in Hwids /\ {i} \in SUBSET DOMAIN issued /\ now \in Nat
    BY <1>0, IssuedData
  <2>3. a \in registered /\ root \in 1..(Len(issued) + 1)
    BY <1>0, IssuedData DEF IInv, PairsInv
  <2>4. h \in slots[a] /\ a \notin suspended
    BY <2>1, <2>2 DEF IInv, RefreshInv, PairsInv
  <2>5. /\ a \in registered' /\ h \in slots'[a] /\ registered \subseteq registered'
        /\ \A b \in Accounts : slots[b] \subseteq slots'[b] \/ b \notin registered
        /\ UNCHANGED <<suspended, generation, burned>>
    BY <1>6, <2>3, <2>4 DEF RefreshOk, deviceVars
  <2> HIDE DEF a, h, root
  <2> QED
    BY <1>0, <2>1, <2>2, <2>3, <2>4, <2>5, IssueKeepsIInv DEF a, root
<1>7. ASSUME NEW i \in DOMAIN issued, NEW h \in Hwids, RefreshReuse(i, h)
      PROVE IInv'
  <2> DEFINE a == issued[i].account
  <2>1. a \in Accounts
    BY <1>0, IssuedData
  <2>2. DropSessions(a) /\ UNCHANGED <<registered, issued, rotated, slots, suspended>>
    BY <1>7 DEF RefreshReuse, deviceVars
  <2>3. \A j \in DOMAIN issued :
          issued[j].root \in burned' \ burned => issued[j].account = a
    BY <1>7 DEF RefreshReuse, IInv, PairsInv
  <2> HIDE DEF a
  <2> QED
    BY <1>0, <2>1, <2>2, <2>3, DropKeepsIInv
<1>8. ASSUME NEW a \in Accounts, Suspend(a) PROVE IInv'
  BY <1>0, <1>8, DropKeepsIInv DEF Suspend, deviceVars
<1>9. ASSUME NEW a \in Accounts, Unsuspend(a) PROVE IInv'
  BY <1>0, <1>9, OtherKeepsIInv DEF Unsuspend, deviceVars, tokenVars
<1>10. ASSUME NEW a \in Accounts, ResetHwid(a) PROVE IInv'
  <2>1. \A b \in Accounts \ {a} : slots'[b] = slots[b]
    BY <1>0, <1>10 DEF ResetHwid, TypeOK
  <2> QED
    BY <1>0, <1>10, <2>1, DropKeepsIInv DEF ResetHwid
<1>11. ASSUME NEW a \in Accounts, NEW n \in SlotLimits, SetMaxSlots(a, n) PROVE IInv'
  BY <1>0, <1>11, OtherKeepsIInv DEF SetMaxSlots, tokenVars
<1>12. ASSUME Tick PROVE IInv'
  BY <1>0, <1>12, OtherKeepsIInv DEF Tick, deviceVars, tokenVars
<1>13. ASSUME UNCHANGED authVars PROVE IInv'
  BY <1>0, <1>13, OtherKeepsIInv DEF authVars, deviceVars, tokenVars
<1> QED
  BY <1>1, <1>2, <1>3, <1>4, <1>5, <1>6, <1>7, <1>8, <1>9, <1>10, <1>11, <1>12, <1>13
  DEF Next, InviteNext, LoginNext, RefreshNext, AdminNext

(***************************************************************************)
(* The inductive invariant holds of an empty store.                        *)
(***************************************************************************)
LEMMA InitIInv == Init => IInv
  BY InitTypeOK
  DEF Init, IInv, PairsInv, RefreshInv, BurnedInv, OneExchangeablePerLogin

-----------------------------------------------------------------------------
(***************************************************************************)
(* The invariant the other theorems rest on.                               *)
(***************************************************************************)
THEOREM Invariance == Spec => []IInv
  BY InitIInv, NextIInv, PTL DEF Spec

(***************************************************************************)
(* The store stays well typed.                                             *)
(***************************************************************************)
THEOREM TypeCorrect == Spec => []TypeOK
<1>1. IInv => TypeOK
  BY DEF IInv
<1> QED
  BY <1>1, Invariance, PTL

(***************************************************************************)
(* A session exists only on a bound device of an account that runs.        *)
(***************************************************************************)
THEOREM SessionsBound == Spec => []SessionsAreBound
<1>1. IInv => SessionsAreBound
  <2> SUFFICES ASSUME IInv, NEW i \in DOMAIN issued
               PROVE  /\ Live(i) \/ ~Revoked(i) => Bound(i)
                      /\ \A h \in Hwids, now \in Now :
                           AccessAccepted(i, h, now) => ~Revoked(i) /\ h = issued[i].hwid
    BY DEF SessionsAreBound, Bound
  <2>1. issued[i].account \in Accounts
    BY IssuedData DEF IInv
  <2>2. Live(i) \/ ~Revoked(i) => issued[i].gen = generation[issued[i].account]
    BY <2>1 DEF Live, Revoked, IInv, RefreshInv
  <2>3. Live(i) \/ ~Revoked(i) => Bound(i)
    BY <2>2 DEF IInv, PairsInv, Bound
  <2> QED
    BY <2>3 DEF AccessAccepted
<1> QED
  BY <1>1, Invariance, PTL

(***************************************************************************)
(* A login never has two refresh tokens that can be exchanged.             *)
(***************************************************************************)
THEOREM OneExchangeable == Spec => []OneExchangeablePerLogin
<1>1. IInv => OneExchangeablePerLogin
  BY DEF IInv
<1> QED
  BY <1>1, Invariance, PTL

(***************************************************************************)
(* After a reuse no token of the login is worth anything.                  *)
(***************************************************************************)
THEOREM BurnedStayDead == Spec => []BurnedLoginsStayDead
<1>1. IInv => BurnedLoginsStayDead
  <2> SUFFICES ASSUME IInv, NEW i \in DOMAIN issued, issued[i].root \in burned
               PROVE  ~Live(i) /\ Revoked(i)
    BY DEF BurnedLoginsStayDead
  <2>1. issued[i] \in Pair /\ issued[i].account \in Accounts
    BY IssuedData DEF IInv
  <2>2. issued[i].gen < generation[issued[i].account]
    BY DEF IInv, BurnedInv
  <2>3. issued[i].gen # generation[issued[i].account]
    BY <2>1, <2>2 DEF Pair, IInv, TypeOK
  <2> QED
    BY <2>1, <2>3 DEF Live, Revoked, IInv, RefreshInv
<1> QED
  BY <1>1, Invariance, PTL

(***************************************************************************)
(* A pair is revoked for good exactly when its generation is an old one:   *)
(* an account that is stopped has no pair of its current generation.       *)
(***************************************************************************)
LEMMA RevokedIsOld ==
  ASSUME IInv, NEW i \in DOMAIN issued
  PROVE  Revoked(i) <=> issued[i].gen < generation[issued[i].account]
<1>1. issued[i] \in Pair /\ issued[i].account \in Accounts
  BY IssuedData DEF IInv
<1>2. issued[i].gen \in Nat /\ generation[issued[i].account] \in Nat
  BY <1>1 DEF IInv, TypeOK, Pair
<1>3. issued[i].gen <= generation[issued[i].account]
  BY DEF IInv, PairsInv
<1>4. issued[i].account \in suspended => issued[i].gen # generation[issued[i].account]
  BY DEF IInv, PairsInv
<1> QED
  BY <1>2, <1>3, <1>4 DEF Revoked

(***************************************************************************)
(* No call takes a pair off the list or an account back to an older        *)
(* generation.                                                             *)
(***************************************************************************)
LEMMA GenerationsGrow ==
  ASSUME IInv, [Next]_authVars
  PROVE  /\ \A a \in Accounts : generation'[a] >= generation[a]
         /\ \A i \in DOMAIN issued : i \in DOMAIN issued' /\ issued'[i] = issued[i]
<1>0. /\ TypeOK /\ Len(issued) \in Nat /\ DOMAIN issued = 1..Len(issued)
      /\ \A a \in Accounts : generation[a] \in Nat
  BY IssuedData DEF IInv, TypeOK
<1>1. ASSUME NEW a \in Accounts, NEW h \in Hwids, NEW now \in Now, NEW root \in Nat,
             NEW R, IssuePair(a, h, now, root, R)
      PROVE  \A i \in DOMAIN issued : i \in DOMAIN issued' /\ issued'[i] = issued[i]
  <2> DEFINE p == [account |-> a, hwid |-> h, at |-> now,
                   gen |-> generation[a], root |-> root]
  <2>1. issued' = Append(issued, p) /\ p \in Pair
    BY <1>0, <1>1, IssuedData DEF IssuePair, Pair
  <2> HIDE DEF p
  <2> QED
    BY <1>0, <2>1 DEF TypeOK
<1>2. CASE InviteNext
  <2>1. generation' = generation
    BY <1>2 DEF InviteNext, CreateInvite, RedeemInvite
  <2>2. NewChain \in Nat
    BY <1>0 DEF NewChain
  <2> QED
    BY <1>0, <1>1, <1>2, <2>1, <2>2 DEF InviteNext, CreateInvite, RedeemInvite, tokenVars
<1>3. CASE LoginNext
  <2>1. generation' = generation
    BY <1>3 DEF LoginNext, LoginOk, LoginNoSlot, LoginWrongPassword
  <2>2. NewChain \in Nat
    BY <1>0 DEF NewChain
  <2> QED
    BY <1>0, <1>1, <1>3, <2>1, <2>2
    DEF LoginNext, LoginOk, LoginNoSlot, LoginWrongPassword, tokenVars
<1>4. CASE \E i \in DOMAIN issued, now \in Now : RefreshOk(i, now)
  <2>1. PICK i \in DOMAIN issued, now \in Now : RefreshOk(i, now)
    BY <1>4
  <2>2. /\ IssuePair(issued[i].account, issued[i].hwid, now, issued[i].root, {i})
        /\ generation' = generation
    BY <2>1 DEF RefreshOk
  <2>3. issued[i].account \in Accounts /\ issued[i].hwid \in Hwids /\ issued[i].root \in Nat
    BY <1>0, IssuedData DEF IInv, PairsInv
  <2> QED
    BY <1>0, <1>1, <2>2, <2>3
<1>5. ASSUME NEW a \in Accounts, DropSessions(a), issued' = issued
      PROVE  /\ \A b \in Accounts : generation'[b] >= generation[b]
             /\ \A i \in DOMAIN issued : i \in DOMAIN issued' /\ issued'[i] = issued[i]
  BY <1>0, <1>5, DropSessionsEffect
<1>6. CASE \E i \in DOMAIN issued, h \in Hwids : RefreshReuse(i, h)
  BY <1>0, <1>5, <1>6, IssuedData DEF RefreshReuse
<1>7. CASE AdminNext
  BY <1>0, <1>5, <1>7 DEF AdminNext, Suspend, Unsuspend, ResetHwid, SetMaxSlots, tokenVars
<1>8. CASE Tick \/ UNCHANGED authVars
  BY <1>0, <1>8 DEF Tick, authVars, tokenVars
<1> QED
  BY <1>2, <1>3, <1>4, <1>6, <1>7, <1>8 DEF Next, RefreshNext

(***************************************************************************)
(* A revoked access token is never accepted again.                         *)
(***************************************************************************)
THEOREM RevocationFinal == Spec => RevocationIsFinal
<1>1. IInv /\ IInv' /\ [Next]_authVars
        => [\A i \in DOMAIN issued : Revoked(i) => Revoked(i)']_authVars
  <2> SUFFICES ASSUME IInv, IInv', [Next]_authVars, NEW i \in DOMAIN issued, Revoked(i)
               PROVE  Revoked(i)'
    OBVIOUS
  <2>1. issued[i].gen < generation[issued[i].account]
    BY RevokedIsOld
  <2>2. /\ issued'[i] = issued[i] /\ i \in DOMAIN issued'
        /\ issued[i].account \in Accounts /\ issued[i] \in Pair
        /\ generation'[issued[i].account] >= generation[issued[i].account]
    BY GenerationsGrow, IssuedData DEF IInv
  <2>3. /\ issued[i].gen \in Nat
        /\ generation[issued[i].account] \in Nat
        /\ generation'[issued[i].account] \in Nat
    BY <2>2 DEF IInv, TypeOK, Pair
  <2>4. issued'[i].gen # generation'[issued'[i].account]
    BY <2>1, <2>2, <2>3
  <2> QED
    BY <2>4 DEF Revoked
<1>2. IInv /\ [Next]_authVars => IInv'
  BY NextIInv
<1> QED
  BY <1>1, Invariance, PTL DEF Spec, RevocationIsFinal

-----------------------------------------------------------------------------
(* Wrong passwords.                                                        *)

\* How far apart the first and the last of LOCKOUT_THRESHOLD + 1 wrong
\* passwords are at least.
Gap == LOCKOUT_SECS - MaxLag

\* What the list g of wrong guesses says when T of them lock, f of them are
\* counted, the account is locked until `lock' and the time is c: all but the
\* last f were followed by a lock, and the guess after a lock came a gap later.
Spaced(T, gap, g, f, lock, c) ==
  /\ f <= Len(g) /\ Len(g) <= T + 1
  /\ \A j \in 1..Len(g) : g[j] <= c
  /\ \A j, k \in 1..Len(g) : j <= k => g[j] <= g[k]
  /\ (Len(g) > f /\ f = 0) => lock >= g[Len(g)] + gap
  /\ (Len(g) > f /\ f > 0) => g[Len(g) - f + 1] - g[Len(g) - f] >= gap
  /\ (Len(g) > T /\ f = 0) => g[2] - g[1] >= gap

\* The wrong passwords of every account are spaced by its lock.
GuessInv ==
  \A a \in Accounts :
    Spaced(LOCKOUT_THRESHOLD, Gap, guesses[a], failed[a], lockedUntil[a], clock)

(***************************************************************************)
(* The constants the lock is computed from are numbers.                    *)
(***************************************************************************)
LEMMA LockConstants ==
  /\ LOCKOUT_THRESHOLD \in Nat \ {0}
  /\ LOCKOUT_SECS \in Nat
  /\ MaxLag \in Nat
  /\ Gap \in Int
<1>1. LOCKOUT_THRESHOLD \in Nat \ {0} /\ LOCKOUT_SECS \in Nat /\ MaxLag \in Nat
  BY AuthAssumption
<1> QED
  BY <1>1 DEF Gap

(***************************************************************************)
(* Guesses that are spaced stay so while the clock goes on.                *)
(***************************************************************************)
LEMMA SpacedLater ==
  ASSUME NEW T, NEW gap, NEW g \in Seq(Nat), NEW f, NEW lock, NEW c \in Nat,
         Spaced(T, gap, g, f, lock, c)
  PROVE  Spaced(T, gap, g, f, lock, c + 1)
<1>1. ASSUME NEW j \in 1..Len(g) PROVE g[j] <= c + 1
  <2>1. g[j] <= c
    BY DEF Spaced
  <2>2. g[j] \in Nat
    OBVIOUS
  <2> QED
    BY <2>1, <2>2
<1>2. \A j \in 1..Len(g) : g[j] <= c + 1
  BY <1>1
<1> QED
  BY <1>2, Zenon DEF Spaced

(***************************************************************************)
(* One more wrong guess, found at time c by a caller that read `now',      *)
(* leaves the list spaced; the oldest guess is dropped from a full list.   *)
(***************************************************************************)
LEMMA WrongGuessSpaced ==
  ASSUME NEW T \in Nat \ {0}, NEW secs \in Nat,
         NEW g \in Seq(Nat), NEW f \in 0..(T - 1), NEW lock \in Nat,
         NEW c \in Nat, NEW now \in Nat, now <= c, c - now <= MaxLag, now >= lock,
         Spaced(T, secs - MaxLag, g, f, lock, c)
  PROVE  LET past == Append(g, c)
             locks == f + 1 >= T
         IN Spaced(T, secs - MaxLag,
                   IF Len(past) > T + 1 THEN Tail(past) ELSE past,
                   IF locks THEN 0 ELSE f + 1,
                   IF locks THEN now + secs ELSE lock, c)
<1> DEFINE gap == secs - MaxLag
           n == Len(g)
           past == Append(g, c)
           locks == f + 1 >= T
           f2 == IF locks THEN 0 ELSE f + 1
           lock2 == IF locks THEN now + secs ELSE lock
<1>0. /\ T \in Nat \ {0} /\ secs \in Nat /\ MaxLag \in Nat
      /\ n \in Nat /\ gap \in Int
      /\ \A j \in 1..n : g[j] \in Nat
  BY LockConstants
<1>1. /\ past \in Seq(Nat) /\ Len(past) = n + 1
      /\ \A j \in 1..n : past[j] = g[j]
      /\ past[n + 1] = c
  BY <1>0
<1>2. f2 \in 0..(T - 1) /\ lock2 \in Nat
  BY <1>0
\* The list before a guess is dropped, one longer than Spaced allows.
<1>3. /\ \A j \in 1..(n + 1) : past[j] \in Nat /\ past[j] <= c
      /\ \A j, k \in 1..(n + 1) : j <= k => past[j] <= past[k]
  <2> HIDE DEF past
  <2>1. \A j \in 1..n : past[j] \in Nat /\ past[j] <= c
    BY <1>0, <1>1 DEF Spaced
  <2>2. \A j, k \in 1..n : j <= k => past[j] <= past[k]
    BY <1>0, <1>1 DEF Spaced
  <2>3. \A j \in 1..(n + 1) : j \in 1..n \/ j = n + 1
    BY <1>0
  <2>4. \A j \in 1..(n + 1) : past[j] \in Nat /\ past[j] <= c
    BY <1>1, <2>1, <2>3
  <2>5. ASSUME NEW j \in 1..(n + 1), NEW k \in 1..(n + 1), j <= k
        PROVE  past[j] <= past[k]
    <3>1. CASE k = n + 1
      BY <3>1, <1>1, <2>4
    <3>2. CASE k # n + 1
      BY <3>2, <2>2, <2>3, <2>5, <1>0
    <3> QED
      BY <3>1, <3>2
  <2> QED
    BY <2>4, <2>5
<1>4. f2 = 0 => lock2 >= c + gap
  BY <1>0
<1>5. n > 0 /\ f = 0 => c - g[n] >= gap
  BY <1>0 DEF Spaced
<1>6. f2 > 0 /\ n + 1 > f2 => past[n + 1 - f2 + 1] - past[n + 1 - f2] >= gap
  <2>1. CASE f = 0
    BY <2>1, <1>0, <1>1, <1>5
  <2>2. CASE f > 0
    BY <2>2, <1>0, <1>1 DEF Spaced
  <2> QED
    BY <2>1, <2>2, <1>0
<1>7. f2 = 0 /\ n + 1 > T => past[n + 1 - T + 1] - past[n + 1 - T] >= gap
  <2>1. CASE f = 0
    BY <2>1, <1>0, <1>1, <1>5
  <2>2. CASE f > 0
    BY <2>2, <1>0, <1>1 DEF Spaced
  <2> QED
    BY <2>1, <2>2, <1>0
<1>8. CASE n + 1 <= T + 1
  <2>1. Spaced(T, gap, past, f2, lock2, c)
    <3>1. Len(past) > T /\ f2 = 0 => past[2] - past[1] >= gap
      BY <1>0, <1>1, <1>7, <1>8
    <3>2. f2 <= Len(past) /\ Len(past) <= T + 1
      BY <1>0, <1>1, <1>8 DEF Spaced
    <3>3. f2 = 0 => lock2 >= past[Len(past)] + gap
      BY <1>1, <1>4
    <3> HIDE DEF past, f2, lock2
    <3> QED
      BY <1>0, <1>1, <1>2, <1>3, <1>6, <3>1, <3>2, <3>3 DEF Spaced
  <2> QED
    BY <1>0, <1>1, <1>8, <2>1
<1>9. CASE n + 1 > T + 1
  <2> DEFINE g2 == Tail(past)
  <2>1. n = T + 1
    BY <1>0, <1>9 DEF Spaced
  <2>2. /\ g2 \in Seq(Nat) /\ Len(g2) = n
        /\ \A j \in 1..n : g2[j] = past[j + 1]
    BY <1>0, <1>1
  <2>3. Spaced(T, gap, g2, f2, lock2, c)
    <3>1. f2 = 0 => g2[2] - g2[1] >= gap
      BY <1>0, <1>7, <2>1, <2>2
    <3>2. f2 <= Len(g2) /\ Len(g2) <= T + 1
      <4> HIDE DEF g2, f2, past
      <4> QED
        BY <1>0, <1>2, <2>1, <2>2
    <3>3. f2 > 0 => g2[n - f2 + 1] - g2[n - f2] >= gap
      <4> HIDE DEF g2, f2, past
      <4> SUFFICES ASSUME f2 > 0 PROVE g2[n - f2 + 1] - g2[n - f2] >= gap
        OBVIOUS
      <4>1. n - f2 + 1 \in 1..n /\ n - f2 \in 1..n
        BY <1>0, <1>2, <2>1
      <4>2. g2[n - f2 + 1] = past[n - f2 + 1 + 1] /\ g2[n - f2] = past[n - f2 + 1]
        BY <4>1, <2>2
      <4>3. n - f2 + 1 = n + 1 - f2 /\ n - f2 + 1 + 1 = n + 1 - f2 + 1 /\ n + 1 > f2
        BY <1>0, <1>2, <2>1
      <4> QED
        BY <4>2, <4>3, <1>6
    <3>4. /\ \A j \in 1..n : g2[j] <= c
          /\ \A j, k \in 1..n : j <= k => g2[j] <= g2[k]
      <4> HIDE DEF g2, past
      <4>1. \A j \in 1..n : j + 1 \in 1..(n + 1)
        BY <1>0
      <4>2. \A j, k \in 1..n : j <= k => j + 1 <= k + 1
        BY <1>0
      <4> QED
        BY <4>1, <4>2, <1>3, <2>2
    <3>5. f2 = 0 => lock2 >= g2[n] + gap
      BY <1>0, <1>1, <1>4, <2>1, <2>2
    <3> HIDE DEF g2, f2, lock2
    <3> QED
      BY <1>0, <2>2, <3>1, <3>2, <3>3, <3>4, <3>5 DEF Spaced
  <2> QED
    BY <1>0, <1>1, <1>9, <2>3
<1> QED
  BY <1>0, <1>8, <1>9

(***************************************************************************)
(* T + 1 spaced guesses take a gap at least.                               *)
(***************************************************************************)
LEMMA SpacedIsSlow ==
  ASSUME NEW T \in Nat \ {0}, NEW gap \in Int, NEW g \in Seq(Nat),
         NEW f \in 0..(T - 1), NEW lock \in Nat, NEW c \in Nat,
         Spaced(T, gap, g, f, lock, c), Len(g) = T + 1
  PROVE  g[T + 1] - g[1] >= gap
<1>1. \A j \in 1..(T + 1) : g[j] \in Nat
  OBVIOUS
<1>2. \A j, k \in 1..(T + 1) : j <= k => g[j] <= g[k]
  BY DEF Spaced
<1>3. PICK m \in 1..T : g[m + 1] - g[m] >= gap
  <2>1. CASE f = 0
    BY <2>1 DEF Spaced
  <2>2. CASE f > 0
    <3>1. g[T + 1 - f + 1] - g[T + 1 - f] >= gap
      BY <2>2 DEF Spaced
    <3>2. T + 1 - f \in 1..T
      BY <2>2
    <3> QED
      BY <3>1, <3>2
  <2> QED
    BY <2>1, <2>2
<1>4. g[1] <= g[m] /\ g[m + 1] <= g[T + 1]
  BY <1>2
<1>5. m \in Nat /\ g[1] \in Nat /\ g[m] \in Nat /\ g[m + 1] \in Nat /\ g[T + 1] \in Nat
  BY <1>1
<1> QED
  BY <1>3, <1>4, <1>5

(***************************************************************************)
(* Every call keeps the guesses spaced; only login touches them.           *)
(***************************************************************************)
LEMMA NextGuessInv ==
  ASSUME TypeOK, TypeOK', GuessInv, [Next]_authVars
  PROVE  GuessInv'
<1>0. /\ clock \in Nat /\ LOCKOUT_THRESHOLD \in Nat \ {0} /\ LOCKOUT_SECS \in Nat
      /\ Gap \in Int
      /\ \A a \in Accounts : /\ guesses[a] \in Seq(Nat)
                             /\ failed[a] \in 0..(LOCKOUT_THRESHOLD - 1)
                             /\ lockedUntil[a] \in Nat
  BY LockConstants DEF TypeOK
<1>1. CASE UNCHANGED lockVars /\ clock' = clock
  BY <1>1 DEF GuessInv, lockVars
<1>2. CASE Tick
  <2> SUFFICES ASSUME NEW a \in Accounts
               PROVE  Spaced(LOCKOUT_THRESHOLD, Gap, guesses[a], failed[a], lockedUntil[a], clock + 1)
    BY <1>2 DEF Tick, GuessInv, lockVars
  <2>1. Spaced(LOCKOUT_THRESHOLD, Gap, guesses[a], failed[a], lockedUntil[a], clock)
    BY DEF GuessInv
  <2> QED
    BY <2>1, <1>0, SpacedLater
<1>3. ASSUME NEW a \in Accounts, failed' = [failed EXCEPT ![a] = 0],
             guesses' = [guesses EXCEPT ![a] = << >>],
             UNCHANGED <<lockedUntil, clock>>
      PROVE  GuessInv'
  <2> SUFFICES ASSUME NEW b \in Accounts
               PROVE  Spaced(LOCKOUT_THRESHOLD, Gap, guesses'[b], failed'[b], lockedUntil[b], clock)
    BY <1>3 DEF GuessInv
  <2>1. CASE b = a
    <3>1. guesses'[b] = << >> /\ failed'[b] = 0
      BY <2>1, <1>3 DEF TypeOK
    <3> QED
      BY <3>1, <1>0 DEF Spaced
  <2>2. CASE b # a
    BY <2>2, <1>3 DEF GuessInv, TypeOK
  <2> QED
    BY <2>1, <2>2
<1>4. ASSUME NEW a \in Accounts, NEW now \in Now, LoginWrongPassword(a, now)
      PROVE  GuessInv'
  <2> SUFFICES ASSUME NEW b \in Accounts
               PROVE  Spaced(LOCKOUT_THRESHOLD, Gap, guesses'[b], failed'[b], lockedUntil'[b], clock)
    BY <1>4 DEF GuessInv, LoginWrongPassword
  <2>1. now \in Nat /\ now <= clock /\ clock - now <= MaxLag
    BY <1>0 DEF Now
  <2>2. CASE b = a
    <3> DEFINE past == Append(guesses[a], clock)
               locks == failed[a] + 1 >= LOCKOUT_THRESHOLD
    <3>1. /\ failed'[a] = IF locks THEN 0 ELSE failed[a] + 1
          /\ lockedUntil'[a] = IF locks THEN now + LOCKOUT_SECS ELSE lockedUntil[a]
          /\ guesses'[a] = IF Len(past) > LOCKOUT_THRESHOLD + 1 THEN Tail(past) ELSE past
      BY <1>4 DEF LoginWrongPassword, TypeOK
    <3>2. now >= lockedUntil[a]
      BY <1>4 DEF LoginWrongPassword, PasswordChecked
    <3>3. Spaced(LOCKOUT_THRESHOLD, Gap, guesses[a], failed[a], lockedUntil[a], clock)
      BY DEF GuessInv
    <3> HIDE DEF past, locks
    <3>4. Spaced(LOCKOUT_THRESHOLD, Gap,
                 IF Len(past) > LOCKOUT_THRESHOLD + 1 THEN Tail(past) ELSE past,
                 IF locks THEN 0 ELSE failed[a] + 1,
                 IF locks THEN now + LOCKOUT_SECS ELSE lockedUntil[a], clock)
      BY <2>1, <3>2, <3>3, <1>0, WrongGuessSpaced DEF past, locks, Gap
    <3> QED
      BY <2>2, <3>1, <3>4
  <2>3. CASE b # a
    BY <2>3, <1>4 DEF GuessInv, LoginWrongPassword, TypeOK
  <2> QED
    BY <2>2, <2>3
<1>5. CASE InviteNext \/ RefreshNext \/ AdminNext \/ UNCHANGED authVars
  BY <1>1, <1>5
  DEF InviteNext, CreateInvite, RedeemInvite, RefreshNext, RefreshOk, RefreshReuse,
      AdminNext, Suspend, Unsuspend, ResetHwid, SetMaxSlots, authVars
<1>6. CASE LoginNext
  BY <1>3, <1>4, <1>6 DEF LoginNext, LoginOk, LoginNoSlot
<1> QED
  BY <1>2, <1>5, <1>6 DEF Next

(***************************************************************************)
(* Guessing a password is slow, for every threshold and every lock time.   *)
(***************************************************************************)
THEOREM GuessingSlow == Spec => []GuessingIsSlow
<1>1. Init => GuessInv
  BY AuthAssumption DEF Init, GuessInv, Spaced
<1>2. IInv /\ IInv' /\ GuessInv /\ [Next]_authVars => GuessInv'
  BY NextGuessInv DEF IInv
<1>3. IInv /\ GuessInv => GuessingIsSlow
  <2> SUFFICES ASSUME IInv, GuessInv, NEW a \in Accounts,
                      Len(guesses[a]) = LOCKOUT_THRESHOLD + 1
               PROVE  guesses[a][LOCKOUT_THRESHOLD + 1] - guesses[a][1] >= Gap
    BY DEF GuessingIsSlow, Gap
  <2>1. /\ LOCKOUT_THRESHOLD \in Nat \ {0} /\ Gap \in Int /\ clock \in Nat
        /\ guesses[a] \in Seq(Nat) /\ failed[a] \in 0..(LOCKOUT_THRESHOLD - 1)
        /\ lockedUntil[a] \in Nat
    BY LockConstants DEF IInv, TypeOK
  <2>2. Spaced(LOCKOUT_THRESHOLD, Gap, guesses[a], failed[a], lockedUntil[a], clock)
    BY DEF GuessInv
  <2> QED
    BY <2>1, <2>2, SpacedIsSlow
<1> QED
  BY <1>1, <1>2, <1>3, Invariance, PTL DEF Spec

-----------------------------------------------------------------------------
(* Part 2: the handlers of the broker.                                     *)

(* Times.                                                                  *)

\* A time a handler read is a number not later than the clock, and not older
\* than a handler may wait for the mutex.
LEMMA NowIsNat ==
  ASSUME TypeOK, NEW now \in Now
  PROVE  /\ now \in Nat /\ clock \in Nat
         /\ now <= clock /\ clock - now <= MaxLag
BY DEF TypeOK, Now

-----------------------------------------------------------------------------
(* The composition implements the store of whisper-auth.                   *)

\* Every handler makes one call of AuthStore at most.
LEMMA HandlerIsCall ==
  ASSUME MembersTypeOK, [MembersNext]_membersVars
  PROVE  [Next]_authVars
<1>1. CASE AdminSetup \/ Restart \/ UNCHANGED membersVars
  BY <1>1 DEF AdminSetup, Restart, membersVars
<1>2. CASE \E now \in Now : AdminLogin(now) \/ AdminWrong(now)
  BY <1>2 DEF AdminLogin, AdminWrong
<1>3. CASE AuthOnly
  BY <1>3 DEF AuthOnly, Next, LoginNext
<1>4. CASE \E c \in Codes, a \in Accounts, opening \in Openings, now \in Now :
             Invite(c, a, opening, now)
  BY <1>4 DEF Invite, PanelInvites, Next, InviteNext
<1>5. ASSUME NEW c \in Codes, NEW h \in Hwids, NEW now \in Now, Redeem(c, h, now)
      PROVE  Next
  <2>1. panelInvites[c].username \in Accounts
    BY <1>5 DEF Redeem, MembersTypeOK, PanelInvite
  <2>2. RedeemInvite(c, panelInvites[c].username, h, now)
    BY <1>5 DEF Redeem
  <2> QED
    BY <2>1, <2>2 DEF Next, InviteNext
<1>6. ASSUME NEW a \in Accounts, NEW now \in Now,
             \/ \E h \in Hwids : Login(a, h, now)
             \/ ResetDevices(a, now) \/ Stop(a, now) \/ Resume(a, now)
      PROVE  Next \/ UNCHANGED authVars
  BY <1>6 DEF Login, ResetDevices, Stop, Resume, Next, LoginNext, AdminNext
<1> QED
  BY <1>1, <1>2, <1>3, <1>4, <1>5, <1>6 DEF MembersNext

\* A Members state starts as an AuthStore state.
LEMMA MembersInitTypeOK == MembersInit => MembersTypeOK
<1> SUFFICES ASSUME MembersInit PROVE MembersTypeOK
  OBVIOUS
<1>1. TypeOK
  BY InitTypeOK DEF MembersInit
<1>2. DOMAIN panelInvites = {} /\ DOMAIN panel = {}
  BY DEF MembersInit
<1>3. adminFailed \in 0..(MAX_FAILED - 1)
  BY MembersAssumption DEF MembersInit
<1>4. /\ credited \in [Accounts -> Nat]
      /\ adminHash \in BOOLEAN /\ adminLocked \in Nat
      /\ adminTokens \subseteq Nat
  BY DEF MembersInit
<1>5. adminGuesses \in Seq(Nat)
  BY DEF MembersInit
<1> QED
  BY <1>1, <1>2, <1>3, <1>4, <1>5 DEF MembersTypeOK

-----------------------------------------------------------------------------
(* What a handler does to the panel's half.                                *)

\* The account of a is what it was but for its devices and suspension, and
\* the other accounts are what they were.
PanelSets(a, devices, stopped) ==
  /\ DOMAIN panel' = DOMAIN panel
  /\ panel'[a].devices = devices
  /\ panel'[a].suspended = stopped
  /\ panel'[a].balance = panel[a].balance
  /\ panel'[a] \in PanelAccount
  /\ \A b \in DOMAIN panel \ {a} : panel'[b] = panel[b]

\* Another set of devices (bind_device, hwid_reset).
LEMMA SetsDevices ==
  ASSUME MembersTypeOK, NEW a \in DOMAIN panel, NEW D \in SUBSET Hwids,
         panel' = [panel EXCEPT ![a].devices = D]
  PROVE  PanelSets(a, D, panel[a].suspended)
<1>1. panel[a] \in PanelAccount
  BY DEF MembersTypeOK
<1>2. panel'[a] = [panel[a] EXCEPT !.devices = D]
  OBVIOUS
<1> QED
  BY <1>1, <1>2 DEF PanelSets, PanelAccount

\* Another suspension (PanelState::suspend).
LEMMA SetsSuspended ==
  ASSUME MembersTypeOK, NEW a \in DOMAIN panel, NEW s \in BOOLEAN,
         panel' = [panel EXCEPT ![a].suspended = s]
  PROVE  PanelSets(a, panel[a].devices, s)
<1>1. panel[a] \in PanelAccount
  BY DEF MembersTypeOK
<1>2. panel'[a] = [panel[a] EXCEPT !.suspended = s]
  OBVIOUS
<1> QED
  BY <1>1, <1>2 DEF PanelSets, PanelAccount

-----------------------------------------------------------------------------
(* The invariant.                                                          *)

\* No handler sets a limit of devices: SetMaxSlots is not called.
SlotsDefault == \A a \in Accounts : maxSlots[a] = DEFAULT_SLOTS

\* Who redeemed an invitation is a member.
RedeemedAreMembers ==
  \A c \in DOMAIN panelInvites :
    panelInvites[c].redeemed => panelInvites[c].username \in DOMAIN panel

\* The inductive invariant.
MembersInv ==
  /\ IInv
  /\ MembersTypeOK
  /\ SlotsDefault
  /\ InvitesAgree
  /\ AccountsAgree
  /\ RedeemedAreMembers
  /\ OpeningOnce

\* It holds at the start.
LEMMA InitMembersInv == MembersInit => MembersInv
<1> SUFFICES ASSUME MembersInit PROVE MembersInv
  OBVIOUS
<1>1. IInv /\ MembersTypeOK
  BY InitIInv, MembersInitTypeOK DEF MembersInit
<1>2. /\ DOMAIN panelInvites = {} /\ DOMAIN panel = {} /\ DOMAIN invites = {}
      /\ registered = {}
  BY DEF MembersInit, Init
<1>3. SlotsDefault
  BY DEF MembersInit, Init, SlotsDefault
<1>4. InvitesAgree /\ AccountsAgree /\ RedeemedAreMembers
  BY <1>2 DEF InvitesAgree, AccountsAgree, RedeemedAreMembers
<1>5. OpeningOnce
  BY <1>2 DEF OpeningOnce, MembersInit
<1> QED
  BY <1>1, <1>3, <1>4, <1>5 DEF MembersInv

\* Handlers of the admin's login keep the types of the admin's variables.
LEMMA AdminTypeOK ==
  ASSUME MembersTypeOK, NEW now \in Now, AdminLogin(now) \/ AdminWrong(now)
  PROVE  /\ adminHash' \in BOOLEAN
         /\ adminFailed' \in 0..(MAX_FAILED - 1)
         /\ adminLocked' \in Nat
         /\ adminTokens' \subseteq Nat
         /\ adminGuesses' \in Seq(Nat)
<1>1. /\ MAX_FAILED \in Nat \ {0} /\ LOCK_SECS \in Nat
      /\ ADMIN_TOKEN_TTL_SECS \in Nat
  BY MembersAssumption
<1>2. now \in Nat /\ clock \in Nat
  BY NowIsNat DEF MembersTypeOK
<1>3. CASE AdminLogin(now)
  BY <1>1, <1>2, <1>3 DEF AdminLogin, MembersTypeOK
<1>4. CASE AdminWrong(now)
  <2> DEFINE past == Append(adminGuesses, clock)
             locks == adminFailed + 1 >= MAX_FAILED
  <2>1. past \in Seq(Nat)
    BY <1>2 DEF MembersTypeOK
  <2>2. Len(past) > MAX_FAILED + 1 => Tail(past) \in Seq(Nat)
    BY <1>1, <2>1
  <2>3. /\ adminFailed' = IF locks THEN 0 ELSE adminFailed + 1
        /\ adminLocked' = IF locks THEN now + LOCK_SECS ELSE adminLocked
        /\ adminGuesses' = IF Len(past) > MAX_FAILED + 1 THEN Tail(past) ELSE past
        /\ UNCHANGED <<adminHash, adminTokens>>
    BY <1>4 DEF AdminWrong
  <2>4. adminGuesses' \in Seq(Nat)
    BY <2>1, <2>2, <2>3
  <2>5. adminFailed' \in 0..(MAX_FAILED - 1) /\ adminLocked' \in Nat
    BY <1>1, <1>2, <2>3 DEF MembersTypeOK
  <2> QED
    BY <2>3, <2>4, <2>5 DEF MembersTypeOK
<1> QED
  BY <1>3, <1>4

\* A handler that writes neither the invitations, the accounts, the devices
\* nor the suspensions keeps the invariant.
LEMMA ElsewhereKeeps ==
  ASSUME MembersInv, IInv',
         UNCHANGED <<inviteVars, deviceVars, suspended, panelVars>>,
         adminHash' \in BOOLEAN,
         adminFailed' \in 0..(MAX_FAILED - 1),
         adminLocked' \in Nat,
         adminTokens' \subseteq Nat,
         adminGuesses' \in Seq(Nat)
  PROVE  MembersInv'
<1>1. MembersTypeOK'
  BY DEF MembersInv, MembersTypeOK, panelVars, IInv
<1>2. SlotsDefault' /\ InvitesAgree' /\ AccountsAgree' /\ RedeemedAreMembers'
  BY DEF MembersInv, SlotsDefault, InvitesAgree, AccountsAgree, RedeemedAreMembers,
     panelVars, inviteVars, deviceVars
<1>3. OpeningOnce'
  BY DEF MembersInv, OpeningOnce, OpenedBy, panelVars
<1> QED
  BY <1>1, <1>2, <1>3 DEF MembersInv

\* A handler that sets the devices or the suspension of one account, alike
\* in both stores, keeps the invariant.
LEMMA SettingKeeps ==
  ASSUME MembersInv, IInv', NEW a \in DOMAIN panel, NEW D, NEW s,
         PanelSets(a, D, s),
         UNCHANGED <<inviteVars, registered, maxSlots, panelInvites, credited, adminVars>>,
         slots'[a] = D, s <=> a \in suspended',
         \A b \in Accounts \ {a} : /\ slots'[b] = slots[b]
                                   /\ b \in suspended' <=> b \in suspended
  PROVE  MembersInv'
<1> USE DEF MembersInv
<1>1. MembersTypeOK'
  BY DEF MembersTypeOK, PanelSets, IInv, adminVars, adminAuthVars
<1>2. SlotsDefault' /\ InvitesAgree' /\ RedeemedAreMembers'
  BY DEF SlotsDefault, InvitesAgree, RedeemedAreMembers, PanelSets, inviteVars
<1>3. AccountsAgree'
  BY DEF AccountsAgree, PanelSets, MembersTypeOK
<1>4. OpeningOnce'
  <2>1. \A b \in Accounts : b \in DOMAIN panel' <=> b \in DOMAIN panel
    BY DEF PanelSets
  <2>2. \A b \in DOMAIN panel : panel'[b].balance = panel[b].balance
    BY DEF PanelSets
  <2> QED
    BY <2>1, <2>2 DEF OpeningOnce, OpenedBy
<1> QED
  BY <1>1, <1>2, <1>3, <1>4

\* create_invite keeps the invariant.
LEMMA InviteKeeps ==
  ASSUME MembersInv, IInv', NEW c \in Codes, NEW a \in Accounts,
         NEW opening \in Openings, NEW now \in Now, Invite(c, a, opening, now)
  PROVE  MembersInv'
<1> USE DEF MembersInv
<1>1. PICK invite : invite = [username |-> a, opening |-> opening,
                              expires |-> now + INVITE_TTL_SECS, redeemed |-> FALSE]
  OBVIOUS
<1>2. now \in Nat /\ INVITE_TTL_SECS \in Nat
  BY NowIsNat, AuthAssumption DEF MembersTypeOK
<1>3. invite \in PanelInvite
  BY <1>1, <1>2 DEF PanelInvite
<1>4. /\ panelInvites' = With(panelInvites, c, invite)
      /\ UNCHANGED <<panel, credited, adminVars>>
      /\ c \notin DOMAIN panelInvites
  BY <1>1 DEF Invite, PanelInvites
<1>5. /\ invites' = [d \in DOMAIN invites \cup {c} |-> IF d = c THEN now ELSE invites[d]]
      /\ UNCHANGED <<used, deviceVars, suspended>>
  BY DEF Invite, PanelInvites, CreateInvite
<1>6. /\ DOMAIN panelInvites' = DOMAIN panelInvites \cup {c}
      /\ panelInvites'[c] = invite
      /\ \A d \in DOMAIN panelInvites : panelInvites'[d] = panelInvites[d]
  BY <1>4 DEF With
<1>7. MembersTypeOK'
  BY <1>3, <1>4, <1>6 DEF MembersTypeOK, IInv, adminVars, adminAuthVars
<1>8. SlotsDefault' /\ AccountsAgree'
  BY <1>4, <1>5 DEF SlotsDefault, AccountsAgree, deviceVars
<1>9. invite.redeemed = FALSE /\ invite.expires = now + INVITE_TTL_SECS
  BY <1>1
<1>10. InvitesAgree'
  <2>1. c \notin used
    BY <1>4 DEF InvitesAgree, MembersTypeOK, TypeOK
  <2> QED
    BY <1>5, <1>6, <1>9, <2>1 DEF InvitesAgree
<1>11. RedeemedAreMembers'
  BY <1>4, <1>6, <1>9 DEF RedeemedAreMembers
<1>12. OpeningOnce'
  <2>1. \A b \in Accounts : ~OpenedBy(b, c)'
    BY <1>6, <1>9 DEF OpenedBy
  <2>2. \A b \in Accounts, d \in DOMAIN panelInvites : OpenedBy(b, d)' <=> OpenedBy(b, d)
    BY <1>6 DEF OpenedBy
  <2>3. panel' = panel /\ credited' = credited
    BY <1>4
  <2> SUFFICES ASSUME NEW b \in Accounts
               PROVE  IF b \in DOMAIN panel
                      THEN \E e \in DOMAIN panelInvites' :
                             /\ \A d \in DOMAIN panelInvites' : OpenedBy(b, d)' <=> d = e
                             /\ panelInvites'[e].opening = panel[b].balance
                             /\ credited[b] = panel[b].balance
                      ELSE credited[b] = 0
    BY <2>3 DEF OpeningOnce
  <2>4. CASE b \in DOMAIN panel
    <3>1. PICK e \in DOMAIN panelInvites :
            /\ \A d \in DOMAIN panelInvites : OpenedBy(b, d) <=> d = e
            /\ panelInvites[e].opening = panel[b].balance
            /\ credited[b] = panel[b].balance
      BY <2>4 DEF OpeningOnce
    <3>2. \A d \in DOMAIN panelInvites' : OpenedBy(b, d)' <=> d = e
      BY <1>4, <1>6, <2>1, <2>2, <3>1
    <3> QED
      BY <1>6, <2>4, <3>1, <3>2
  <2>5. CASE b \notin DOMAIN panel
    BY <2>5 DEF OpeningOnce
  <2> QED
    BY <2>4, <2>5
<1> QED
  BY <1>7, <1>8, <1>10, <1>11, <1>12

\* redeem keeps the invariant: both stores agree that the name is free.
LEMMA RedeemKeeps ==
  ASSUME MembersInv, IInv', NEW c \in Codes, NEW h \in Hwids, NEW now \in Now,
         Redeem(c, h, now)
  PROVE  MembersInv'
<1> USE DEF MembersInv
<1>1. /\ c \in DOMAIN panelInvites /\ panelInvites[c].redeemed = FALSE
      /\ panelInvites[c] \in PanelInvite
  BY DEF Redeem, MembersTypeOK, PanelInvite
<1>2. PICK a \in Accounts, opening \in Openings :
        a = panelInvites[c].username /\ opening = panelInvites[c].opening
  BY <1>1 DEF PanelInvite
<1>3. /\ opening \in Nat
      /\ RedeemInvite(c, a, h, now)
  BY <1>2, MembersAssumption DEF Redeem
<1>4. PICK account : account = [balance |-> opening, devices |-> {h}, suspended |-> FALSE]
  OBVIOUS
<1>5. a \notin DOMAIN panel
  BY <1>3 DEF RedeemInvite, AccountsAgree
<1>6. /\ panelInvites' = [panelInvites EXCEPT ![c].redeemed = TRUE]
      /\ panel' = With(panel, a, account)
      /\ credited' = [credited EXCEPT ![a] = @ + opening]
      /\ UNCHANGED adminVars
  BY <1>2, <1>5, <1>4 DEF Redeem, PanelRedeems
<1>7. /\ registered' = registered \cup {a}
      /\ slots' = [slots EXCEPT ![a] = {h}]
      /\ used' = used \cup {c}
      /\ UNCHANGED <<invites, maxSlots, suspended>>
  BY <1>3 DEF RedeemInvite
<1>8. /\ DOMAIN panel' = DOMAIN panel \cup {a}
      /\ panel'[a] = account
      /\ \A b \in DOMAIN panel : panel'[b] = panel[b]
  BY <1>5, <1>6 DEF With
<1>9. /\ account \in PanelAccount
      /\ account.balance = opening /\ account.devices = {h}
      /\ account.suspended = FALSE
  BY <1>3, <1>4 DEF PanelAccount
<1>10. /\ DOMAIN panelInvites' = DOMAIN panelInvites
      /\ panelInvites'[c] \in PanelInvite
      /\ panelInvites'[c].username = a /\ panelInvites'[c].redeemed = TRUE
      /\ panelInvites'[c].opening = opening
      /\ panelInvites'[c].expires = panelInvites[c].expires
      /\ \A d \in DOMAIN panelInvites \ {c} : panelInvites'[d] = panelInvites[d]
  BY <1>1, <1>2, <1>6 DEF PanelInvite
<1>11. /\ credited' \in [Accounts -> Nat] /\ credited'[a] = credited[a] + opening
      /\ \A b \in Accounts \ {a} : credited'[b] = credited[b]
  BY <1>3, <1>6 DEF MembersTypeOK
<1>12. MembersTypeOK'
  BY <1>3, <1>6, <1>8, <1>9, <1>10, <1>11 DEF MembersTypeOK, IInv, adminVars, adminAuthVars
<1>13. SlotsDefault' /\ InvitesAgree'
  BY <1>1, <1>7, <1>10 DEF SlotsDefault, InvitesAgree
<1>14. AccountsAgree'
  <2>1. a \notin suspended
    BY <1>5 DEF AccountsAgree, MembersTypeOK, TypeOK
  <2>2. slots'[a] = {h} /\ \A b \in Accounts \ {a} : slots'[b] = slots[b]
    BY <1>3, <1>7 DEF MembersTypeOK, TypeOK
  <2>3. DOMAIN panel = registered /\ registered \subseteq Accounts
    BY DEF AccountsAgree, MembersTypeOK, TypeOK
  <2> QED
    BY <1>5, <1>7, <1>8, <1>9, <2>1, <2>2, <2>3 DEF AccountsAgree
<1>15. RedeemedAreMembers'
  BY <1>8, <1>10 DEF RedeemedAreMembers
<1>16. OpeningOnce'
  <2>1. \A d \in DOMAIN panelInvites : ~OpenedBy(a, d)
    BY <1>5 DEF RedeemedAreMembers, OpenedBy
  <2>2. \A d \in DOMAIN panelInvites : OpenedBy(a, d)' <=> d = c
    <3>1. OpenedBy(a, c)'
      BY <1>10 DEF OpenedBy
    <3>2. ASSUME NEW d \in DOMAIN panelInvites \ {c} PROVE ~OpenedBy(a, d)'
      BY <1>10, <2>1, <3>2 DEF OpenedBy
    <3> QED
      BY <3>1, <3>2
  <2>3. ASSUME NEW b \in Accounts \ {a}, NEW d \in DOMAIN panelInvites
        PROVE  OpenedBy(b, d)' <=> OpenedBy(b, d)
    BY <1>1, <1>2, <1>10, <2>3 DEF OpenedBy
  <2>4. \A d \in DOMAIN panelInvites : panelInvites'[d].opening = panelInvites[d].opening
    BY <1>2, <1>10
  <2>5. credited[a] = 0
    BY <1>3, <1>5 DEF OpeningOnce
  <2>6. credited'[a] = opening
    BY <1>3, <1>11, <2>5
  <2> SUFFICES ASSUME NEW b \in Accounts
               PROVE  IF b \in DOMAIN panel'
                      THEN \E e \in DOMAIN panelInvites :
                             /\ \A d \in DOMAIN panelInvites : OpenedBy(b, d)' <=> d = e
                             /\ panelInvites'[e].opening = panel'[b].balance
                             /\ credited'[b] = panel'[b].balance
                      ELSE credited'[b] = 0
    BY <1>10 DEF OpeningOnce
  <2>7. CASE b = a
    BY <1>1, <1>8, <1>9, <1>10, <2>2, <2>6, <2>7
  <2>8. CASE b # a /\ b \in DOMAIN panel
    <3>1. PICK e \in DOMAIN panelInvites :
            /\ \A d \in DOMAIN panelInvites : OpenedBy(b, d) <=> d = e
            /\ panelInvites[e].opening = panel[b].balance
            /\ credited[b] = panel[b].balance
      BY <2>8 DEF OpeningOnce
    <3>2. \A d \in DOMAIN panelInvites : OpenedBy(b, d)' <=> d = e
      BY <2>3, <2>8, <3>1
    <3>3. panelInvites'[e].opening = panel'[b].balance /\ credited'[b] = panel'[b].balance
      BY <1>8, <1>11, <2>4, <2>8, <3>1
    <3> QED
      BY <1>8, <2>8, <3>2, <3>3
  <2>9. CASE b # a /\ b \notin DOMAIN panel
    BY <1>8, <1>11, <2>9 DEF OpeningOnce
  <2> QED
    BY <2>7, <2>8, <2>9
<1> QED
  BY <1>12, <1>13, <1>14, <1>15, <1>16

\* login keeps the invariant: where auth finds a free slot the panel does,
\* as both start from the same limit.
LEMMA LoginKeeps ==
  ASSUME MembersInv, IInv', NEW a \in Accounts, NEW h \in Hwids, NEW now \in Now,
         Login(a, h, now)
  PROVE  MembersInv'
<1> USE DEF MembersInv
<1>1. /\ LoginOk(a, h, now)
      /\ UNCHANGED <<panelInvites, credited, adminVars>>
      /\ panel' = IF PanelBinds(a, h)
                  THEN [panel EXCEPT ![a].devices = @ \cup {h}] ELSE panel
  BY DEF Login
<1>2. a \in DOMAIN panel /\ a \notin suspended /\ ~panel[a].suspended
  BY <1>1 DEF LoginOk, PasswordChecked, AccountsAgree
<1>3. panel[a].devices = slots[a] /\ panel[a] \in PanelAccount
  BY <1>2 DEF AccountsAgree, MembersTypeOK
<1>4. PanelBinds(a, h)
  BY <1>1, <1>2, <1>3 DEF LoginOk, HasSlot, PanelBinds, SlotsDefault
<1>5. panel' = [panel EXCEPT ![a].devices = panel[a].devices \cup {h}]
  BY <1>1, <1>4
<1>6. panel[a].devices \cup {h} \in SUBSET Hwids
  BY <1>3 DEF PanelAccount
<1>7. PanelSets(a, panel[a].devices \cup {h}, panel[a].suspended)
  BY <1>2, <1>5, <1>6, SetsDevices
<1>8. /\ slots' = [slots EXCEPT ![a] = @ \cup {h}]
      /\ UNCHANGED <<inviteVars, registered, maxSlots, suspended>>
  BY <1>1 DEF LoginOk
<1>9. /\ slots'[a] = panel[a].devices \cup {h}
      /\ \A b \in Accounts \ {a} : slots'[b] = slots[b]
  BY <1>3, <1>8 DEF MembersTypeOK, TypeOK
<1> QED
  BY <1>1, <1>2, <1>7, <1>8, <1>9, SettingKeeps

\* hwid_reset, suspend and its lifting keep the invariant: auth knows every
\* account of the panel, so neither half is left out.
LEMMA AdminCallKeeps ==
  ASSUME MembersInv, IInv', NEW a \in Accounts, NEW now \in Now,
         ResetDevices(a, now) \/ Stop(a, now) \/ Resume(a, now)
  PROVE  MembersInv'
<1> USE DEF MembersInv
<1>1. a \in DOMAIN panel /\ a \in registered
  BY DEF PanelResets, PanelSuspends, ResetDevices, Stop, Resume, AccountsAgree
<1>2. /\ panel[a] \in PanelAccount /\ panel[a].devices = slots[a]
      /\ panel[a].suspended <=> a \in suspended
      /\ panel[a].devices \in SUBSET Hwids /\ panel[a].suspended \in BOOLEAN
  BY <1>1 DEF AccountsAgree, MembersTypeOK, PanelAccount
<1>3. CASE ResetDevices(a, now)
  <2>1. /\ ResetHwid(a) /\ panel' = [panel EXCEPT ![a].devices = {}]
        /\ UNCHANGED <<panelInvites, credited, adminVars>>
    BY <1>1, <1>3 DEF ResetDevices, PanelResets
  <2>2. PanelSets(a, {}, panel[a].suspended)
    BY <1>1, <2>1, SetsDevices
  <2>3. /\ slots' = [slots EXCEPT ![a] = {}]
        /\ UNCHANGED <<inviteVars, registered, maxSlots, suspended>>
    BY <2>1 DEF ResetHwid
  <2>4. slots'[a] = {} /\ \A b \in Accounts \ {a} : slots'[b] = slots[b]
    BY <2>3 DEF MembersTypeOK, TypeOK
  <2> QED
    BY <1>1, <1>2, <2>1, <2>2, <2>3, <2>4, SettingKeeps
<1>4. CASE Stop(a, now)
  <2>1. /\ Suspend(a) /\ panel' = [panel EXCEPT ![a].suspended = TRUE]
        /\ UNCHANGED <<panelInvites, credited, adminVars>>
    BY <1>1, <1>4 DEF Stop, PanelSuspends
  <2>2. PanelSets(a, panel[a].devices, TRUE)
    BY <1>1, <2>1, SetsSuspended
  <2>3. /\ suspended' = suspended \cup {a}
        /\ UNCHANGED <<inviteVars, registered, maxSlots, slots>>
    BY <2>1 DEF Suspend, deviceVars
  <2> QED
    BY <1>1, <1>2, <2>1, <2>2, <2>3, SettingKeeps
<1>5. CASE Resume(a, now)
  <2>1. /\ Unsuspend(a) /\ panel' = [panel EXCEPT ![a].suspended = FALSE]
        /\ UNCHANGED <<panelInvites, credited, adminVars>>
    BY <1>1, <1>5 DEF Resume, PanelSuspends
  <2>2. PanelSets(a, panel[a].devices, FALSE)
    BY <1>1, <2>1, SetsSuspended
  <2>3. /\ suspended' = suspended \ {a}
        /\ UNCHANGED <<inviteVars, registered, maxSlots, slots>>
    BY <2>1 DEF Unsuspend, deviceVars
  <2> QED
    BY <1>1, <1>2, <2>1, <2>2, <2>3, SettingKeeps
<1> QED
  BY <1>3, <1>4, <1>5

\* Every step keeps the invariant.
LEMMA NextMembersInv == MembersInv /\ [MembersNext]_membersVars => MembersInv'
<1> SUFFICES ASSUME MembersInv, [MembersNext]_membersVars PROVE MembersInv'
  OBVIOUS
<1>1. IInv'
  BY HandlerIsCall, NextIInv DEF MembersInv
<1>2. /\ adminHash \in BOOLEAN /\ adminFailed \in 0..(MAX_FAILED - 1)
      /\ adminLocked \in Nat /\ adminTokens \subseteq Nat /\ adminGuesses \in Seq(Nat)
  BY DEF MembersInv, MembersTypeOK
<1>3. CASE AdminSetup \/ Restart \/ UNCHANGED membersVars
  BY <1>1, <1>2, <1>3, ElsewhereKeeps
  DEF AdminSetup, Restart, membersVars, adminVars, adminAuthVars, authVars
<1>4. ASSUME NEW now \in Now, AdminLogin(now) \/ AdminWrong(now) PROVE MembersInv'
  <2>1. UNCHANGED <<authVars, panelVars>>
    BY <1>4 DEF AdminLogin, AdminWrong
  <2> QED
    BY <1>1, <1>4, <2>1, AdminTypeOK, ElsewhereKeeps DEF MembersInv, authVars
<1>5. CASE AuthOnly
  <2>1. UNCHANGED <<inviteVars, deviceVars, suspended>>
    BY <1>5 DEF AuthOnly, LoginNoSlot, LoginWrongPassword, RefreshNext, RefreshOk,
       RefreshReuse, Tick
  <2> QED
    BY <1>1, <1>2, <1>5, <2>1, ElsewhereKeeps DEF AuthOnly, adminVars, adminAuthVars
<1>6. CASE \E c \in Codes, a \in Accounts, opening \in Openings, now \in Now :
             Invite(c, a, opening, now)
  BY <1>1, <1>6, InviteKeeps
<1>7. CASE \E c \in Codes, h \in Hwids, now \in Now : Redeem(c, h, now)
  BY <1>1, <1>7, RedeemKeeps
<1>8. CASE \E a \in Accounts, now \in Now :
             \/ \E h \in Hwids : Login(a, h, now)
             \/ ResetDevices(a, now) \/ Stop(a, now) \/ Resume(a, now)
  BY <1>1, <1>8, LoginKeeps, AdminCallKeeps
<1> QED
  BY <1>3, <1>4, <1>5, <1>6, <1>7, <1>8 DEF MembersNext

-----------------------------------------------------------------------------
(* Theorems.                                                               *)

\* The invariant the theorems rest on.
THEOREM MembersInvariance == MembersSpec => []MembersInv
BY InitMembersInv, NextMembersInv, PTL DEF MembersSpec

\* The broker with its admin, its panel and its ledger uses the store of
\* whisper-auth as that store is specified: every behaviour of it is one of
\* AuthStore.  What is proved of AuthStore alone holds in the broker.
THEOREM ImplementsAuthStore == MembersSpec => Spec
<1>1. MembersInit => Init
  BY DEF MembersInit
<1>2. MembersInv /\ [MembersNext]_membersVars => [Next]_authVars
  BY HandlerIsCall DEF MembersInv
<1> QED
  BY <1>1, <1>2, MembersInvariance, PTL DEF MembersSpec, Spec

\* The two stores agree after every handler.
THEOREM StoresAgreeHolds == MembersSpec => []StoresAgree
<1>1. MembersInv => StoresAgree
  BY DEF MembersInv, StoresAgree
<1> QED
  BY <1>1, MembersInvariance, PTL

\* An opening balance is credited once, by one invitation.
THEOREM OpeningOnceHolds == MembersSpec => []OpeningOnce
<1>1. MembersInv => OpeningOnce
  BY DEF MembersInv
<1> QED
  BY <1>1, MembersInvariance, PTL

\* Every session is one the panel shows.
THEOREM PanelShows == MembersSpec => []PanelShowsEverySession
<1>1. MembersInv /\ SessionsAreBound => PanelShowsEverySession
  <2> SUFFICES ASSUME MembersInv, SessionsAreBound, NEW i \in DOMAIN issued,
                      Live(i) \/ \E h \in Hwids, now \in Now : AccessAccepted(i, h, now)
               PROVE  /\ issued[i].account \in DOMAIN panel
                      /\ issued[i].hwid \in panel[issued[i].account].devices
                      /\ ~panel[issued[i].account].suspended
    BY DEF PanelShowsEverySession
  <2>1. Bound(i)
    BY DEF SessionsAreBound
  <2>2. issued[i].account \in registered
    BY DEF MembersInv, IInv, PairsInv
  <2> QED
    BY <2>1, <2>2 DEF MembersInv, AccountsAgree, Bound
<1>2. MembersSpec => []SessionsAreBound
  BY ImplementsAuthStore, SessionsBound
<1> QED
  BY <1>1, <1>2, MembersInvariance, PTL

-----------------------------------------------------------------------------
(* The admin's password.                                                   *)

\* The same for the admin.
AdminGap == LOCK_SECS - MaxLag

\* The admin's wrong passwords are spaced as an account's are.
AdminGuessInv ==
  Spaced(MAX_FAILED, AdminGap, adminGuesses, adminFailed, adminLocked, clock)

\* The numbers that says something of.
LEMMA AdminNumbers ==
  ASSUME MembersTypeOK
  PROVE  /\ MAX_FAILED \in Nat \ {0} /\ LOCK_SECS \in Nat /\ AdminGap \in Int
         /\ adminGuesses \in Seq(Nat) /\ adminFailed \in 0..(MAX_FAILED - 1)
         /\ adminLocked \in Nat /\ clock \in Nat
<1>1. MAX_FAILED \in Nat \ {0} /\ LOCK_SECS \in Nat /\ MaxLag \in Nat
  BY MembersAssumption, LockConstants
<1>2. clock \in Nat
  BY DEF MembersTypeOK, TypeOK
<1> QED
  BY <1>1, <1>2 DEF AdminGap, MembersTypeOK

\* Time passing keeps guesses spaced.
LEMMA LaterSpaced ==
  ASSUME MembersTypeOK, AdminGuessInv, NEW c \in Nat, clock <= c
  PROVE  Spaced(MAX_FAILED, AdminGap, adminGuesses, adminFailed, adminLocked, c)
<1>1. \A j \in 1..Len(adminGuesses) : adminGuesses[j] \in Nat
  BY AdminNumbers
<1> QED
  BY <1>1, AdminNumbers DEF AdminGuessInv, Spaced

\* The clock only runs forward, whatever call is made.
LEMMA ClockRuns ==
  ASSUME TypeOK, [Next]_authVars
  PROVE  clock' \in Nat /\ clock <= clock'
<1>1. clock \in Nat
  BY DEF TypeOK
<1>2. clock' = clock \/ clock' = clock + 1
  BY DEF Next, InviteNext, CreateInvite, RedeemInvite, LoginNext, LoginOk,
     LoginNoSlot, LoginWrongPassword, RefreshNext, RefreshOk, RefreshReuse,
     AdminNext, Suspend, Unsuspend, ResetHwid, SetMaxSlots, Tick, authVars
<1> QED
  BY <1>1, <1>2

\* Every handler keeps them spaced.
LEMMA NextAdminGuessInv ==
  ASSUME MembersInv, AdminGuessInv, [MembersNext]_membersVars
  PROVE  AdminGuessInv'
<1>1. MembersTypeOK /\ TypeOK
  BY DEF MembersInv, MembersTypeOK
<1>2. CASE UNCHANGED <<adminGuesses, adminFailed, adminLocked>>
  <2>1. clock' \in Nat /\ clock <= clock'
    BY <1>1, HandlerIsCall, ClockRuns
  <2> QED
    BY <1>1, <1>2, <2>1, LaterSpaced DEF AdminGuessInv
<1>3. ASSUME NEW now \in Now, AdminLogin(now) PROVE AdminGuessInv'
  <2>1. adminGuesses' = << >> /\ adminFailed' = 0
    BY <1>3 DEF AdminLogin
  <2> QED
    BY <1>1, <2>1, AdminNumbers DEF AdminGuessInv, Spaced
<1>4. ASSUME NEW now \in Now, AdminWrong(now) PROVE AdminGuessInv'
  <2> DEFINE past == Append(adminGuesses, clock)
             locks == adminFailed + 1 >= MAX_FAILED
  <2>1. /\ now >= adminLocked
        /\ adminFailed' = IF locks THEN 0 ELSE adminFailed + 1
        /\ adminLocked' = IF locks THEN now + LOCK_SECS ELSE adminLocked
        /\ adminGuesses' = IF Len(past) > MAX_FAILED + 1 THEN Tail(past) ELSE past
        /\ clock' = clock
    BY <1>4 DEF AdminWrong, AdminChecked, authVars
  <2>2. now \in Nat /\ now <= clock /\ clock - now <= MaxLag
    BY <1>1, NowIsNat
  <2> HIDE DEF past, locks
  <2>3. Spaced(MAX_FAILED, AdminGap,
               IF Len(past) > MAX_FAILED + 1 THEN Tail(past) ELSE past,
               IF locks THEN 0 ELSE adminFailed + 1,
               IF locks THEN now + LOCK_SECS ELSE adminLocked, clock)
    BY <1>1, <2>1, <2>2, AdminNumbers, WrongGuessSpaced
    DEF AdminGuessInv, past, locks, AdminGap
  <2> QED
    BY <2>1, <2>3 DEF AdminGuessInv
<1>5. \/ UNCHANGED <<adminGuesses, adminFailed, adminLocked>>
      \/ \E now \in Now : AdminLogin(now) \/ AdminWrong(now)
  BY DEF MembersNext, AdminSetup, Restart, AuthOnly, Invite, Redeem, Login,
     ResetDevices, Stop, Resume, membersVars, adminVars, adminAuthVars
<1> QED
  BY <1>2, <1>3, <1>4, <1>5

\* Guessing the admin's password is slow, for every number of failures that
\* locks and every lock time.
THEOREM AdminGuessingSlow == MembersSpec => []AdminGuessingIsSlow
<1>1. MembersInit => AdminGuessInv
  BY MembersInitTypeOK, AdminNumbers DEF MembersInit, AdminGuessInv, Spaced
<1>2. MembersInv /\ AdminGuessInv /\ [MembersNext]_membersVars => AdminGuessInv'
  BY NextAdminGuessInv
<1>3. MembersInv /\ AdminGuessInv => AdminGuessingIsSlow
  <2> SUFFICES ASSUME MembersInv, AdminGuessInv, Len(adminGuesses) = MAX_FAILED + 1
               PROVE  adminGuesses[MAX_FAILED + 1] - adminGuesses[1] >= AdminGap
    BY DEF AdminGuessingIsSlow, AdminGap
  <2> QED
    BY AdminNumbers, SpacedIsSlow DEF MembersInv, AdminGuessInv
<1> QED
  BY <1>1, <1>2, <1>3, MembersInvariance, PTL DEF MembersSpec

-----------------------------------------------------------------------------
(* Part 3: the shells.                                                     *)

\* s has a pair of login r in memory, or one is on its way to s.
Carries(s, r) ==
  \/ mem[s] # 0 /\ LoginOf(mem[s]) = r
  \/ \E n \in Awaited : call[n].from = s /\ call[n].pair # 0 /\ LoginOf(call[n].pair) = r

\* The successor of pair i is on its way to the shell that presented it.
Renewed(i) == \E n \in Awaited : call[n].tok = i /\ call[n].pair # 0

\* A shell that waits runs, waits for one call and has not touched its pair
\* since; a refresh nobody waits for has strained its login.
CallsInv ==
  /\ \A n \in Awaited :
       /\ call[n].from \in running
       /\ call[n].tok = mem[call[n].from]
       /\ call[n].at = "sent" => call[n].pair = 0
       /\ call[n].tok # 0 /\ call[n].pair # 0 =>
            LoginOf(call[n].pair) = LoginOf(call[n].tok)
  /\ \A m, n \in Awaited : call[m].from = call[n].from => m = n
  /\ \A n \in Slots : call[n].at = "abandoned" /\ call[n].tok # 0 =>
       LoginOf(call[n].tok) \in strained
  /\ \A n \in Slots : n > count.calls => call[n] = NoCall

\* All pairs of a login are of one device, and kept on that device.
PlacesInv ==
  /\ \A i \in DOMAIN issued : issued[issued[i].root].hwid = issued[i].hwid
  /\ \A s \in Shells : mem[s] # 0 => issued[mem[s]].hwid = PcOf[s]
  /\ \A h \in Hwids : file[h] # 0 => issued[file[h]].hwid = h
  /\ \A n \in Awaited : call[n].pair # 0 => issued[call[n].pair].hwid = PcOf[call[n].from]

\* A login that is not strained is carried by one shell at most.
SoleInv ==
  \A s, t \in Shells : \A r \in DOMAIN issued :
    Carries(s, r) /\ Carries(t, r) => s = t \/ r \in strained

\* The file of a PC agrees with a shell of this PC that carries the login.
FilesInv ==
  \A s \in Shells : \A i, r \in DOMAIN issued :
    file[PcOf[s]] = i /\ LoginOf(i) = r /\ Carries(s, r) => r \in strained \/ mem[s] = i

\* Pair i is in a memory or in a file.
Kept(i) == (\E s \in Shells : mem[s] = i) \/ \E h \in Hwids : file[h] = i

\* What is kept is the newest pair of its login, or the newest is on its way;
\* what is on its way is the newest.
NewestInv ==
  /\ \A i \in DOMAIN issued :
       Kept(i) /\ i \in rotated => LoginOf(i) \in strained \/ Renewed(i)
  /\ \A n \in Awaited : \A j \in DOMAIN issued :
       call[n].pair = j => LoginOf(j) \in strained \/ j \notin rotated

\* Nothing brings back a login the PC was logged out of.
LeftInv ==
  \A h \in Hwids : \A r \in DOMAIN issued :
    <<h, r>> \in left /\ r \notin strained =>
      /\ \A i \in DOMAIN issued : file[h] = i => LoginOf(i) # r
      /\ \A s \in Shells : PcOf[s] = h => ~Carries(s, r)

\* The parts that speak of strained logins.
StrainInv == SoleInv /\ FilesInv /\ NewestInv /\ LeftInv /\ burned \subseteq strained

\* The inductive invariant of store and shells.
ClientInv == IInv /\ ClientTypeOK /\ CallsInv /\ PlacesInv /\ StrainInv

-----------------------------------------------------------------------------
(* Calls, and what the broker does to the store.                           *)

(***************************************************************************)
(* What a call carries.                                                    *)
(***************************************************************************)
LEMMA CallShape ==
  ASSUME ClientTypeOK, NEW n \in Slots, call[n].at # "none"
  PROVE  /\ call[n] \in Call
         /\ call[n].at \in {"sent", "abandoned", "answered"}
         /\ call[n].from \in Shells /\ PcOf[call[n].from] \in Hwids
         /\ call[n].tok \in 0..Len(issued) /\ call[n].pair \in 0..Len(issued)
         /\ call[n].cmd = "refresh" <=> call[n].tok # 0
         /\ n \in Awaited <=> call[n].at # "abandoned"
<1>1. call[n] # NoCall
  BY DEF NoCall
<1>2. call[n] \in Call
  BY <1>1 DEF ClientTypeOK
<1>3. {call[n].tok, call[n].pair} \subseteq 0..Len(issued)
  BY <1>1 DEF ClientTypeOK
<1>4. call[n].cmd = "refresh" <=> call[n].tok # 0
  BY <1>1 DEF ClientTypeOK
<1> QED
  BY <1>2, <1>3, <1>4, ClientAssumption DEF Call, Awaited

(***************************************************************************)
(* Who is awaited is a call.                                               *)
(***************************************************************************)
LEMMA AwaitedShape ==
  ASSUME ClientTypeOK, NEW n \in Awaited
  PROVE  /\ n \in Slots /\ call[n].at \in {"sent", "answered"}
         /\ call[n] \in Call
         /\ call[n].from \in Shells /\ PcOf[call[n].from] \in Hwids
         /\ call[n].tok \in 0..Len(issued) /\ call[n].pair \in 0..Len(issued)
         /\ call[n].cmd = "refresh" <=> call[n].tok # 0
<1>1. n \in Slots /\ call[n].at \in {"sent", "answered"}
  BY DEF Awaited
<1> QED
  BY <1>1, CallShape

(***************************************************************************)
(* A request that is granted is a call of the store and issues one pair:   *)
(* the first of a login on the PC it came from, or the successor of the    *)
(* token it presented, which until then was not exchanged.                 *)
(***************************************************************************)
LEMMA GrantedIssues ==
  ASSUME TypeOK, PairsInv, ClientTypeOK, NEW n \in Slots, call[n].at # "none",
         NEW now \in Now, Granted(n, now)
  PROVE  /\ Next
         /\ Len(issued) \in Nat /\ Len(issued') = Len(issued) + 1
         /\ DOMAIN issued = 1..Len(issued) /\ DOMAIN issued' = 1..(Len(issued) + 1)
         /\ \A k \in DOMAIN issued : issued'[k] = issued[k]
         /\ \/ /\ call[n].tok = 0
               /\ issued'[Len(issued) + 1].root = Len(issued) + 1
               /\ issued'[Len(issued) + 1].hwid = PcOf[call[n].from]
               /\ rotated' = rotated
            \/ /\ call[n].tok \in DOMAIN issued /\ call[n].tok \notin rotated
               /\ issued'[Len(issued) + 1].root = issued[call[n].tok].root
               /\ issued'[Len(issued) + 1].hwid = issued[call[n].tok].hwid
               /\ rotated' = rotated \cup {call[n].tok}
         /\ burned' = burned
<1> DEFINE i == call[n].tok
           j == Len(issued) + 1
           h == PcOf[call[n].from]
<1>1. /\ h \in Hwids /\ i \in 0..Len(issued)
      /\ call[n].cmd = "refresh" <=> i # 0
      /\ Member \in Accounts
  BY CallShape, ClientAssumption
<1>2. /\ Len(issued) \in Nat /\ DOMAIN issued = 1..Len(issued)
      /\ NewChain \in 1..(Len(issued) + 1) /\ {} \in SUBSET DOMAIN issued
      /\ now \in Nat
  BY IssuedData
<1>3. ASSUME NEW a \in Accounts, NEW d \in Hwids, NEW root \in 1..j,
             NEW R \in SUBSET DOMAIN issued, IssuePair(a, d, now, root, R)
      PROVE  /\ Len(issued') = j /\ DOMAIN issued' = 1..j
             /\ \A k \in DOMAIN issued : issued'[k] = issued[k]
             /\ issued'[j].root = root /\ issued'[j].hwid = d
             /\ rotated' = rotated \cup R
  <2>1. issued'[j] = [account |-> a, hwid |-> d, at |-> now,
                      gen |-> generation[a], root |-> root]
    BY <1>3, <1>2, IssueTypeOK
  <2>2. /\ issued' \in Seq(Pair) /\ DOMAIN issued' = DOMAIN issued \cup {j}
        /\ \A k \in DOMAIN issued : issued'[k] = issued[k]
    BY <1>3, <1>2, IssueTypeOK
  <2>3. Len(issued') = j
    <3>1. issued' = Append(issued, [account |-> a, hwid |-> d, at |-> now,
                                    gen |-> generation[a], root |-> root])
      BY <1>3 DEF IssuePair
    <3>2. issued \in Seq(Pair)
      BY DEF TypeOK
    <3> QED
      BY <3>1, <3>2
  <2>4. DOMAIN issued' = 1..j
    BY <1>2, <2>2
  <2> QED
    BY <1>3, <2>1, <2>2, <2>3, <2>4 DEF IssuePair
<1>4. CASE \E c \in Codes : call[n].cmd = "redeem" /\ RedeemInvite(c, Member, h, now)
  <2>1. IssuePair(Member, h, now, NewChain, {}) /\ UNCHANGED burned
    BY <1>4 DEF RedeemInvite
  <2>2. Next
    BY <1>1, <1>4 DEF Next, InviteNext
  <2>3. i = 0
    BY <1>1, <1>4
  <2>4. /\ Len(issued') = j /\ DOMAIN issued' = 1..j
        /\ \A k \in DOMAIN issued : issued'[k] = issued[k]
        /\ issued'[j].root = j /\ issued'[j].hwid = h
        /\ rotated' = rotated \cup {}
    <3> HIDE DEF h
    <3> QED
      BY <1>1, <1>2, <1>3, <2>1 DEF NewChain
  <2> QED
    BY <1>2, <2>1, <2>2, <2>3, <2>4
<1>5. CASE call[n].cmd = "login" /\ LoginOk(Member, h, now)
  <2>1. IssuePair(Member, h, now, NewChain, {}) /\ UNCHANGED burned
    BY <1>5 DEF LoginOk
  <2>2. Next
    BY <1>1, <1>5 DEF Next, LoginNext
  <2>3. i = 0
    BY <1>1, <1>5
  <2>4. /\ Len(issued') = j /\ DOMAIN issued' = 1..j
        /\ \A k \in DOMAIN issued : issued'[k] = issued[k]
        /\ issued'[j].root = j /\ issued'[j].hwid = h
        /\ rotated' = rotated \cup {}
    <3> HIDE DEF h
    <3> QED
      BY <1>1, <1>2, <1>3, <2>1 DEF NewChain
  <2> QED
    BY <1>2, <2>1, <2>2, <2>3, <2>4
<1>6. CASE call[n].cmd = "refresh" /\ RefreshOk(i, now)
  <2>1. i \in DOMAIN issued
    BY <1>1, <1>2, <1>6
  <2>2. /\ IssuePair(issued[i].account, issued[i].hwid, now, issued[i].root, {i})
        /\ i \notin rotated /\ UNCHANGED burned
    BY <1>6 DEF RefreshOk, Suspicious
  <2>3. Next
    BY <1>6, <2>1 DEF Next, RefreshNext
  <2>4. /\ issued[i].account \in Accounts /\ issued[i].hwid \in Hwids
        /\ {i} \in SUBSET DOMAIN issued
    BY <2>1, IssuedData
  <2>5. issued[i].root \in 1..j
    BY <1>2, <2>1 DEF PairsInv
  <2>6. /\ Len(issued') = j /\ DOMAIN issued' = 1..j
        /\ \A k \in DOMAIN issued : issued'[k] = issued[k]
        /\ issued'[j].root = issued[i].root /\ issued'[j].hwid = issued[i].hwid
        /\ rotated' = rotated \cup {i}
    <3> HIDE DEF i, j
    <3> QED
      BY <1>3, <2>2, <2>4, <2>5
  <2> QED
    BY <1>2, <2>1, <2>2, <2>3, <2>6
<1> QED
  BY <1>4, <1>5, <1>6 DEF Granted

(***************************************************************************)
(* A request that is refused is a call of the store or nothing, issues and *)
(* exchanges nothing, and ends a login only for a token that was exchanged *)
(* before or comes from another device.                                    *)
(***************************************************************************)
LEMMA RefusedKeeps ==
  ASSUME TypeOK, ClientTypeOK, NEW n \in Slots, call[n].at # "none",
         NEW now \in Now, Refused(n, now)
  PROVE  /\ [Next]_authVars
         /\ UNCHANGED <<issued, rotated>>
         /\ \/ UNCHANGED burned
            \/ /\ call[n].tok \in DOMAIN issued
               /\ burned' = burned \cup {LoginOf(call[n].tok)}
               /\ \/ call[n].tok \in rotated
                  \/ issued[call[n].tok].hwid # PcOf[call[n].from]
<1> DEFINE i == call[n].tok
           h == PcOf[call[n].from]
<1>1. /\ h \in Hwids /\ i \in 0..Len(issued)
      /\ call[n].cmd = "refresh" <=> i # 0
      /\ Member \in Accounts
  BY CallShape, ClientAssumption
<1>2. Len(issued) \in Nat /\ DOMAIN issued = 1..Len(issued)
  BY IssuedData
<1>3. CASE UNCHANGED authVars
  BY <1>3 DEF authVars, tokenVars
<1>4. CASE call[n].cmd = "login" /\ LoginNoSlot(Member, h, now)
  BY <1>1, <1>4 DEF LoginNoSlot, tokenVars, Next, LoginNext
<1>5. CASE call[n].cmd = "refresh" /\ RefreshReuse(i, h)
  <2>1. i \in DOMAIN issued
    BY <1>1, <1>2, <1>5
  <2>2. Next
    BY <1>1, <1>5, <2>1 DEF Next, RefreshNext
  <2> QED
    BY <1>5, <2>1, <2>2 DEF RefreshReuse, Suspicious, LoginOf
<1> QED
  BY <1>3, <1>4, <1>5 DEF Refused

(***************************************************************************)
(* The admin, invitations and the clock touch no pair.                     *)
(***************************************************************************)
LEMMA ElseKeeps ==
  ASSUME BrokerElse
  PROVE  /\ Next
         /\ UNCHANGED <<issued, rotated, burned, clientVars, call, count, strained>>
<1>1. CASE \E c \in Codes, now \in Now : CreateInvite(c, now)
  BY <1>1 DEF BrokerElse, CreateInvite, tokenVars, Next, InviteNext
<1>2. CASE AdminNext
  BY <1>2 DEF BrokerElse, AdminNext, Suspend, Unsuspend, ResetHwid, SetMaxSlots,
     tokenVars, Next
<1>3. CASE Tick
  BY <1>3 DEF BrokerElse, Tick, tokenVars, Next
<1> QED
  BY <1>1, <1>2, <1>3 DEF BrokerElse

(***************************************************************************)
(* A request handled is answered if somebody still waits, else over; the   *)
(* other calls stay.                                                       *)
(***************************************************************************)
LEMMA HandledCalls ==
  ASSUME ClientTypeOK, NEW n \in Slots, call[n].at \in {"sent", "abandoned"},
         NEW pair \in Nat, Handled(n, pair)
  PROVE  /\ call' \in [Slots -> Call \cup {NoCall}]
         /\ \A m \in Slots \ {n} : call'[m] = call[m]
         /\ \/ /\ call[n].at = "sent" /\ call'[n] \in Call
               /\ call'[n].at = "answered" /\ call'[n].pair = pair
               /\ call'[n].from = call[n].from /\ call'[n].cmd = call[n].cmd
               /\ call'[n].tok = call[n].tok
            \/ call[n].at = "abandoned" /\ call'[n] = NoCall
<1>1. call \in [Slots -> Call \cup {NoCall}] /\ call[n] \in Call
  BY CallShape DEF ClientTypeOK
<1> DEFINE c == IF call[n].at = "sent"
                THEN [call[n] EXCEPT !.at = "answered", !.pair = pair] ELSE NoCall
<1>2. call' = [call EXCEPT ![n] = c]
  BY DEF Handled
<1>3. CASE call[n].at = "sent"
  <2>1. c = [at |-> "answered", from |-> call[n].from, cmd |-> call[n].cmd,
             tok |-> call[n].tok, pair |-> pair]
    BY <1>1, <1>3 DEF Call
  <2>2. c \in Call
    BY <1>1, <2>1 DEF Call
  <2> HIDE DEF c
  <2> QED
    BY <1>1, <1>2, <1>3, <2>1, <2>2
<1>4. CASE call[n].at = "abandoned"
  BY <1>1, <1>2, <1>4
<1> QED
  BY <1>3, <1>4

\* The calls S end, or go on with nobody waiting; the others stay.
Dropped(S) ==
  /\ call' \in [Slots -> Call \cup {NoCall}]
  /\ \A m \in Slots \ S : call'[m] = call[m]
  /\ \A m \in S :
       \/ call'[m] = NoCall
       \/ /\ call'[m] \in Call /\ call'[m].at = "abandoned" /\ call[m].at = "sent"
          /\ call'[m].from = call[m].from /\ call'[m].cmd = call[m].cmd
          /\ call'[m].tok = call[m].tok /\ call'[m].pair = call[m].pair

(***************************************************************************)
(* Giving calls up drops them, and so does ending one.                     *)
(***************************************************************************)
LEMMA AbandonedDrops ==
  ASSUME ClientTypeOK, NEW S \in SUBSET Awaited, call' = Abandoned(S)
  PROVE  Dropped(S)
<1>1. call \in [Slots -> Call \cup {NoCall}] /\ S \subseteq Slots
  BY DEF ClientTypeOK, Awaited
<1>2. ASSUME NEW m \in S
      PROVE  /\ call[m] \in Call
             /\ [call[m] EXCEPT !.at = "abandoned"]
                  = [at |-> "abandoned", from |-> call[m].from, cmd |-> call[m].cmd,
                     tok |-> call[m].tok, pair |-> call[m].pair]
  BY AwaitedShape DEF Call
<1>3. ASSUME NEW m \in S PROVE [call[m] EXCEPT !.at = "abandoned"] \in Call
  BY <1>2 DEF Call
<1>4. ASSUME NEW m \in Slots
      PROVE  call'[m] = IF m \notin S THEN call[m]
                        ELSE IF call[m].at = "sent" THEN [call[m] EXCEPT !.at = "abandoned"]
                        ELSE NoCall
  BY DEF Abandoned
<1>5. ASSUME NEW m \in Slots PROVE call'[m] \in Call \cup {NoCall}
  BY <1>1, <1>3, <1>4
<1>6. call' \in [Slots -> Call \cup {NoCall}]
  BY <1>5 DEF Abandoned
<1>7. \A m \in Slots \ S : call'[m] = call[m]
  BY <1>4
<1>8. ASSUME NEW m \in S, call[m].at = "sent"
      PROVE  /\ call'[m] \in Call /\ call'[m].at = "abandoned"
             /\ call'[m].from = call[m].from /\ call'[m].cmd = call[m].cmd
             /\ call'[m].tok = call[m].tok /\ call'[m].pair = call[m].pair
  BY <1>1, <1>2, <1>3, <1>4, <1>8
<1>9. ASSUME NEW m \in S, call[m].at # "sent" PROVE call'[m] = NoCall
  BY <1>1, <1>4, <1>9
<1> QED
  BY <1>6, <1>7, <1>8, <1>9 DEF Dropped

(***************************************************************************)
(* A call that ends is dropped.                                            *)
(***************************************************************************)
LEMMA EndedDrops ==
  ASSUME ClientTypeOK, NEW n \in Slots, call' = [call EXCEPT ![n] = NoCall]
  PROVE  Dropped({n})
<1>1. call \in [Slots -> Call \cup {NoCall}]
  BY DEF ClientTypeOK
<1> QED
  BY <1>1 DEF Dropped

-----------------------------------------------------------------------------
(* Types.                                                                  *)

(***************************************************************************)
(* Every step of the composition is one call of the store, or none.        *)
(***************************************************************************)
LEMMA ClientStepIsCall ==
  ASSUME TypeOK, PairsInv, ClientTypeOK, [ClientNext]_vars
  PROVE  [Next]_authVars
<1>1. ASSUME NEW s \in Shells,
             \/ UserRedeem(s) \/ UserLogin(s) \/ UserRefresh(s) \/ UserLogout(s)
             \/ Start(s) \/ ProcessEnds(s)
      PROVE  UNCHANGED authVars
  BY <1>1 DEF UserRedeem, UserLogin, UserRefresh, UserLogout, Start, ProcessEnds, Send
<1>2. ASSUME NEW n \in Slots,
             TakesPair(n) \/ TakesRefusal(n) \/ GivesUp(n) \/ RequestLost(n)
      PROVE  UNCHANGED authVars
  BY <1>2 DEF TakesPair, TakesRefusal, GivesUp, RequestLost
<1>3. ASSUME NEW n \in Slots, BrokerAnswers(n) PROVE [Next]_authVars
  <2>1. PICK now \in Now : Granted(n, now) \/ Refused(n, now)
    BY <1>3 DEF BrokerAnswers
  <2>2. call[n].at # "none"
    BY <1>3 DEF BrokerAnswers
  <2> QED
    BY <2>1, <2>2, GrantedIssues, RefusedKeeps
<1>4. CASE BrokerElse
  BY <1>4, ElseKeeps
<1>5. CASE UNCHANGED vars
  BY <1>5 DEF vars
<1> QED
  BY <1>1, <1>2, <1>3, <1>4, <1>5 DEF ClientNext

(***************************************************************************)
(* The composition starts well typed.                                      *)
(***************************************************************************)
LEMMA ClientInitTypeOK == ClientInit => ClientTypeOK
<1> SUFFICES ASSUME ClientInit PROVE ClientTypeOK
  OBVIOUS
<1>1. issued = << >>
  BY DEF ClientInit, Init
<1>2. Len(issued) \in Nat
  BY <1>1
<1>3. mem \in [Shells -> 0..Len(issued)] /\ file \in [Hwids -> 0..Len(issued)]
  BY <1>2 DEF ClientInit
<1> QED
  BY <1>1, <1>3, ClientAssumption DEF ClientInit, ClientTypeOK

(***************************************************************************)
(* Dropping calls and straining logins that exist keeps the types.         *)
(***************************************************************************)
LEMMA DropKeepsTypes ==
  ASSUME ClientTypeOK, NEW S \in SUBSET Slots, Dropped(S), UNCHANGED issued
  PROVE  /\ call' \in [Slots -> Call \cup {NoCall}]
         /\ \A n \in Slots :
              call'[n] # NoCall =>
                /\ {call'[n].tok, call'[n].pair} \subseteq 0..Len(issued')
                /\ call'[n].cmd = "refresh" <=> call'[n].tok # 0
<1> SUFFICES ASSUME NEW n \in Slots, call'[n] # NoCall
             PROVE  /\ {call'[n].tok, call'[n].pair} \subseteq 0..Len(issued')
                    /\ call'[n].cmd = "refresh" <=> call'[n].tok # 0
  BY DEF Dropped
<1>1. /\ call[n] # NoCall
      /\ call'[n].tok = call[n].tok /\ call'[n].pair = call[n].pair
      /\ call'[n].cmd = call[n].cmd
  BY DEF Dropped, NoCall
<1> QED
  BY <1>1 DEF ClientTypeOK

(***************************************************************************)
(* The first pair of a chain is a pair.                                    *)
(***************************************************************************)
LEMMA LoginIsPair ==
  ASSUME TypeOK, PairsInv, NEW i \in 0..Len(issued), i # 0
  PROVE  i \in DOMAIN issued /\ LoginOf(i) \in DOMAIN issued
<1>1. Len(issued) \in Nat /\ DOMAIN issued = 1..Len(issued)
  BY IssuedData
<1>2. i \in 1..Len(issued)
  BY <1>1
<1>3. issued[i].root \in 1..i
  BY <1>1, <1>2 DEF PairsInv
<1> QED
  BY <1>1, <1>2, <1>3 DEF LoginOf

(***************************************************************************)
(* The logins at risk when calls are dropped exist.                        *)
(***************************************************************************)
LEMMA RiskedArePairs ==
  ASSUME TypeOK, PairsInv, ClientTypeOK, NEW S \in SUBSET Awaited
  PROVE  /\ Risked(S) \subseteq DOMAIN issued
         /\ \A n \in S : call[n].tok # 0 => LoginOf(call[n].tok) \in Risked(S)
<1>1. ASSUME NEW n \in S
      PROVE  /\ call[n].cmd = "refresh" <=> call[n].tok # 0
             /\ call[n].tok \in 0..Len(issued)
  BY AwaitedShape
<1>2. ASSUME NEW n \in S, call[n].tok # 0 PROVE LoginOf(call[n].tok) \in DOMAIN issued
  BY <1>1, <1>2, LoginIsPair
<1> QED
  BY <1>1, <1>2 DEF Risked

(***************************************************************************)
(* Every step keeps the shells, their calls and their files well typed.    *)
(***************************************************************************)
LEMMA NextClientTypeOK ==
  ASSUME TypeOK, PairsInv, ClientTypeOK, CallsInv, [ClientNext]_vars
  PROVE  ClientTypeOK'
<1>0. /\ Len(issued) \in Nat /\ DOMAIN issued = 1..Len(issued)
      /\ PcOf \in [Shells -> Hwids]
  BY IssuedData, ClientAssumption
<1>a. /\ running \subseteq Shells
      /\ mem \in [Shells -> 0..Len(issued)]
      /\ \A s \in Shells \ running : mem[s] = 0
      /\ file \in [Hwids -> 0..Len(issued)]
      /\ count \in [calls : 0..MaxCalls, stops : 0..MaxStops]
      /\ strained \subseteq DOMAIN issued
      /\ left \subseteq Hwids \X DOMAIN issued
  BY DEF ClientTypeOK
<1>1. ASSUME NEW s \in Shells, UserRedeem(s) \/ UserLogin(s) \/ UserRefresh(s)
      PROVE  ClientTypeOK'
  <2>1. PICK cmd \in {"redeem", "login", "refresh"}, tok \in 0..Len(issued) :
          Send(s, cmd, tok) /\ (cmd = "refresh" <=> tok # 0)
    BY <1>0, <1>1, <1>a DEF UserRedeem, UserLogin, UserRefresh
  <2> DEFINE n == count.calls + 1
             c == [at |-> "sent", from |-> s, cmd |-> cmd, tok |-> tok, pair |-> 0]
  <2>2. /\ count.calls \in 0..MaxCalls /\ count.calls < MaxCalls /\ MaxCalls \in Nat
        /\ count' = [count EXCEPT !.calls = @ + 1]
    BY <2>1, <1>a, ClientAssumption DEF Send
  <2>3. count'.calls = n /\ n \in Slots
        /\ count' \in [calls : 0..MaxCalls, stops : 0..MaxStops]
    BY <1>a, <2>2 DEF Slots
  <2>4. call' = [call EXCEPT ![n] = c]
    BY <2>1, <2>3 DEF Send
  <2>5. c \in Call /\ tok \in Nat
    BY <1>0 DEF Call
  <2>6. call' \in [Slots -> Call \cup {NoCall}]
    BY <2>4, <2>5 DEF ClientTypeOK
  <2>7. call'[n] = c /\ \A m \in Slots \ {n} : call'[m] = call[m]
    BY <2>3, <2>4 DEF ClientTypeOK
  <2>8. UNCHANGED <<running, mem, file, left, strained, issued>>
    BY <2>1 DEF Send, clientVars, authVars, tokenVars
  <2>9. /\ {call'[n].tok, call'[n].pair} \subseteq 0..Len(issued)
        /\ call'[n].cmd = "refresh" <=> call'[n].tok # 0
    BY <1>0, <2>1, <2>7
  <2> HIDE DEF c, n
  <2> QED
    BY <1>a, <2>3, <2>6, <2>7, <2>8, <2>9 DEF ClientTypeOK
<1>2. ASSUME NEW n \in Slots, TakesPair(n) PROVE ClientTypeOK'
  <2> DEFINE s == call[n].from
             j == call[n].pair
  <2>1. call[n].at = "answered" /\ j # 0 /\ call' = [call EXCEPT ![n] = NoCall]
        /\ mem' = [mem EXCEPT ![s] = j] /\ UNCHANGED <<running, left, count, issued>>
        /\ Persist(s, j)
    BY <1>2 DEF TakesPair, SetPair, authVars, tokenVars
  <2>2. n \in Awaited
    BY <2>1 DEF Awaited
  <2>3. s \in Shells /\ PcOf[s] \in Hwids /\ j \in 0..Len(issued)
    BY <2>2, AwaitedShape
  <2>4. LoginOf(j) \in DOMAIN issued
    BY <2>1, <2>3, LoginIsPair
  <2>5. Dropped({n})
    BY <2>1, EndedDrops
  <2>6. file' \in [Hwids -> 0..Len(issued)] /\ strained' \subseteq DOMAIN issued
    BY <1>0, <1>a, <2>1, <2>3, <2>4 DEF Persist
  <2>7. mem' \in [Shells -> 0..Len(issued)]
    BY <1>a, <2>1, <2>3
  <2>8. s \in running
    BY <2>2 DEF CallsInv
  <2>9. \A t \in Shells \ running : mem'[t] = 0
    BY <1>a, <2>1, <2>8
  <2> QED
    BY <1>a, <2>1, <2>5, <2>6, <2>7, <2>9, DropKeepsTypes DEF ClientTypeOK
<1>3. ASSUME NEW n \in Slots, TakesRefusal(n) \/ RequestLost(n) PROVE ClientTypeOK'
  <2>1. /\ Dropped({n})
        /\ UNCHANGED <<running, mem, file, left, strained, count, issued>>
    BY <1>3, EndedDrops DEF TakesRefusal, RequestLost, clientVars, authVars, tokenVars
  <2> QED
    BY <1>a, <2>1, DropKeepsTypes DEF ClientTypeOK
<1>4. ASSUME NEW n \in Slots, GivesUp(n) PROVE ClientTypeOK'
  <2>1. /\ {n} \in SUBSET Awaited /\ {n} \in SUBSET Slots /\ call' = Abandoned({n})
        /\ strained' = strained \cup Risked({n})
        /\ UNCHANGED <<running, mem, file, left, count, issued>>
    BY <1>4 DEF GivesUp, clientVars, authVars, tokenVars
  <2>2. Dropped({n}) /\ strained' \subseteq DOMAIN issued
    BY <1>a, <2>1, AbandonedDrops, RiskedArePairs
  <2> QED
    BY <1>a, <2>1, <2>2, DropKeepsTypes DEF ClientTypeOK
<1>5. ASSUME NEW s \in Shells, UserLogout(s) PROVE ClientTypeOK'
  <2>1. /\ UNCHANGED <<running, call, count, strained, issued>>
        /\ mem[s] # 0 /\ mem' = [mem EXCEPT ![s] = 0]
        /\ \/ /\ file' = [file EXCEPT ![PcOf[s]] = 0]
              /\ left' = left \cup {<<PcOf[s], LoginOf(mem[s])>>}
           \/ UNCHANGED <<file, left>>
    BY <1>5 DEF UserLogout, Clear, authVars, tokenVars
  <2>2. LoginOf(mem[s]) \in DOMAIN issued /\ PcOf[s] \in Hwids
    BY <1>0, <1>a, <2>1, LoginIsPair
  <2>3. /\ mem' \in [Shells -> 0..Len(issued)] /\ file' \in [Hwids -> 0..Len(issued)]
        /\ \A t \in Shells \ running : mem'[t] = 0
    BY <1>0, <1>a, <2>1
  <2>4. left' \subseteq Hwids \X DOMAIN issued
    BY <1>a, <2>1, <2>2
  <2> QED
    BY <2>1, <2>3, <2>4 DEF ClientTypeOK
<1>6. ASSUME NEW s \in Shells, Start(s) PROVE ClientTypeOK'
  <2> DEFINE i == file[PcOf[s]]
  <2>1. /\ running' = running \cup {s} /\ mem' = [mem EXCEPT ![s] = i]
        /\ strained' \subseteq strained \cup LoginsOf({i})
        /\ UNCHANGED <<file, left, call, count, issued>>
    BY <1>6 DEF Start, authVars, tokenVars
  <2>2. i \in 0..Len(issued)
    BY <1>0, <1>a
  <2>3. LoginsOf({i}) \subseteq DOMAIN issued
    BY <2>2, LoginIsPair DEF LoginsOf
  <2>4. mem' \in [Shells -> 0..Len(issued)] /\ \A t \in Shells \ running' : mem'[t] = 0
    BY <1>a, <2>1, <2>2
  <2> QED
    BY <1>a, <2>1, <2>3, <2>4 DEF ClientTypeOK
<1>7. ASSUME NEW s \in Shells, ProcessEnds(s) PROVE ClientTypeOK'
  <2>1. /\ running' = running \ {s} /\ mem' = [mem EXCEPT ![s] = 0]
        /\ call' = Abandoned(Mine(s)) /\ strained' = strained \cup Risked(Mine(s))
        /\ count.stops < MaxStops /\ count' = [count EXCEPT !.stops = @ + 1]
        /\ UNCHANGED <<file, left, issued>>
    BY <1>7 DEF ProcessEnds, authVars, tokenVars
  <2>2. Mine(s) \in SUBSET Awaited /\ Mine(s) \in SUBSET Slots
    BY DEF Mine, Awaited
  <2>3. Dropped(Mine(s)) /\ strained' \subseteq DOMAIN issued
    BY <1>a, <2>1, <2>2, AbandonedDrops, RiskedArePairs
  <2>a. count.stops + 1 \in 0..MaxStops
    BY <1>a, <2>1, ClientAssumption
  <2>4. count' \in [calls : 0..MaxCalls, stops : 0..MaxStops]
    BY <1>a, <2>1, <2>a
  <2>5. mem' \in [Shells -> 0..Len(issued)] /\ \A t \in Shells \ running' : mem'[t] = 0
    BY <1>0, <1>a, <2>1
  <2> QED
    BY <1>a, <2>1, <2>2, <2>3, <2>4, <2>5, DropKeepsTypes DEF ClientTypeOK
<1>8. ASSUME NEW n \in Slots, BrokerAnswers(n) PROVE ClientTypeOK'
  <2>1. call[n].at \in {"sent", "abandoned"}
    BY <1>8 DEF BrokerAnswers
  <2>2. PICK pair \in Nat : /\ Handled(n, pair)
                            /\ Len(issued') \in Nat /\ Len(issued') >= Len(issued)
                            /\ pair \in 0..Len(issued')
                            /\ DOMAIN issued \subseteq DOMAIN issued'
    <3>1. PICK now \in Now : \/ Granted(n, now) /\ Handled(n, Len(issued) + 1)
                             \/ Refused(n, now) /\ Handled(n, 0)
      BY <1>8 DEF BrokerAnswers
    <3>2. CASE Granted(n, now) /\ Handled(n, Len(issued) + 1)
      <4>1. PICK k \in Nat : k = Len(issued) + 1
        BY <1>0
      <4>2. Len(issued') = k /\ DOMAIN issued' = 1..k
        BY <2>1, <3>2, <4>1, GrantedIssues
      <4>3. Handled(n, k)
        BY <3>2, <4>1
      <4> QED
        BY <1>0, <4>1, <4>2, <4>3
    <3>3. CASE Refused(n, now) /\ Handled(n, 0)
      <4>1. UNCHANGED issued
        BY <2>1, <3>3, RefusedKeeps
      <4> QED
        BY <1>0, <3>3, <4>1
    <3> QED
      BY <3>1, <3>2, <3>3
  <2>3. UNCHANGED <<running, mem, file, left, count, strained>>
    BY <2>2 DEF Handled, clientVars
  <2>4. ASSUME NEW m \in Slots, call'[m] # NoCall
        PROVE  /\ {call'[m].tok, call'[m].pair} \subseteq 0..Len(issued')
               /\ call'[m].cmd = "refresh" <=> call'[m].tok # 0
    <3>1. CASE m # n
      <4>1. call'[m] = call[m]
        BY <2>1, <2>2, <3>1, HandledCalls
      <4>2. /\ {call[m].tok, call[m].pair} \subseteq 0..Len(issued)
            /\ call[m].cmd = "refresh" <=> call[m].tok # 0
        BY <2>4, <4>1 DEF ClientTypeOK
      <4> QED
        BY <1>0, <2>2, <4>1, <4>2
    <3>2. CASE m = n
      <4>1. /\ call'[n].pair = pair /\ call'[n].cmd = call[n].cmd
            /\ call'[n].tok = call[n].tok
        BY <2>1, <2>2, <2>4, <3>2, HandledCalls
      <4>2. call[n].tok \in 0..Len(issued) /\ (call[n].cmd = "refresh" <=> call[n].tok # 0)
        BY <2>1, CallShape
      <4> QED
        BY <1>0, <2>2, <3>2, <4>1, <4>2
    <3> QED
      BY <3>1, <3>2
  <2>5. call' \in [Slots -> Call \cup {NoCall}]
    BY <2>1, <2>2, HandledCalls
  <2>6. 0..Len(issued) \subseteq 0..Len(issued')
    BY <1>0, <2>2
  <2>7. mem \in [Shells -> 0..Len(issued')] /\ file \in [Hwids -> 0..Len(issued')]
    BY <1>a, <2>6
  <2>8. strained \subseteq DOMAIN issued' /\ left \subseteq Hwids \X DOMAIN issued'
    BY <1>a, <2>2
  <2> QED
    BY <1>a, <2>3, <2>4, <2>5, <2>7, <2>8 DEF ClientTypeOK
<1>9. CASE BrokerElse
  BY <1>9, ElseKeeps DEF ClientTypeOK, clientVars
<1>10. CASE UNCHANGED vars
  BY <1>10 DEF vars, clientVars, authVars, tokenVars, ClientTypeOK
<1> QED
  BY <1>1, <1>2, <1>3, <1>4, <1>5, <1>6, <1>7, <1>8, <1>9, <1>10 DEF ClientNext

-----------------------------------------------------------------------------
(* Steps of the shells.                                                    *)

(***************************************************************************)
(* Calls may be dropped, and the shells that made them emptied, if what    *)
(* was on its way to a refresh, or goes on unawaited, strains its login.   *)
(***************************************************************************)
LEMMA DropKeeps ==
  ASSUME TypeOK, ClientTypeOK, CallsInv, PlacesInv, StrainInv,
         NEW S \in SUBSET Slots, Dropped(S),
         UNCHANGED <<issued, rotated, burned, file, left>>,
         strained \subseteq strained', count'.calls = count.calls,
         \A s \in Shells : mem'[s] = mem[s] \/ (mem'[s] = 0 /\ Mine(s) \subseteq S),
         \A n \in Awaited \ S : call[n].from \in running',
         \A n \in S :
           call[n].at # "none" /\ call[n].tok # 0
             /\ (call[n].pair # 0 \/ call'[n].at = "abandoned") =>
           LoginOf(call[n].tok) \in strained'
  PROVE  CallsInv' /\ PlacesInv' /\ StrainInv'
<1>1. ASSUME NEW n \in Awaited'
      PROVE  n \in Awaited /\ n \notin S /\ call'[n] = call[n]
  BY <1>1 DEF Awaited, Dropped, NoCall
<1>2. ASSUME NEW n \in Awaited' PROVE mem'[call[n].from] = mem[call[n].from]
  <2>1. n \in Awaited /\ n \notin S /\ call[n].from \in Shells
    BY <1>1, <1>2, AwaitedShape
  <2>2. n \in Mine(call[n].from)
    BY <2>1 DEF Mine
  <2> QED
    BY <2>1, <2>2
<1>3. ASSUME NEW s \in Shells, NEW r, Carries(s, r)' PROVE Carries(s, r)
  <2>1. \/ mem'[s] # 0 /\ issued[mem'[s]].root = r
        \/ \E n \in Awaited' : /\ call'[n].from = s /\ call'[n].pair # 0
                               /\ issued[call'[n].pair].root = r
    BY <1>3 DEF Carries, LoginOf
  <2> QED
    BY <1>1, <2>1 DEF Carries, LoginOf
<1>0. \A i : LoginOf(i)' = LoginOf(i)
  BY DEF LoginOf
<1>4. CallsInv'
  <2>1. ASSUME NEW n \in Awaited'
        PROVE  /\ call'[n].from \in running'
               /\ call'[n].tok = mem'[call'[n].from]
               /\ call'[n].at = "sent" => call'[n].pair = 0
               /\ call'[n].tok # 0 /\ call'[n].pair # 0 =>
                    LoginOf(call'[n].pair) = LoginOf(call'[n].tok)
    BY <1>1, <1>2, <2>1 DEF CallsInv
  <2>2. \A m, n \in Awaited' : call'[m].from = call'[n].from => m = n
    BY <1>1 DEF CallsInv
  <2>3. ASSUME NEW n \in Slots, call'[n].at = "abandoned", call'[n].tok # 0
        PROVE  LoginOf(call'[n].tok) \in strained'
    <3>1. CASE n \in S
      BY <2>3, <3>1 DEF Dropped, NoCall
    <3>2. CASE n \notin S
      BY <2>3, <3>2 DEF Dropped, CallsInv
    <3> QED
      BY <3>1, <3>2
  <2>4. ASSUME NEW n \in Slots, n > count.calls PROVE call'[n] = NoCall
    <3>1. call[n] = NoCall
      BY <2>4 DEF CallsInv
    <3> QED
      BY <3>1 DEF Dropped, NoCall
  <2> QED
    BY <2>1, <2>2, <2>3, <2>4 DEF CallsInv, LoginOf
<1>5. PlacesInv'
  <2>1. \A n \in Awaited' : call'[n].pair # 0 =>
          issued[call'[n].pair].hwid = PcOf[call'[n].from]
    BY <1>1 DEF PlacesInv
  <2>2. \A s \in Shells : mem'[s] # 0 => issued[mem'[s]].hwid = PcOf[s]
    BY DEF PlacesInv
  <2> QED
    BY <2>1, <2>2 DEF PlacesInv
<1>5a. ASSUME NEW s \in Shells, NEW r, mem'[s] # mem[s] PROVE ~Carries(s, r)'
  <2>1. Mine(s) \subseteq S /\ mem'[s] = 0
    BY <1>5a
  <2>2. ASSUME NEW n \in Awaited', call'[n].from = s PROVE FALSE
    BY <1>1, <2>1, <2>2 DEF Mine
  <2> QED
    BY <2>1, <2>2 DEF Carries
<1>6. SoleInv'
  BY <1>3 DEF StrainInv, SoleInv
<1>7. FilesInv'
  <2> SUFFICES ASSUME NEW s \in Shells, NEW i \in DOMAIN issued, NEW r \in DOMAIN issued,
                      file[PcOf[s]] = i, LoginOf(i) = r, Carries(s, r)'
               PROVE  r \in strained' \/ mem'[s] = i
    BY <1>0 DEF FilesInv
  <2>1. r \in strained \/ mem[s] = i
    BY <1>3 DEF StrainInv, FilesInv
  <2> QED
    BY <1>5a, <2>1
<1>8. NewestInv'
  <2>1. ASSUME NEW i \in DOMAIN issued, Kept(i)', i \in rotated
        PROVE  LoginOf(i) \in strained' \/ Renewed(i)'
    <3>1. Kept(i)
      <4>1. \A s \in Shells : mem'[s] = i => mem[s] = i \/ i = 0
        OBVIOUS
      <4>2. i # 0
        BY IssuedData
      <4> QED
        BY <2>1, <4>1, <4>2 DEF Kept
    <3>2. SUFFICES ASSUME Renewed(i) PROVE LoginOf(i) \in strained' \/ Renewed(i)'
      BY <2>1, <3>1 DEF StrainInv, NewestInv
    <3>3. PICK n \in Awaited : call[n].tok = i /\ call[n].pair # 0
      BY <3>2 DEF Renewed
    <3>4. CASE n \in S
      BY <2>1, <3>3, <3>4, AwaitedShape
    <3>5. CASE n \notin S
      <4>1. n \in Awaited' /\ call'[n] = call[n]
        BY <3>3, <3>5 DEF Awaited, Dropped
      <4> QED
        BY <3>3, <4>1 DEF Renewed
    <3> QED
      BY <3>4, <3>5
  <2>2. \A n \in Awaited' : \A j \in DOMAIN issued :
          call'[n].pair = j => LoginOf(j) \in strained' \/ j \notin rotated
    BY <1>1 DEF StrainInv, NewestInv
  <2> QED
    BY <1>0, <2>1, <2>2 DEF NewestInv
<1>9. LeftInv'
  BY <1>0, <1>3 DEF StrainInv, LeftInv
<1> QED
  BY <1>4, <1>5, <1>6, <1>7, <1>8, <1>9 DEF StrainInv

(***************************************************************************)
(* A shell carries pairs of its own PC only.                               *)
(***************************************************************************)
LEMMA CarriedHere ==
  ASSUME TypeOK, PairsInv, ClientTypeOK, PlacesInv, NEW s \in Shells, NEW r, Carries(s, r)
  PROVE  r \in DOMAIN issued /\ issued[r].hwid = PcOf[s]
<1>1. PICK i \in 0..Len(issued) : i # 0 /\ LoginOf(i) = r /\ issued[i].hwid = PcOf[s]
  <2>1. CASE mem[s] # 0 /\ LoginOf(mem[s]) = r
    BY <2>1 DEF PlacesInv, ClientTypeOK
  <2>2. ASSUME NEW n \in Awaited, call[n].from = s, call[n].pair # 0,
               LoginOf(call[n].pair) = r
        PROVE  /\ call[n].pair \in 0..Len(issued)
               /\ issued[call[n].pair].hwid = PcOf[s]
    BY <2>2, AwaitedShape DEF PlacesInv
  <2> QED
    BY <2>1, <2>2 DEF Carries
<1>2. i \in DOMAIN issued /\ r \in DOMAIN issued
  BY <1>1, LoginIsPair
<1> QED
  BY <1>1, <1>2 DEF PlacesInv, LoginOf

(***************************************************************************)
(* A request sent with the pair in memory.                                 *)
(***************************************************************************)
LEMMA SendKeeps ==
  ASSUME TypeOK, ClientTypeOK, CallsInv, PlacesInv, StrainInv,
         NEW s \in Shells, NEW cmd, Send(s, cmd, mem[s])
  PROVE  CallsInv' /\ PlacesInv' /\ StrainInv'
<1>0. /\ UNCHANGED <<issued, rotated, burned, running, mem, file, left, strained>>
      /\ s \in running /\ Mine(s) = {}
  BY DEF Send, Free, authVars, tokenVars, clientVars
<1>1. PICK n \in Slots :
        /\ n = count.calls + 1 /\ count'.calls = n
        /\ call'[n] = [at |-> "sent", from |-> s, cmd |-> cmd, tok |-> mem[s], pair |-> 0]
        /\ \A m \in Slots \ {n} : call'[m] = call[m]
  <2>1. count.calls \in 0..MaxCalls /\ count.calls < MaxCalls /\ MaxCalls \in Nat
    BY ClientAssumption DEF Send, ClientTypeOK
  <2>2. PICK n \in Slots : n = count.calls + 1
    BY <2>1 DEF Slots
  <2>3. count'.calls = n
    BY <2>2 DEF Send, ClientTypeOK
  <2> QED
    BY <2>2, <2>3 DEF Send, ClientTypeOK
<1>2. call[n] = NoCall /\ n \notin Awaited
  <2>1. count.calls \in Nat
    BY ClientAssumption DEF ClientTypeOK
  <2> QED
    BY <1>1, <2>1 DEF CallsInv, Awaited, NoCall
<1>3. Awaited' = Awaited \cup {n}
  BY <1>1, <1>2 DEF Awaited
<1>4. \A m \in Awaited : m # n /\ call'[m] = call[m]
  BY <1>1, <1>2 DEF Awaited
<1>5. ASSUME NEW t, NEW r PROVE Carries(t, r)' <=> Carries(t, r)
  <2>1. call'[n].pair = 0
    BY <1>1
  <2> QED
    BY <1>0, <1>3, <1>4, <2>1 DEF Carries, LoginOf
<1>6. \A i : Renewed(i) => Renewed(i)'
  BY <1>3, <1>4 DEF Renewed
<1>7. \A i : /\ LoginOf(i)' = LoginOf(i)
             /\ Kept(i)' <=> Kept(i)
  BY <1>0 DEF LoginOf, Kept
<1>8. CallsInv'
  <2>1. \A m \in Awaited : call[m].from # s
    BY <1>0 DEF Mine
  <2>2. \A m \in Slots : m > n => call'[m] = NoCall
    <3>1. count.calls \in Nat
      BY ClientAssumption DEF ClientTypeOK
    <3> QED
      BY <1>1, <3>1 DEF CallsInv, Slots
  <2>3. \A m \in Slots : call'[m].at = "abandoned" /\ call'[m].tok # 0 =>
          LoginOf(call'[m].tok) \in strained
    BY <1>1 DEF CallsInv
  <2>4. \A m, k \in Awaited' : call'[m].from = call'[k].from => m = k
    BY <1>1, <1>3, <1>4, <2>1 DEF CallsInv
  <2>5. \A m \in Awaited' :
          /\ call'[m].from \in running
          /\ call'[m].tok = mem[call'[m].from]
          /\ call'[m].at = "sent" => call'[m].pair = 0
          /\ call'[m].tok # 0 /\ call'[m].pair # 0 =>
               LoginOf(call'[m].pair) = LoginOf(call'[m].tok)
    BY <1>0, <1>1, <1>3, <1>4 DEF CallsInv
  <2> QED
    BY <1>0, <1>1, <2>2, <2>3, <2>4, <2>5 DEF CallsInv, LoginOf
<1>9. PlacesInv'
  BY <1>0, <1>1, <1>3, <1>4 DEF PlacesInv
<1>10. SoleInv' /\ FilesInv' /\ LeftInv' /\ (burned \subseteq strained)'
  BY <1>0, <1>5, <1>7 DEF StrainInv, SoleInv, FilesInv, LeftInv
<1>11. NewestInv'
  <2>1. \A m \in Awaited' : \A j \in DOMAIN issued :
          call'[m].pair = j => LoginOf(j) \in strained \/ j \notin rotated
    <3>1. ASSUME NEW j \in DOMAIN issued, call'[n].pair = j
          PROVE  LoginOf(j) \in strained \/ j \notin rotated
      BY <1>1, <3>1, IssuedData
    <3> QED
      BY <1>3, <1>4, <3>1 DEF StrainInv, NewestInv
  <2> QED
    BY <1>0, <1>6, <1>7, <2>1 DEF StrainInv, NewestInv
<1> QED
  BY <1>8, <1>9, <1>10, <1>11 DEF StrainInv

(***************************************************************************)
(* The pair of an answer, kept in memory and, if all goes well, on disk.   *)
(***************************************************************************)
LEMMA TakesPairKeeps ==
  ASSUME TypeOK, PairsInv, ClientTypeOK, CallsInv, PlacesInv, StrainInv,
         NEW n \in Slots, TakesPair(n)
  PROVE  CallsInv' /\ PlacesInv' /\ StrainInv'
<1>0. PICK s \in Shells, j \in DOMAIN issued :
        /\ s = call[n].from /\ j = call[n].pair /\ n \in Awaited
        /\ call' = [call EXCEPT ![n] = NoCall]
        /\ mem' = [mem EXCEPT ![s] = j]
        /\ Persist(s, j)
        /\ UNCHANGED <<issued, rotated, burned, running, left, count>>
  <2>1. n \in Awaited /\ call[n].pair # 0
    BY DEF TakesPair, Awaited
  <2>2. call[n].from \in Shells /\ call[n].pair \in DOMAIN issued
    BY <2>1, AwaitedShape, LoginIsPair
  <2> QED
    BY <2>1, <2>2 DEF TakesPair, SetPair, authVars, tokenVars
<1>1. /\ 0 \notin DOMAIN issued /\ PcOf[s] \in Hwids
      /\ mem'[s] = j /\ \A t \in Shells \ {s} : mem'[t] = mem[t]
  <2>1. 0 \notin DOMAIN issued
    BY IssuedData
  <2>2. mem \in [Shells -> 0..Len(issued)]
    BY DEF ClientTypeOK
  <2> QED
    BY <1>0, <2>1, <2>2, ClientAssumption
<1>2. Dropped({n})
  BY <1>0, EndedDrops
<1>3. /\ Awaited' = Awaited \ {n}
      /\ \A m \in Awaited' : call'[m] = call[m] /\ call[m].from # s
      /\ \A m \in Slots \ {n} : call'[m] = call[m]
      /\ call'[n] = NoCall
  <2>1. call'[n] = NoCall /\ \A m \in Slots \ {n} : call'[m] = call[m]
    BY <1>0 DEF ClientTypeOK
  <2>2. Awaited' = Awaited \ {n}
    BY <2>1 DEF Awaited, NoCall
  <2> QED
    BY <1>0, <2>1, <2>2 DEF CallsInv, Awaited
<1>4. \A i : LoginOf(i)' = LoginOf(i)
  BY <1>0 DEF LoginOf
<1>5. Carries(s, LoginOf(j))
  BY <1>0, <1>1 DEF Carries
<1>6. ASSUME NEW r, Carries(s, r)' PROVE r = LoginOf(j)
  BY <1>1, <1>3, <1>4, <1>6 DEF Carries, LoginOf
<1>7. ASSUME NEW t \in Shells \ {s}, NEW r PROVE Carries(t, r)' => Carries(t, r)
  BY <1>0, <1>1, <1>3 DEF Carries, LoginOf
<1>8. ASSUME NEW t \in Shells, NEW r, Carries(t, r)' PROVE Carries(t, r)
  BY <1>5, <1>6, <1>7, <1>8
<1>9. /\ strained \subseteq strained'
      /\ \A h \in Hwids \ {PcOf[s]} : file'[h] = file[h]
      /\ file'[PcOf[s]] \in {0, j} \/ (file' = file /\ LoginOf(j) \in strained')
  BY <1>0, <1>1 DEF Persist, ClientTypeOK
<1>10. CallsInv'
  <2>1. \A m \in Awaited' :
          /\ call'[m].from \in running
          /\ call'[m].tok = mem'[call'[m].from]
          /\ call'[m].at = "sent" => call'[m].pair = 0
          /\ call'[m].tok # 0 /\ call'[m].pair # 0 =>
               LoginOf(call'[m].pair) = LoginOf(call'[m].tok)
    BY <1>1, <1>3, AwaitedShape DEF CallsInv
  <2>2. \A m, k \in Awaited' : call'[m].from = call'[k].from => m = k
    BY <1>3 DEF CallsInv
  <2>3. ASSUME NEW m \in Slots, call'[m].at = "abandoned", call'[m].tok # 0
        PROVE  LoginOf(call'[m].tok) \in strained'
    BY <1>3, <1>9, <2>3 DEF CallsInv, NoCall
  <2>4. \A m \in Slots : m > count.calls => call'[m] = NoCall
    BY <1>3 DEF CallsInv
  <2> QED
    BY <1>0, <2>1, <2>2, <2>3, <2>4 DEF CallsInv, LoginOf
<1>11. PlacesInv'
  <2>1. issued[j].hwid = PcOf[s]
    BY <1>0, <1>1 DEF PlacesInv
  <2>2. \A t \in Shells : mem'[t] # 0 => issued[mem'[t]].hwid = PcOf[t]
    BY <1>1, <2>1 DEF PlacesInv
  <2>3. \A h \in Hwids : file'[h] # 0 => issued[file'[h]].hwid = h
    BY <1>1, <1>9, <2>1 DEF PlacesInv
  <2> QED
    BY <1>0, <1>3, <2>2, <2>3 DEF PlacesInv
<1>12. SoleInv'
  BY <1>0, <1>8, <1>9 DEF StrainInv, SoleInv
<1>13. FilesInv'
  <2> SUFFICES ASSUME NEW t \in Shells, NEW i \in DOMAIN issued, NEW r \in DOMAIN issued,
                      file'[PcOf[t]] = i, LoginOf(i) = r, Carries(t, r)'
               PROVE  r \in strained' \/ mem'[t] = i
    BY <1>0, <1>4 DEF FilesInv
  <2>1. CASE file'[PcOf[t]] # file[PcOf[t]]
    <3>1. i = j
      BY <1>1, <1>9, <2>1, ClientAssumption
    <3>2. t = s \/ r \in strained
      BY <1>5, <1>8, <3>1 DEF StrainInv, SoleInv
    <3> QED
      BY <1>1, <1>9, <3>1, <3>2
  <2>2. CASE file'[PcOf[t]] = file[PcOf[t]]
    <3>1. r \in strained \/ mem[t] = i
      BY <1>8, <2>2 DEF StrainInv, FilesInv
    <3>2. CASE t = s
      <4>1. r = LoginOf(j)
        BY <1>6, <3>2
      <4> QED
        BY <1>1, <1>9, <3>2, <4>1
    <3> QED
      BY <1>1, <1>9, <3>1, <3>2
  <2> QED
    BY <2>1, <2>2
<1>14. NewestInv'
  <2>1. ASSUME NEW i \in DOMAIN issued, Kept(i)', i \in rotated
        PROVE  LoginOf(i) \in strained' \/ Renewed(i)'
    <3>1. CASE i = j
      BY <1>0, <1>9, <2>1, <3>1 DEF StrainInv, NewestInv
    <3>2. CASE i # j
      <4>1. \/ \E t \in Shells \ {s} : mem[t] = i
            \/ \E h \in Hwids : file[h] = i /\ file'[h] = i
        BY <1>1, <1>9, <2>1, <3>2 DEF Kept
      <4>2. LoginOf(i) \in strained \/ Renewed(i)
        BY <2>1, <4>1 DEF StrainInv, NewestInv, Kept
      <4>3. ASSUME NEW m \in Awaited \ {n}, call[m].tok = i, call[m].pair # 0
            PROVE  Renewed(i)'
        BY <1>3, <4>3 DEF Renewed
      <4>4. CASE call[n].tok = i
        <5>1. mem[s] = i /\ LoginOf(j) = LoginOf(i)
          BY <1>0, <1>1, <4>4 DEF CallsInv
        <5>2. Carries(s, LoginOf(i))
          BY <1>5, <5>1
        <5>3. ASSUME NEW t \in Shells \ {s}, mem[t] = i PROVE LoginOf(i) \in strained
          <6>1. Carries(t, LoginOf(i)) /\ LoginOf(i) \in DOMAIN issued
            BY <1>1, <5>3, LoginIsPair DEF Carries, ClientTypeOK
          <6> QED
            BY <5>2, <6>1 DEF StrainInv, SoleInv
        <5>4. ASSUME NEW h \in Hwids, file[h] = i, file'[h] = i
              PROVE  LoginOf(i) \in strained'
          <6>1. h = PcOf[s]
            BY <1>1, <5>1, <5>4 DEF PlacesInv
          <6> QED
            BY <1>1, <1>9, <3>2, <5>1, <5>4, <6>1
        <5> QED
          BY <1>9, <4>1, <5>3, <5>4
      <4> QED
        BY <1>9, <4>2, <4>3, <4>4 DEF Renewed
    <3> QED
      BY <3>1, <3>2
  <2>2. \A m \in Awaited' : \A k \in DOMAIN issued :
          call'[m].pair = k => LoginOf(k) \in strained' \/ k \notin rotated
    BY <1>3, <1>9 DEF StrainInv, NewestInv
  <2> QED
    BY <1>0, <1>4, <2>1, <2>2 DEF NewestInv
<1>15. LeftInv'
  <2> SUFFICES ASSUME NEW h \in Hwids, NEW r \in DOMAIN issued,
                      <<h, r>> \in left, r \notin strained'
               PROVE  /\ \A i \in DOMAIN issued : file'[h] = i => LoginOf(i) # r
                      /\ \A t \in Shells : PcOf[t] = h => ~Carries(t, r)'
    BY <1>0, <1>4 DEF LeftInv
  <2>1. /\ \A i \in DOMAIN issued : file[h] = i => LoginOf(i) # r
        /\ \A t \in Shells : PcOf[t] = h => ~Carries(t, r)
    BY <1>9 DEF StrainInv, LeftInv
  <2>2. \A t \in Shells : PcOf[t] = h => ~Carries(t, r)'
    BY <1>8, <2>1
  <2>3. ASSUME NEW i \in DOMAIN issued, file'[h] = i, LoginOf(i) = r PROVE FALSE
    <3>1. h = PcOf[s] /\ i = j
      BY <1>1, <1>9, <2>1, <2>3
    <3> QED
      BY <1>5, <2>1, <2>3, <3>1
  <2> QED
    BY <2>2, <2>3
<1> QED
  BY <1>0, <1>9, <1>10, <1>11, <1>12, <1>13, <1>14, <1>15 DEF StrainInv

(***************************************************************************)
(* A logout.                                                               *)
(***************************************************************************)
LEMMA LogoutKeeps ==
  ASSUME TypeOK, PairsInv, ClientTypeOK, CallsInv, PlacesInv, StrainInv,
         NEW s \in Shells, UserLogout(s)
  PROVE  CallsInv' /\ PlacesInv' /\ StrainInv'
<1>0. /\ UNCHANGED <<issued, rotated, burned, running, call, count, strained>>
      /\ mem[s] # 0 /\ mem' = [mem EXCEPT ![s] = 0] /\ Mine(s) = {}
      /\ \/ /\ file' = [file EXCEPT ![PcOf[s]] = 0]
            /\ left' = left \cup {<<PcOf[s], LoginOf(mem[s])>>}
         \/ UNCHANGED <<file, left>>
  BY DEF UserLogout, Clear, Free, authVars, tokenVars
<1>1. /\ 0 \notin DOMAIN issued /\ PcOf[s] \in Hwids
      /\ mem'[s] = 0 /\ \A t \in Shells \ {s} : mem'[t] = mem[t]
  <2>1. 0 \notin DOMAIN issued
    BY IssuedData
  <2>2. mem \in [Shells -> 0..Len(issued)]
    BY DEF ClientTypeOK
  <2> QED
    BY <1>0, <2>1, <2>2, ClientAssumption
<1>2. Awaited' = Awaited /\ \A m \in Awaited : call[m].from # s
  BY <1>0 DEF Awaited, Mine
<1>3. \A i : LoginOf(i)' = LoginOf(i) /\ (Renewed(i)' <=> Renewed(i))
  BY <1>0, <1>2 DEF LoginOf, Renewed
<1>4. ASSUME NEW r PROVE ~Carries(s, r)'
  BY <1>0, <1>1, <1>2 DEF Carries
<1>5. ASSUME NEW t \in Shells, NEW r, Carries(t, r)' PROVE t # s /\ Carries(t, r)
  <2>1. t # s
    BY <1>4, <1>5
  <2> QED
    BY <1>0, <1>1, <1>2, <1>5, <2>1 DEF Carries, LoginOf
<1>6. \A h \in Hwids : file'[h] = file[h] \/ (h = PcOf[s] /\ file'[h] = 0)
  BY <1>0, <1>1 DEF ClientTypeOK
<1>7. CallsInv'
  <2>1. \A m \in Awaited : mem'[call[m].from] = mem[call[m].from]
    BY <1>1, <1>2, AwaitedShape
  <2> QED
    BY <1>0, <1>2, <2>1 DEF CallsInv, LoginOf
<1>8. PlacesInv'
  BY <1>0, <1>1, <1>2, <1>6 DEF PlacesInv
<1>9. SoleInv' /\ FilesInv'
  <2>1. SoleInv'
    BY <1>0, <1>5 DEF StrainInv, SoleInv
  <2>2. FilesInv'
    BY <1>0, <1>1, <1>3, <1>5, <1>6, ClientAssumption DEF StrainInv, FilesInv
  <2> QED
    BY <2>1, <2>2
<1>10. NewestInv'
  <2>1. \A i \in DOMAIN issued : Kept(i)' => Kept(i)
    BY <1>1, <1>6 DEF Kept
  <2> QED
    BY <1>0, <1>2, <1>3, <2>1 DEF StrainInv, NewestInv
<1>11. LeftInv'
  <2> SUFFICES ASSUME NEW h \in Hwids, NEW r \in DOMAIN issued,
                      <<h, r>> \in left', r \notin strained
               PROVE  /\ \A i \in DOMAIN issued : file'[h] = i => LoginOf(i) # r
                      /\ \A t \in Shells : PcOf[t] = h => ~Carries(t, r)'
    BY <1>0, <1>3 DEF LeftInv
  <2>1. CASE <<h, r>> \in left
    BY <1>1, <1>5, <1>6, <2>1 DEF StrainInv, LeftInv
  <2>2. CASE h = PcOf[s] /\ r = LoginOf(mem[s]) /\ file' = [file EXCEPT ![PcOf[s]] = 0]
    <3>1. file'[h] = 0
      BY <1>1, <2>2 DEF ClientTypeOK
    <3>2. Carries(s, r)
      BY <1>0, <2>2 DEF Carries
    <3>3. \A t \in Shells : ~Carries(t, r)'
      BY <1>5, <3>2 DEF StrainInv, SoleInv
    <3> QED
      BY <1>1, <3>1, <3>3
  <2> QED
    BY <1>0, <2>1, <2>2
<1> QED
  BY <1>0, <1>7, <1>8, <1>9, <1>10, <1>11 DEF StrainInv

(***************************************************************************)
(* A process that starts carries what its PC's file has, unless another    *)
(* one has it in memory: then the login is strained.                       *)
(***************************************************************************)
LEMMA StartKeeps ==
  ASSUME TypeOK, PairsInv, ClientTypeOK, CallsInv, PlacesInv, StrainInv,
         NEW s \in Shells, Start(s)
  PROVE  CallsInv' /\ PlacesInv' /\ StrainInv'
<1> DEFINE h == PcOf[s]
<1>0. /\ UNCHANGED <<issued, rotated, burned, file, left, call, count>>
      /\ s \notin running /\ running' = running \cup {s}
      /\ mem' = [mem EXCEPT ![s] = file[h]]
      /\ strained' = strained \cup (LoginsOf({file[h]}) \cap LoginsOf({mem[t] : t \in running}))
  BY DEF Start, authVars, tokenVars
<1>1. /\ 0 \notin DOMAIN issued /\ h \in Hwids /\ mem[s] = 0
      /\ mem'[s] = file[h] /\ \A t \in Shells \ {s} : mem'[t] = mem[t]
  <2>1. 0 \notin DOMAIN issued
    BY IssuedData
  <2>2. mem \in [Shells -> 0..Len(issued)] /\ mem[s] = 0
    BY <1>0 DEF ClientTypeOK
  <2> QED
    BY <1>0, <2>1, <2>2, ClientAssumption
<1>2. Awaited' = Awaited /\ \A m \in Awaited : call[m].from # s
  BY <1>0 DEF Awaited, CallsInv
<1>3. \A i : LoginOf(i)' = LoginOf(i) /\ (Renewed(i)' <=> Renewed(i))
  BY <1>0, <1>2 DEF LoginOf, Renewed
<1>4. ASSUME NEW r, Carries(s, r)' PROVE file[h] # 0 /\ LoginOf(file[h]) = r
  BY <1>0, <1>1, <1>2, <1>4 DEF Carries, LoginOf
<1>5. ASSUME NEW t \in Shells \ {s}, NEW r, Carries(t, r)' PROVE Carries(t, r)
  BY <1>0, <1>1, <1>2, <1>5 DEF Carries, LoginOf
<1>6. ASSUME NEW t \in Shells \ {s}, file[h] # 0, Carries(t, LoginOf(file[h]))
      PROVE  LoginOf(file[h]) \in strained'
  <2>1. PICK i \in 0..Len(issued) : i = file[h] /\ i # 0
    BY <1>1, <1>6 DEF ClientTypeOK
  <2>2. i \in DOMAIN issued /\ LoginOf(i) \in DOMAIN issued /\ issued[i].hwid = h
    BY <1>1, <2>1, LoginIsPair DEF PlacesInv
  <2>3. issued[LoginOf(i)].hwid = PcOf[t]
    BY <1>6, <2>1, CarriedHere
  <2>4. PcOf[t] = h
    BY <2>2, <2>3 DEF PlacesInv, LoginOf
  <2>5. LoginOf(i) \in strained \/ mem[t] = i
    BY <1>6, <2>1, <2>2, <2>4 DEF StrainInv, FilesInv
  <2>6. CASE mem[t] = i
    <3>1. t \in running
      BY <2>1, <2>6 DEF ClientTypeOK
    <3>2. LoginOf(i) \in LoginsOf({file[h]}) /\ LoginOf(i) \in LoginsOf({mem[u] : u \in running})
      BY <2>1, <2>6, <3>1 DEF LoginsOf
    <3> QED
      BY <1>0, <2>1, <3>2
  <2> QED
    BY <1>0, <2>1, <2>5, <2>6
<1> HIDE DEF h
<1>7. CallsInv'
  <2>1. \A m \in Awaited : mem'[call[m].from] = mem[call[m].from]
    BY <1>1, <1>2, AwaitedShape
  <2> QED
    BY <1>0, <1>2, <2>1 DEF CallsInv, LoginOf
<1>8. PlacesInv'
  <2>1. file[h] # 0 => issued[file[h]].hwid = PcOf[s]
    BY <1>1 DEF PlacesInv, h
  <2> QED
    BY <1>0, <1>1, <1>2, <2>1 DEF PlacesInv
<1>9. SoleInv'
  <2> SUFFICES ASSUME NEW t \in Shells, NEW u \in Shells, NEW r \in DOMAIN issued,
                      Carries(t, r)', Carries(u, r)', t # u
               PROVE  r \in strained'
    BY <1>0 DEF SoleInv
  <2>1. CASE t # s /\ u # s
    BY <1>0, <1>5, <2>1 DEF StrainInv, SoleInv
  <2>2. CASE t = s
    BY <1>4, <1>5, <1>6, <2>2
  <2>3. CASE u = s
    BY <1>4, <1>5, <1>6, <2>3
  <2> QED
    BY <2>1, <2>2, <2>3
<1>10. FilesInv'
  <2> SUFFICES ASSUME NEW t \in Shells, NEW i \in DOMAIN issued, NEW r \in DOMAIN issued,
                      file[PcOf[t]] = i, LoginOf(i) = r, Carries(t, r)'
               PROVE  r \in strained' \/ mem'[t] = i
    BY <1>0, <1>3 DEF FilesInv
  <2>1. CASE t = s
    BY <1>1, <2>1 DEF h
  <2>2. CASE t # s
    BY <1>0, <1>1, <1>5, <2>2 DEF StrainInv, FilesInv
  <2> QED
    BY <2>1, <2>2
<1>11. NewestInv'
  <2>1. \A i \in DOMAIN issued : Kept(i)' => Kept(i)
    BY <1>0, <1>1 DEF Kept
  <2> QED
    BY <1>0, <1>2, <1>3, <2>1 DEF StrainInv, NewestInv
<1>12. LeftInv'
  <2> SUFFICES ASSUME NEW d \in Hwids, NEW r \in DOMAIN issued,
                      <<d, r>> \in left, r \notin strained'
               PROVE  /\ \A i \in DOMAIN issued : file[d] = i => LoginOf(i) # r
                      /\ \A t \in Shells : PcOf[t] = d => ~Carries(t, r)'
    BY <1>0, <1>3 DEF LeftInv
  <2>1. /\ \A i \in DOMAIN issued : file[d] = i => LoginOf(i) # r
        /\ \A t \in Shells : PcOf[t] = d => ~Carries(t, r)
    BY <1>0 DEF StrainInv, LeftInv
  <2>2. ASSUME PcOf[s] = d, Carries(s, r)' PROVE FALSE
    <3>1. file[d] # 0 /\ LoginOf(file[d]) = r
      BY <1>4, <2>2 DEF h
    <3>2. file[d] \in DOMAIN issued
      BY <3>1, LoginIsPair DEF ClientTypeOK
    <3> QED
      BY <2>1, <3>1, <3>2
  <2> QED
    BY <1>5, <2>1, <2>2
<1> QED
  BY <1>0, <1>7, <1>8, <1>9, <1>10, <1>11, <1>12 DEF StrainInv

-----------------------------------------------------------------------------
(* Steps of the broker.                                                    *)

(***************************************************************************)
(* A refresh whose shell still waits presents the newest pair of its       *)
(* login, kept on the PC it comes from, unless the login is strained.      *)
(***************************************************************************)
LEMMA SentIsNewest ==
  ASSUME TypeOK, PairsInv, ClientTypeOK, CallsInv, PlacesInv, StrainInv,
         NEW n \in Awaited, call[n].at = "sent", call[n].tok # 0
  PROVE  /\ issued[call[n].tok].hwid = PcOf[call[n].from]
         /\ LoginOf(call[n].tok) \in strained \/ call[n].tok \notin rotated
<1> DEFINE s == call[n].from
           i == call[n].tok
<1>1. /\ s \in Shells /\ mem[s] = i /\ i \in DOMAIN issued /\ LoginOf(i) \in DOMAIN issued
      /\ call[n].pair = 0
  BY AwaitedShape, LoginIsPair DEF CallsInv
<1>2. issued[i].hwid = PcOf[s]
  BY <1>1 DEF PlacesInv
<1>3. ASSUME Renewed(i) PROVE LoginOf(i) \in strained
  <2>1. PICK m \in Awaited : call[m].tok = i /\ call[m].pair # 0
    BY <1>3 DEF Renewed
  <2>2. call[m].from \in Shells /\ mem[call[m].from] = i
    BY <2>1, AwaitedShape DEF CallsInv
  <2>3. Carries(s, LoginOf(i)) /\ Carries(call[m].from, LoginOf(i))
    BY <1>1, <2>2 DEF Carries
  <2>4. call[m].from # s
    BY <1>1, <2>1 DEF CallsInv
  <2> QED
    BY <1>1, <2>2, <2>3, <2>4 DEF StrainInv, SoleInv
<1>4. Kept(i)
  BY <1>1 DEF Kept
<1> QED
  BY <1>1, <1>2, <1>3, <1>4 DEF StrainInv, NewestInv

(***************************************************************************)
(* A grant: the new pair is on its way to the shell that waits for it, or  *)
(* to nobody.                                                              *)
(***************************************************************************)
LEMMA GrantKeeps ==
  ASSUME TypeOK, PairsInv, ClientTypeOK, CallsInv, PlacesInv, StrainInv,
         NEW n \in Slots, call[n].at \in {"sent", "abandoned"}, NEW now \in Now,
         Granted(n, now), Handled(n, Len(issued) + 1)
  PROVE  CallsInv' /\ PlacesInv' /\ StrainInv'
<1>0. UNCHANGED <<running, mem, file, left, count, strained>>
  BY DEF Handled, clientVars
<1>1. PICK j \in Nat :
        /\ j = Len(issued) + 1 /\ DOMAIN issued = 1..Len(issued) /\ Len(issued) \in Nat
        /\ DOMAIN issued' = DOMAIN issued \cup {j} /\ j \notin DOMAIN issued /\ j # 0
        /\ \A k \in DOMAIN issued : issued'[k] = issued[k]
        /\ burned' = burned
        /\ \/ call[n].tok = 0 /\ issued'[j].root = j
              /\ issued'[j].hwid = PcOf[call[n].from] /\ rotated' = rotated
           \/ /\ call[n].tok \in DOMAIN issued
              /\ issued'[j].root = issued[call[n].tok].root
              /\ issued'[j].hwid = issued[call[n].tok].hwid
              /\ rotated' = rotated \cup {call[n].tok}
  <2>1. Len(issued) \in Nat /\ DOMAIN issued = 1..Len(issued)
    BY IssuedData
  <2>2. PICK j \in Nat : j = Len(issued) + 1
    BY <2>1
  <2>3. DOMAIN issued' = 1..j
    BY <2>2, GrantedIssues
  <2>4. DOMAIN issued' = DOMAIN issued \cup {j} /\ j \notin DOMAIN issued /\ j # 0
    BY <2>1, <2>2, <2>3
  <2> QED
    BY <2>1, <2>2, <2>4, GrantedIssues
<1>2. Handled(n, j)
  BY <1>1
<1>3. /\ \A m \in Slots \ {n} : call'[m] = call[m]
      /\ \/ /\ call[n].at = "sent"
            /\ call'[n].at = "answered" /\ call'[n].pair = j
            /\ call'[n].from = call[n].from /\ call'[n].tok = call[n].tok
         \/ call[n].at = "abandoned" /\ call'[n] = NoCall
  BY <1>2, HandledCalls
<1>4. /\ Awaited' = Awaited
      /\ call[n].at = "sent" <=> n \in Awaited
      /\ \A m \in Awaited : /\ call'[m].from = call[m].from /\ call'[m].tok = call[m].tok
                            /\ m # n => call'[m] = call[m]
                            /\ m = n => call'[m].pair = j /\ call'[m].at = "answered"
  <2>1. NoCall.at = "none"
    BY DEF NoCall
  <2> QED
    BY <1>3, <2>1 DEF Awaited
<1>5. /\ rotated \subseteq DOMAIN issued /\ j \notin rotated'
      /\ rotated \subseteq rotated' /\ rotated' \ rotated \subseteq {call[n].tok}
  <2>1. rotated \subseteq DOMAIN issued
    BY DEF TypeOK
  <2> QED
    BY <1>1, <2>1
<1>6. \A k \in DOMAIN issued : LoginOf(k)' = LoginOf(k) /\ LoginOf(k) \in DOMAIN issued
  <2>1. \A k \in DOMAIN issued : LoginOf(k) \in DOMAIN issued
    <3>1. \A k \in DOMAIN issued : k \in 0..Len(issued) /\ k # 0
      BY <1>1
    <3> QED
      BY <3>1, LoginIsPair
  <2> QED
    BY <1>1, <2>1 DEF LoginOf
<1>7. /\ \A t \in Shells : mem[t] # 0 => mem[t] \in DOMAIN issued
      /\ \A h \in Hwids : file[h] # 0 => file[h] \in DOMAIN issued
      /\ \A m \in Awaited : /\ call[m].tok # 0 => call[m].tok \in DOMAIN issued
                            /\ call[m].pair # 0 => call[m].pair \in DOMAIN issued
  BY AwaitedShape, LoginIsPair DEF ClientTypeOK
<1>8. \A m \in Slots : call[m].at = "abandoned" /\ call[m].tok # 0 =>
        call[m].tok \in DOMAIN issued
  BY CallShape, LoginIsPair
<1>9. call[n].tok # 0 => call[n].tok \in DOMAIN issued /\ LoginOf(j)' = LoginOf(call[n].tok)
  BY <1>1, <1>7, <1>8, <1>4 DEF LoginOf
<1>10. call[n].tok = 0 => LoginOf(j)' = j
  BY <1>1 DEF LoginOf
<1>11. call[n].at = "abandoned" /\ call[n].tok # 0 => LoginOf(call[n].tok) \in strained
  BY DEF CallsInv
<1>12. ASSUME NEW t \in Shells, NEW r \in DOMAIN issued, Carries(t, r)'
       PROVE  Carries(t, r)
  <2>1. CASE mem[t] # 0 /\ issued'[mem[t]].root = r
    BY <1>6, <1>7, <2>1 DEF Carries, LoginOf
  <2>2. ASSUME NEW m \in Awaited, m # n, call[m].from = t, call[m].pair # 0,
               issued'[call[m].pair].root = r
        PROVE  Carries(t, r)
    BY <1>6, <1>7, <2>2 DEF Carries, LoginOf
  <2>3. CASE n \in Awaited /\ call[n].from = t /\ issued'[j].root = r
    <3>1. call[n].tok # 0
      BY <1>1, <2>3, <1>10 DEF LoginOf
    <3>2. LoginOf(call[n].tok) = r
      BY <1>9, <2>3, <3>1 DEF LoginOf
    <3>3. mem[t] = call[n].tok
      BY <2>3 DEF CallsInv
    <3> QED
      BY <3>1, <3>2, <3>3 DEF Carries
  <2>4. \/ mem[t] # 0 /\ issued'[mem[t]].root = r
        \/ \E m \in Awaited : /\ call'[m].from = t /\ call'[m].pair # 0
                              /\ issued'[call'[m].pair].root = r
    BY <1>0, <1>4, <1>12 DEF Carries, LoginOf
  <2> QED
    BY <1>4, <2>1, <2>2, <2>3, <2>4
<1>13. ASSUME NEW t \in Shells, Carries(t, j)'
       PROVE  n \in Awaited /\ t = call[n].from
  <2>1. \/ mem[t] # 0 /\ issued'[mem[t]].root = j
        \/ \E m \in Awaited : /\ call'[m].from = t /\ call'[m].pair # 0
                              /\ issued'[call'[m].pair].root = j
    BY <1>0, <1>4, <1>13 DEF Carries, LoginOf
  <2>2. \A k \in DOMAIN issued : issued'[k].root # j
    BY <1>1, <1>6 DEF LoginOf
  <2> QED
    BY <1>4, <1>7, <2>1, <2>2
<1>14. \A i : Renewed(i) => Renewed(i)'
  BY <1>1, <1>4 DEF Renewed
<1>15. CallsInv'
  <2>1. ASSUME NEW m \in Awaited
        PROVE  /\ call'[m].from \in running
               /\ call'[m].tok = mem[call'[m].from]
               /\ call'[m].at = "sent" => call'[m].pair = 0
               /\ call'[m].tok # 0 /\ call'[m].pair # 0 =>
                    issued'[call'[m].pair].root = issued'[call'[m].tok].root
    <3>1. CASE m # n
      <4>1. call'[m] = call[m]
        BY <1>4, <3>1
      <4>2. /\ call[m].tok # 0 => issued'[call[m].tok].root = LoginOf(call[m].tok)
            /\ call[m].pair # 0 => issued'[call[m].pair].root = LoginOf(call[m].pair)
        BY <1>6, <1>7 DEF LoginOf
      <4> QED
        BY <4>1, <4>2 DEF CallsInv
    <3>2. CASE m = n
      <4>1. call[n].tok # 0 => issued'[j].root = issued'[call[n].tok].root
        BY <1>6, <1>9 DEF LoginOf
      <4> QED
        BY <1>4, <3>2, <4>1 DEF CallsInv
    <3> QED
      BY <3>1, <3>2
  <2>2. ASSUME NEW m \in Slots, call'[m].at = "abandoned", call'[m].tok # 0
        PROVE  call'[m] = call[m]
    BY <1>3, <2>2 DEF NoCall
  <2>3. ASSUME NEW m \in Slots, call'[m].at = "abandoned", call'[m].tok # 0
        PROVE  issued'[call'[m].tok].root \in strained
    <3>1. call'[m] = call[m]
      BY <2>2, <2>3
    <3> QED
      BY <1>6, <1>8, <2>3, <3>1 DEF CallsInv, LoginOf
  <2>4. ASSUME NEW m \in Slots, m > count.calls PROVE call'[m] = NoCall
    <3>1. call[m] = NoCall /\ call[m].at = "none"
      BY <2>4 DEF CallsInv, NoCall
    <3> QED
      BY <1>3, <3>1
  <2>5. \A m, k \in Awaited : call'[m].from = call'[k].from => m = k
    BY <1>4 DEF CallsInv
  <2> QED
    BY <1>0, <1>4, <2>1, <2>3, <2>4, <2>5 DEF CallsInv, LoginOf
<1>16. PlacesInv'
  <2>1. ASSUME NEW k \in DOMAIN issued' PROVE issued'[issued'[k].root].hwid = issued'[k].hwid
    <3>1. CASE k \in DOMAIN issued
      BY <1>1, <1>6, <3>1 DEF PlacesInv, LoginOf
    <3>2. CASE k = j /\ call[n].tok = 0
      BY <1>1, <3>2
    <3>3. CASE k = j /\ call[n].tok # 0
      <4>1. call[n].tok \in DOMAIN issued /\ issued[call[n].tok].root \in DOMAIN issued
        BY <1>6, <1>9, <3>3 DEF LoginOf
      <4> QED
        BY <1>1, <3>3, <4>1 DEF PlacesInv
    <3> QED
      BY <1>1, <3>1, <3>2, <3>3
  <2>2. ASSUME NEW m \in Awaited, call'[m].pair # 0
        PROVE  issued'[call'[m].pair].hwid = PcOf[call'[m].from]
    <3>1. CASE m # n
      BY <1>1, <1>4, <1>7, <2>2, <3>1 DEF PlacesInv
    <3>2. CASE m = n
      <4>1. call[n].at = "sent"
        BY <1>4, <3>2
      <4>2. issued'[j].hwid = PcOf[call[n].from]
        BY <1>1, <1>7, <3>2, <4>1, SentIsNewest
      <4> QED
        BY <1>4, <3>2, <4>2
    <3> QED
      BY <3>1, <3>2
  <2>3. /\ \A t \in Shells : mem[t] # 0 => issued'[mem[t]].hwid = PcOf[t]
        /\ \A h \in Hwids : file[h] # 0 => issued'[file[h]].hwid = h
    BY <1>1, <1>7 DEF PlacesInv
  <2> QED
    BY <1>0, <1>4, <2>1, <2>2, <2>3 DEF PlacesInv
<1>17. SoleInv'
  BY <1>0, <1>1, <1>12, <1>13 DEF StrainInv, SoleInv
<1>18. FilesInv'
  <2> SUFFICES ASSUME NEW t \in Shells, NEW i \in DOMAIN issued', NEW r \in DOMAIN issued',
                      file[PcOf[t]] = i, LoginOf(i)' = r, Carries(t, r)'
               PROVE  r \in strained \/ mem[t] = i
    BY <1>0 DEF FilesInv
  <2>1. i \in DOMAIN issued
    BY <1>1, <1>7, ClientAssumption
  <2>2. LoginOf(i) = r /\ r \in DOMAIN issued
    BY <1>6, <2>1
  <2> QED
    BY <1>12, <2>1, <2>2 DEF StrainInv, FilesInv
<1>19. NewestInv'
  <2>1. ASSUME NEW i \in DOMAIN issued', Kept(i)', i \in rotated'
        PROVE  LoginOf(i)' \in strained \/ Renewed(i)'
    <3>1. Kept(i) /\ i \in DOMAIN issued
      <4>1. Kept(i)
        BY <1>0, <2>1 DEF Kept
      <4>2. i # 0
        BY <1>1, <2>1
      <4> QED
        BY <1>7, <4>1, <4>2 DEF Kept
    <3>2. CASE i \in rotated
      <4>1. LoginOf(i) \in strained \/ Renewed(i)
        BY <3>1, <3>2 DEF StrainInv, NewestInv
      <4> QED
        BY <1>6, <1>14, <3>1, <4>1
    <3>3. CASE i = call[n].tok
      <4>1. CASE call[n].at = "sent"
        BY <1>1, <1>4, <3>3, <4>1 DEF Renewed
      <4>2. CASE call[n].at = "abandoned"
        BY <1>1, <1>6, <1>11, <3>1, <3>3, <4>2
      <4> QED
        BY <4>1, <4>2
    <3> QED
      BY <1>5, <2>1, <3>2, <3>3
  <2>2. ASSUME NEW m \in Awaited, NEW k \in DOMAIN issued', call'[m].pair = k
        PROVE  LoginOf(k)' \in strained \/ k \notin rotated'
    <3>1. CASE m = n
      BY <1>4, <1>5, <2>2, <3>1
    <3>2. CASE m # n
      <4>1. call[m].pair = k /\ k # 0 /\ k \in DOMAIN issued
        BY <1>1, <1>4, <1>7, <2>2, <3>2
      <4>2. LoginOf(k) \in strained \/ k \notin rotated
        BY <4>1 DEF StrainInv, NewestInv
      <4>3. CASE k = call[n].tok /\ call[n].at = "sent"
        <5>1. /\ call[n].from \in Shells /\ call[m].from \in Shells
              /\ call[m].from # call[n].from
          BY <1>4, <3>2, <4>3, AwaitedShape DEF CallsInv
        <5>2. mem[call[n].from] = k
          BY <1>4, <4>3 DEF CallsInv
        <5>3. Carries(call[n].from, LoginOf(k)) /\ Carries(call[m].from, LoginOf(k))
          BY <4>1, <5>2 DEF Carries
        <5> QED
          BY <1>6, <4>1, <5>1, <5>3 DEF StrainInv, SoleInv
      <4>4. CASE k = call[n].tok /\ call[n].at = "abandoned"
        BY <1>6, <1>11, <4>1, <4>4
      <4> QED
        BY <1>5, <1>6, <4>1, <4>2, <4>3, <4>4
    <3> QED
      BY <3>1, <3>2
  <2> QED
    BY <1>0, <1>4, <2>1, <2>2 DEF NewestInv
<1>20. LeftInv'
  <2> SUFFICES ASSUME NEW h \in Hwids, NEW r \in DOMAIN issued',
                      <<h, r>> \in left, r \notin strained
               PROVE  /\ \A i \in DOMAIN issued' : file[h] = i => LoginOf(i)' # r
                      /\ \A t \in Shells : PcOf[t] = h => ~Carries(t, r)'
    BY <1>0 DEF LeftInv
  <2>1. r \in DOMAIN issued
    BY DEF ClientTypeOK
  <2>2. /\ \A i \in DOMAIN issued : file[h] = i => LoginOf(i) # r
        /\ \A t \in Shells : PcOf[t] = h => ~Carries(t, r)
    BY <2>1 DEF StrainInv, LeftInv
  <2>3. \A i \in DOMAIN issued' : file[h] = i => i \in DOMAIN issued
    BY <1>1, <1>7
  <2> QED
    BY <1>6, <1>12, <2>1, <2>2, <2>3
<1> QED
  BY <1>0, <1>1, <1>15, <1>16, <1>17, <1>18, <1>19, <1>20 DEF StrainInv

(***************************************************************************)
(* A refusal: an awaited refresh meets its first use of the token from its *)
(* own device, so only a refresh nobody waits for can end a login.         *)
(***************************************************************************)
LEMMA RefuseKeeps ==
  ASSUME TypeOK, PairsInv, ClientTypeOK, CallsInv, PlacesInv, StrainInv,
         NEW n \in Slots, call[n].at \in {"sent", "abandoned"}, NEW now \in Now,
         Refused(n, now), Handled(n, 0)
  PROVE  CallsInv' /\ PlacesInv' /\ StrainInv'
<1>0. UNCHANGED <<running, mem, file, left, count, strained, issued, rotated>>
  BY RefusedKeeps DEF Handled, clientVars
<1>1. /\ \A m \in Slots \ {n} : call'[m] = call[m]
      /\ \/ /\ call[n].at = "sent"
            /\ call'[n].at = "answered" /\ call'[n].pair = 0
            /\ call'[n].from = call[n].from /\ call'[n].tok = call[n].tok
         \/ call[n].at = "abandoned" /\ call'[n] = NoCall
  BY HandledCalls
<1>2. /\ Awaited' = Awaited
      /\ \A m \in Awaited : /\ call'[m].from = call[m].from /\ call'[m].tok = call[m].tok
                            /\ call'[m].pair = call[m].pair
                            /\ m # n => call'[m] = call[m]
                            /\ m = n => call'[m].at = "answered"
  <2>1. NoCall.at = "none"
    BY DEF NoCall
  <2>2. Awaited' = Awaited
    BY <1>1, <2>1 DEF Awaited
  <2>3. call[n].at = "sent" => call[n].pair = 0
    BY DEF CallsInv, Awaited
  <2>4. n \in Awaited => call[n].at = "sent"
    BY DEF Awaited
  <2> QED
    BY <1>1, <2>2, <2>3, <2>4 DEF Awaited
<1>3. \A i : LoginOf(i)' = LoginOf(i)
  BY <1>0 DEF LoginOf
<1>4. \A i : (Renewed(i)' <=> Renewed(i)) /\ (Kept(i)' <=> Kept(i))
  BY <1>0, <1>2 DEF Renewed, Kept
<1>5. \A s, r : Carries(s, r)' <=> Carries(s, r)
  BY <1>0, <1>2 DEF Carries, LoginOf
<1>6. burned' \subseteq strained
  <2>1. SUFFICES ASSUME call[n].tok \in DOMAIN issued,
                        burned' = burned \cup {LoginOf(call[n].tok)},
                        \/ call[n].tok \in rotated
                        \/ issued[call[n].tok].hwid # PcOf[call[n].from]
                 PROVE  LoginOf(call[n].tok) \in strained
    BY RefusedKeeps DEF StrainInv
  <2>2. call[n].tok # 0
    BY <2>1, IssuedData
  <2>3. CASE call[n].at = "sent"
    <3>1. n \in Awaited
      BY <2>3 DEF Awaited
    <3> QED
      BY <2>1, <2>2, <2>3, <3>1, SentIsNewest
  <2>4. CASE call[n].at = "abandoned"
    BY <2>2, <2>4 DEF CallsInv
  <2> QED
    BY <2>3, <2>4
<1>7. CallsInv'
  <2>1. ASSUME NEW m \in Slots, call'[m].at = "abandoned" PROVE call'[m] = call[m]
    BY <1>1, <2>1 DEF NoCall
  <2>2. ASSUME NEW m \in Slots, m > count.calls PROVE call'[m] = NoCall
    <3>1. call[m] = NoCall /\ call[m].at = "none"
      BY <2>2 DEF CallsInv, NoCall
    <3> QED
      BY <1>1, <3>1
  <2>3. \A m \in Slots : call'[m].at = "abandoned" /\ call'[m].tok # 0 =>
          LoginOf(call'[m].tok) \in strained
    BY <2>1 DEF CallsInv
  <2>4. \A m \in Awaited :
          /\ call'[m].from \in running
          /\ call'[m].tok = mem[call'[m].from]
          /\ call'[m].at = "sent" => call'[m].pair = 0
          /\ call'[m].tok # 0 /\ call'[m].pair # 0 =>
               LoginOf(call'[m].pair) = LoginOf(call'[m].tok)
    BY <1>2 DEF CallsInv
  <2>5. \A m, k \in Awaited : call'[m].from = call'[k].from => m = k
    BY <1>2 DEF CallsInv
  <2> QED
    BY <1>0, <1>2, <2>2, <2>3, <2>4, <2>5 DEF CallsInv, LoginOf
<1>8. PlacesInv'
  BY <1>0, <1>2 DEF PlacesInv
<1>9. SoleInv' /\ FilesInv'
  BY <1>0, <1>3, <1>5 DEF StrainInv, SoleInv, FilesInv
<1>10. NewestInv'
  BY <1>0, <1>2, <1>3, <1>4 DEF StrainInv, NewestInv
<1>11. LeftInv'
  BY <1>0, <1>3, <1>5 DEF StrainInv, LeftInv
<1> QED
  BY <1>0, <1>6, <1>7, <1>8, <1>9, <1>10, <1>11 DEF StrainInv

(***************************************************************************)
(* Every step of the composition keeps the invariant.                      *)
(***************************************************************************)
LEMMA NextClientInv == ClientInv /\ [ClientNext]_vars => ClientInv'
<1> SUFFICES ASSUME ClientInv, [ClientNext]_vars PROVE ClientInv'
  OBVIOUS
<1>0. /\ IInv /\ TypeOK /\ PairsInv /\ ClientTypeOK
      /\ CallsInv /\ PlacesInv /\ StrainInv
  BY DEF ClientInv, IInv
<1>1. IInv'
  BY <1>0, ClientStepIsCall, NextIInv
<1>2. ClientTypeOK'
  BY <1>0, NextClientTypeOK
<1>3. ASSUME NEW s \in Shells, UserRedeem(s) \/ UserLogin(s) \/ UserRefresh(s)
      PROVE  CallsInv' /\ PlacesInv' /\ StrainInv'
  <2>1. PICK cmd \in {"redeem", "login", "refresh"} : Send(s, cmd, mem[s])
    BY <1>3 DEF UserRedeem, UserLogin, UserRefresh
  <2> QED
    BY <1>0, <2>1, SendKeeps
<1>4. ASSUME NEW s \in Shells, UserLogout(s) PROVE CallsInv' /\ PlacesInv' /\ StrainInv'
  BY <1>0, <1>4, LogoutKeeps
<1>5. ASSUME NEW s \in Shells, Start(s) PROVE CallsInv' /\ PlacesInv' /\ StrainInv'
  BY <1>0, <1>5, StartKeeps
<1>6. ASSUME NEW s \in Shells, ProcessEnds(s) PROVE CallsInv' /\ PlacesInv' /\ StrainInv'
  <2>1. /\ running' = running \ {s} /\ mem' = [mem EXCEPT ![s] = 0]
        /\ call' = Abandoned(Mine(s)) /\ strained' = strained \cup Risked(Mine(s))
        /\ count' = [count EXCEPT !.stops = @ + 1]
        /\ UNCHANGED <<issued, rotated, burned, file, left>>
    BY <1>6 DEF ProcessEnds, authVars, tokenVars
  <2>2. Mine(s) \in SUBSET Awaited /\ Mine(s) \in SUBSET Slots
    BY DEF Mine, Awaited
  <2>3. Dropped(Mine(s))
    BY <1>0, <2>1, <2>2, AbandonedDrops
  <2>4. \A t \in Shells : mem'[t] = mem[t] \/ (mem'[t] = 0 /\ Mine(t) \subseteq Mine(s))
    BY <1>0, <2>1 DEF ClientTypeOK
  <2>5. \A n \in Awaited \ Mine(s) : call[n].from \in running'
    BY <1>0, <2>1 DEF CallsInv, Mine
  <2>6. \A n \in Mine(s) : call[n].tok # 0 => LoginOf(call[n].tok) \in strained'
    BY <1>0, <2>1, <2>2, RiskedArePairs
  <2>7. count'.calls = count.calls /\ strained \subseteq strained'
    BY <1>0, <2>1 DEF ClientTypeOK
  <2> QED
    BY <1>0, <2>1, <2>2, <2>3, <2>4, <2>5, <2>6, <2>7, DropKeeps
<1>7. ASSUME NEW n \in Slots, TakesPair(n) PROVE CallsInv' /\ PlacesInv' /\ StrainInv'
  BY <1>0, <1>7, TakesPairKeeps
<1>8. ASSUME NEW n \in Slots, TakesRefusal(n) \/ RequestLost(n)
      PROVE  CallsInv' /\ PlacesInv' /\ StrainInv'
  <2>1. /\ call' = [call EXCEPT ![n] = NoCall]
        /\ call[n].at = "answered" => call[n].pair = 0
        /\ call[n].at \in {"sent", "abandoned", "answered"}
        /\ UNCHANGED <<issued, rotated, burned, running, mem, file, left, count, strained>>
    BY <1>8 DEF TakesRefusal, RequestLost, clientVars, authVars, tokenVars
  <2>2. Dropped({n}) /\ {n} \in SUBSET Slots
    BY <1>0, <2>1, EndedDrops
  <2>3. call'[n].at = "none"
    BY <1>0, <2>1 DEF ClientTypeOK, NoCall
  <2>4. call[n].pair # 0 => call[n].at = "abandoned"
    BY <1>0, <2>1 DEF CallsInv, Awaited
  <2>5. \A m \in {n} :
          call[m].at # "none" /\ call[m].tok # 0
            /\ (call[m].pair # 0 \/ call'[m].at = "abandoned") =>
          LoginOf(call[m].tok) \in strained'
    BY <1>0, <2>1, <2>3, <2>4 DEF CallsInv
  <2>6. \A m \in Awaited \ {n} : call[m].from \in running'
    BY <1>0, <2>1 DEF CallsInv
  <2> QED
    BY <1>0, <2>1, <2>2, <2>5, <2>6, DropKeeps
<1>9. ASSUME NEW n \in Slots, GivesUp(n) PROVE CallsInv' /\ PlacesInv' /\ StrainInv'
  <2>1. /\ {n} \in SUBSET Awaited /\ {n} \in SUBSET Slots
        /\ call' = Abandoned({n}) /\ strained' = strained \cup Risked({n})
        /\ UNCHANGED <<issued, rotated, burned, running, mem, file, left, count>>
    BY <1>9 DEF GivesUp, clientVars, authVars, tokenVars
  <2>2. Dropped({n})
    BY <1>0, <2>1, AbandonedDrops
  <2>3. \A m \in {n} : call[m].tok # 0 => LoginOf(call[m].tok) \in strained'
    BY <1>0, <2>1, RiskedArePairs
  <2>4. \A m \in Awaited \ {n} : call[m].from \in running'
    BY <1>0, <2>1 DEF CallsInv
  <2>5. strained \subseteq strained'
    BY <2>1
  <2> QED
    BY <1>0, <2>1, <2>2, <2>3, <2>4, <2>5, DropKeeps
<1>10. ASSUME NEW n \in Slots, BrokerAnswers(n) PROVE CallsInv' /\ PlacesInv' /\ StrainInv'
  <2>1. call[n].at \in {"sent", "abandoned"}
    BY <1>10 DEF BrokerAnswers
  <2>2. PICK now \in Now : \/ Granted(n, now) /\ Handled(n, Len(issued) + 1)
                           \/ Refused(n, now) /\ Handled(n, 0)
    BY <1>10 DEF BrokerAnswers
  <2>3. CASE Granted(n, now) /\ Handled(n, Len(issued) + 1)
    BY <1>0, <2>1, <2>3, GrantKeeps
  <2>4. CASE Refused(n, now) /\ Handled(n, 0)
    BY <1>0, <2>1, <2>4, RefuseKeeps
  <2> QED
    BY <2>2, <2>3, <2>4
<1>11. ASSUME UNCHANGED <<issued, rotated, burned, clientVars, call, count, strained>>
       PROVE  CallsInv' /\ PlacesInv' /\ StrainInv'
  <2>1. UNCHANGED <<issued, rotated, burned, running, mem, file, left, call, count, strained>>
    BY <1>11 DEF clientVars
  <2>2. Awaited' = Awaited
    BY <2>1 DEF Awaited
  <2>3. CallsInv' /\ PlacesInv'
    BY <1>0, <2>1, <2>2 DEF CallsInv, PlacesInv, LoginOf
  <2>4. /\ \A i : LoginOf(i)' = LoginOf(i)
        /\ \A i : (Renewed(i)' <=> Renewed(i)) /\ (Kept(i)' <=> Kept(i))
        /\ \A s, r : Carries(s, r)' <=> Carries(s, r)
    BY <2>1, <2>2 DEF LoginOf, Renewed, Kept, Carries
  <2>5. SoleInv' /\ FilesInv' /\ LeftInv' /\ (burned \subseteq strained)'
    BY <1>0, <2>1, <2>4 DEF StrainInv, SoleInv, FilesInv, LeftInv
  <2>6. NewestInv'
    BY <1>0, <2>1, <2>2, <2>4 DEF StrainInv, NewestInv
  <2> QED
    BY <2>1, <2>3, <2>5, <2>6 DEF StrainInv
<1>12. CallsInv' /\ PlacesInv' /\ StrainInv'
  <2>1. CASE BrokerElse
    BY <1>11, <2>1, ElseKeeps
  <2>2. CASE UNCHANGED vars
    BY <1>11, <2>2 DEF vars, authVars, tokenVars
  <2> QED
    BY <1>3, <1>4, <1>5, <1>6, <1>7, <1>8, <1>9, <1>10, <2>1, <2>2 DEF ClientNext
<1> QED
  BY <1>1, <1>2, <1>12 DEF ClientInv

(***************************************************************************)
(* Nothing is issued, called or kept at the start.                         *)
(***************************************************************************)
LEMMA ClientInitInv == ClientInit => ClientInv
<1> SUFFICES ASSUME ClientInit PROVE ClientInv
  OBVIOUS
<1>0. IInv /\ ClientTypeOK
  BY InitIInv, ClientInitTypeOK DEF ClientInit
<1>1. /\ DOMAIN issued = {} /\ Awaited = {}
      /\ \A n \in Slots : call[n] = NoCall /\ call[n].at = "none"
      /\ \A s \in Shells : mem[s] = 0
      /\ \A h \in Hwids : file[h] = 0
      /\ burned = {} /\ left = {}
  BY DEF ClientInit, Init, Awaited, NoCall
<1>2. CallsInv /\ PlacesInv
  BY <1>1 DEF CallsInv, PlacesInv
<1>3. StrainInv
  BY <1>1 DEF StrainInv, SoleInv, FilesInv, NewestInv, LeftInv
<1> QED
  BY <1>0, <1>2, <1>3 DEF ClientInv

-----------------------------------------------------------------------------
(***************************************************************************)
(* The invariant the theorems on stored sessions rest on.                  *)
(***************************************************************************)
THEOREM ClientInvariance == ClientSpec => []ClientInv
  BY ClientInitInv, NextClientInv, PTL DEF ClientSpec

(***************************************************************************)
(* Whatever the shells send, give up, repeat or lose, the store behind     *)
(* them does only what module AuthStore specifies, so that part 1 holds of *)
(* the composition too.                                                    *)
(***************************************************************************)
THEOREM ShellsUseTheStore == ClientSpec => Spec
<1>1. ClientInit => Init
  BY DEF ClientInit
<1>2. ClientInv /\ [ClientNext]_vars => [Next]_authVars
  BY ClientStepIsCall DEF ClientInv, IInv
<1> QED
  BY <1>1, <1>2, ClientInvariance, PTL DEF ClientSpec, Spec

(***************************************************************************)
(* What the shells and their PCs keep is well typed, for every number of   *)
(* shells, PCs and accounts.                                               *)
(***************************************************************************)
THEOREM ClientTypeCorrect == ClientSpec => []ClientTypeOK
<1>1. ClientInv => ClientTypeOK
  BY DEF ClientInv
<1> QED
  BY <1>1, ClientInvariance, PTL

(***************************************************************************)
(* The broker ends no login for a reuse that only one shell used and whose *)
(* refreshes were all awaited and saved.                                   *)
(***************************************************************************)
THEOREM BurnedAfterStrain == ClientSpec => []BurnedOnlyAfterStrain
<1>1. ClientInv => BurnedOnlyAfterStrain
  BY DEF ClientInv, StrainInv, BurnedOnlyAfterStrain
<1> QED
  BY <1>1, ClientInvariance, PTL

(***************************************************************************)
(* A pair in memory or on disk can be exchanged, unless its login ended or *)
(* is strained, or its exchange is under way.                              *)
(***************************************************************************)
THEOREM HeldExchange == ClientSpec => []HeldPairsExchange
<1>1. ClientInv => HeldPairsExchange
  <2> SUFFICES ASSUME ClientInv, NEW i \in Held, LoginOf(i) \notin strained, ~UnderWay(i)
               PROVE  i \notin rotated
    BY DEF HeldPairsExchange
  <2>0. TypeOK /\ PairsInv /\ ClientTypeOK /\ NewestInv
    BY DEF ClientInv, IInv, StrainInv
  <2>1. i # 0 /\ i \in 0..Len(issued) /\ Kept(i)
    BY <2>0 DEF Held, Kept, ClientTypeOK
  <2>2. i \in DOMAIN issued
    BY <2>0, <2>1, LoginIsPair
  <2>3. Renewed(i) => UnderWay(i)
    BY DEF Renewed, UnderWay
  <2> QED
    BY <2>0, <2>1, <2>2, <2>3 DEF NewestInv
<1> QED
  BY <1>1, ClientInvariance, PTL

(***************************************************************************)
(* A login a PC was logged out of does not come back to its shells or its  *)
(* file.                                                                   *)
(***************************************************************************)
THEOREM LogoutFinal == ClientSpec => []LogoutIsFinal
<1>1. ClientInv => LogoutIsFinal
  <2> SUFFICES ASSUME ClientInv, NEW e \in left, e[2] \notin strained,
                      e[2] \in LoginsOf({file[e[1]]} \cup
                                 {mem[s] : s \in {t \in Shells : PcOf[t] = e[1]}})
               PROVE  FALSE
    BY DEF LogoutIsFinal
  <2>0. TypeOK /\ PairsInv /\ ClientTypeOK /\ LeftInv
    BY DEF ClientInv, IInv, StrainInv
  <2>1. PICK h \in Hwids, r \in DOMAIN issued : e = <<h, r>>
    BY <2>0 DEF ClientTypeOK
  <2>2. /\ \A i \in DOMAIN issued : file[h] = i => LoginOf(i) # r
        /\ \A s \in Shells : PcOf[s] = h => ~Carries(s, r)
    BY <2>0, <2>1 DEF LeftInv
  <2>3. PICK i : /\ i # 0 /\ LoginOf(i) = r
                 /\ i = file[h] \/ \E s \in Shells : PcOf[s] = h /\ i = mem[s]
    BY <2>1 DEF LoginsOf
  <2>4. CASE i = file[h]
    <3>1. i \in DOMAIN issued
      BY <2>0, <2>3, <2>4, LoginIsPair DEF ClientTypeOK
    <3> QED
      BY <2>2, <2>3, <2>4, <3>1
  <2>5. CASE \E s \in Shells : PcOf[s] = h /\ i = mem[s]
    BY <2>2, <2>3, <2>5 DEF Carries
  <2> QED
    BY <2>3, <2>4, <2>5
<1> QED
  BY <1>1, ClientInvariance, PTL
=============================================================================
