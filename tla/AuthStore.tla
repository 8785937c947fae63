------------------------------ MODULE AuthStore ------------------------------
(***************************************************************************)
(* The member sessions of crates/whisper-auth/src/lib.rs: invitations,     *)
(* devices (HWID slots), access tokens and one-time refresh tokens.        *)
(*                                                                         *)
(* A call that the code refuses without writing anything is a disabled     *)
(* action.  Every pair of tokens ever issued has a number, its index in    *)
(* `issued': the signed access token carries account, device, time and     *)
(* generation, and the refresh record of the same number is live while it  *)
(* is in refresh[a].  Signatures, hashing and names are not modelled: a    *)
(* token that was never issued is refused.                                 *)
(***************************************************************************)
EXTENDS Integers, Sequences, FiniteSets

CONSTANTS Accounts,           \* account names
          Hwids,              \* device identifiers
          Codes,              \* invitation codes
          LOCKOUT_THRESHOLD,  \* wrong passwords that lock an account
          LOCKOUT_SECS,       \* how long it stays locked
          ACCESS_TTL_SECS,
          REFRESH_TTL_SECS,
          INVITE_TTL_SECS,
          DEFAULT_SLOTS,
          SlotLimits,         \* the slot limits an admin sets
          MaxLag,             \* how old the time a caller read may be
          MaxClock,           \* bound: last instant modelled
          MaxIssued,          \* bound: pairs of tokens issued
          MaxGeneration       \* bound: revocations of one account

ASSUME AuthAssumption ==
  /\ {LOCKOUT_THRESHOLD, LOCKOUT_SECS, DEFAULT_SLOTS} \subseteq Nat \ {0}
  /\ {ACCESS_TTL_SECS, REFRESH_TTL_SECS, INVITE_TTL_SECS} \subseteq Nat
  /\ SlotLimits \subseteq 1..16
  /\ {MaxLag, MaxClock, MaxIssued, MaxGeneration} \subseteq Nat

VARIABLES clock,        \* the wall clock
          invites,      \* code -> time of creation
          used,         \* the redeemed codes
          registered,   \* the accounts that exist
          slots,        \* slots[a]: the devices bound to a
          maxSlots,     \* maxSlots[a]: how many may be bound
          suspended,    \* the accounts the admin stopped
          failed,       \* failed[a]: wrong passwords since the last reset
          lockedUntil,  \* lockedUntil[a]: end of the lock
          generation,   \* generation[a]: access tokens of another one are dead
          refresh,      \* refresh[a]: numbers of its refresh records
          rotated,      \* the refresh records already exchanged
          issued,       \* every pair issued so far
          burned,       \* history: first pairs of the chains that met a reuse
          guesses       \* history: when a's passwords since the last right one
                        \* were found wrong, the latest LOCKOUT_THRESHOLD + 1

inviteVars == <<invites, used>>
deviceVars == <<registered, slots, maxSlots>>
lockVars == <<failed, lockedUntil, guesses>>
tokenVars == <<refresh, rotated, issued>>
authVars == <<clock, inviteVars, deviceVars, suspended, lockVars, generation,
              tokenVars, burned>>

\* `root' is the number of the login the pair descends from.
Pair == [account : Accounts, hwid : Hwids, at : Nat, gen : Nat, root : Nat]

Now == {t \in 0..clock : clock - t <= MaxLag}

-----------------------------------------------------------------------------
(* Tokens.                                                                 *)

\* Mutant: the exchanged record stays exchangeable.
IssuePairKeepingOld(a, h, now, root, rotates) ==
  /\ Len(issued) < MaxIssued
  /\ issued' = Append(issued, [account |-> a, hwid |-> h, at |-> now,
                               gen |-> generation[a], root |-> root])
  /\ refresh' = [refresh EXCEPT ![a] = @ \cup {Len(issued) + 1}]
  /\ UNCHANGED rotated

\* AuthStore::issue_pair, for a pair that descends from pair number `root'.
\* `rotates' is the set of records exchanged for it.
IssuePair(a, h, now, root, rotates) ==
  /\ Len(issued) < MaxIssued
  /\ issued' = Append(issued, [account |-> a, hwid |-> h, at |-> now,
                               gen |-> generation[a], root |-> root])
  /\ refresh' = [refresh EXCEPT ![a] = @ \cup {Len(issued) + 1}]
  /\ rotated' = rotated \cup rotates

NewChain == Len(issued) + 1

Live(i) == i \in refresh[issued[i].account]

Revoked(i) ==
  \/ issued[i].account \in suspended
  \/ issued[i].gen # generation[issued[i].account]

\* AuthStore::verify_access
AccessAccepted(i, h, now) ==
  /\ now < issued[i].at + ACCESS_TTL_SECS
  /\ issued[i].hwid = h
  /\ ~Revoked(i)

RefreshExpired(i, now) == now >= issued[i].at + REFRESH_TTL_SECS

\* A refresh token presented after its exchange, or by another device.
Suspicious(i, h) == i \in rotated \/ issued[i].hwid # h

\* Mutant: access tokens live on.
DropRefreshOnly(a) ==
  /\ refresh' = [refresh EXCEPT ![a] = {}]
  /\ UNCHANGED generation

\* All sessions of a end: no refresh record is left and every access token
\* is of an old generation.
DropSessions(a) ==
  /\ generation[a] < MaxGeneration
  /\ generation' = [generation EXCEPT ![a] = @ + 1]
  /\ refresh' = [refresh EXCEPT ![a] = {}]

-----------------------------------------------------------------------------
(* The calls.                                                              *)

CreateInvite(c, now) ==
  /\ c \notin DOMAIN invites
  /\ invites' = [d \in DOMAIN invites \cup {c} |-> IF d = c THEN now ELSE invites[d]]
  /\ UNCHANGED <<clock, used, deviceVars, suspended, lockVars, generation,
                 tokenVars, burned>>

RedeemInvite(c, a, h, now) ==
  /\ c \in DOMAIN invites \ used
  /\ now - invites[c] <= INVITE_TTL_SECS
  /\ a \notin registered
  /\ registered' = registered \cup {a}
  /\ slots' = [slots EXCEPT ![a] = {h}]
  /\ used' = used \cup {c}
  /\ IssuePair(a, h, now, NewChain, {})
  /\ UNCHANGED <<clock, invites, maxSlots, suspended, lockVars, generation, burned>>

\* Mutant: the lock is not looked at.
PasswordCheckedAlways(a, now) == a \in registered \ suspended

\* The password of a is looked at: a exists, is not stopped and not locked.
PasswordChecked(a, now) ==
  /\ a \in registered \ suspended
  /\ now >= lockedUntil[a]

HasSlot(a, h) == h \in slots[a] \/ Cardinality(slots[a]) < maxSlots[a]

LoginOk(a, h, now) ==
  /\ PasswordChecked(a, now)
  /\ HasSlot(a, h)
  /\ failed' = [failed EXCEPT ![a] = 0]
  /\ guesses' = [guesses EXCEPT ![a] = << >>]
  /\ slots' = [slots EXCEPT ![a] = @ \cup {h}]
  /\ IssuePair(a, h, now, NewChain, {})
  /\ UNCHANGED <<clock, inviteVars, registered, maxSlots, suspended,
                 lockedUntil, generation, burned>>

\* The right password from one device too many: refused, the count is reset.
LoginNoSlot(a, h, now) ==
  /\ PasswordChecked(a, now)
  /\ ~HasSlot(a, h)
  /\ failed' = [failed EXCEPT ![a] = 0]
  /\ guesses' = [guesses EXCEPT ![a] = << >>]
  /\ UNCHANGED <<clock, inviteVars, deviceVars, suspended, lockedUntil,
                 generation, tokenVars, burned>>

LoginWrongPassword(a, now) ==
  /\ PasswordChecked(a, now)
  /\ LET locks == failed[a] + 1 >= LOCKOUT_THRESHOLD
         past == Append(guesses[a], clock)
     IN /\ failed' = [failed EXCEPT ![a] = IF locks THEN 0 ELSE @ + 1]
        /\ lockedUntil' =
             [lockedUntil EXCEPT ![a] = IF locks THEN now + LOCKOUT_SECS ELSE @]
        /\ guesses' = [guesses EXCEPT ![a] =
             IF Len(past) > LOCKOUT_THRESHOLD + 1 THEN Tail(past) ELSE past]
  /\ UNCHANGED <<clock, inviteVars, deviceVars, suspended, generation,
                 tokenVars, burned>>

RefreshOk(i, now) ==
  /\ Live(i)
  /\ ~Suspicious(i, issued[i].hwid)
  /\ ~RefreshExpired(i, now)
  /\ IssuePair(issued[i].account, issued[i].hwid, now, issued[i].root, {i})
  /\ UNCHANGED <<clock, inviteVars, deviceVars, suspended, lockVars,
                 generation, burned>>

RefreshReuse(i, h) ==
  /\ Live(i)
  /\ Suspicious(i, h)
  /\ DropSessions(issued[i].account)
  /\ burned' = burned \cup {issued[i].root}
  /\ UNCHANGED <<clock, inviteVars, deviceVars, suspended, lockVars, rotated, issued>>

\* Mutant: the sessions wait for the suspension to be lifted.
SuspendOnlyFlags(a) ==
  /\ a \in registered
  /\ suspended' = suspended \cup {a}
  /\ UNCHANGED <<clock, inviteVars, deviceVars, lockVars, generation, tokenVars, burned>>

Suspend(a) ==
  /\ a \in registered
  /\ suspended' = suspended \cup {a}
  /\ DropSessions(a)
  /\ UNCHANGED <<clock, inviteVars, deviceVars, lockVars, rotated, issued, burned>>

Unsuspend(a) ==
  /\ a \in registered
  /\ suspended' = suspended \ {a}
  /\ UNCHANGED <<clock, inviteVars, deviceVars, lockVars, generation, tokenVars, burned>>

\* Mutant: the devices are unbound, their sessions are not ended.
ResetHwidOnly(a) ==
  /\ a \in registered
  /\ slots' = [slots EXCEPT ![a] = {}]
  /\ UNCHANGED <<clock, inviteVars, registered, maxSlots, suspended, lockVars,
                 generation, tokenVars, burned>>

ResetHwid(a) ==
  /\ a \in registered
  /\ slots' = [slots EXCEPT ![a] = {}]
  /\ DropSessions(a)
  /\ UNCHANGED <<clock, inviteVars, registered, maxSlots, suspended, lockVars,
                 rotated, issued, burned>>

SetMaxSlots(a, n) ==
  /\ a \in registered
  /\ maxSlots' = [maxSlots EXCEPT ![a] = n]
  /\ UNCHANGED <<clock, inviteVars, registered, slots, suspended, lockVars,
                 generation, tokenVars, burned>>

Tick ==
  /\ clock < MaxClock
  /\ clock' = clock + 1
  /\ UNCHANGED <<inviteVars, deviceVars, suspended, lockVars, generation,
                 tokenVars, burned>>

Init ==
  /\ clock = 0
  /\ invites = [c \in {} |-> 0]
  /\ used = {}
  /\ registered = {}
  /\ slots = [a \in Accounts |-> {}]
  /\ maxSlots = [a \in Accounts |-> DEFAULT_SLOTS]
  /\ suspended = {}
  /\ failed = [a \in Accounts |-> 0]
  /\ lockedUntil = [a \in Accounts |-> 0]
  /\ generation = [a \in Accounts |-> 0]
  /\ refresh = [a \in Accounts |-> {}]
  /\ rotated = {}
  /\ issued = << >>
  /\ burned = {}
  /\ guesses = [a \in Accounts |-> << >>]

InviteNext ==
  \E c \in Codes, now \in Now :
    \/ CreateInvite(c, now)
    \/ \E a \in Accounts, h \in Hwids : RedeemInvite(c, a, h, now)

LoginNext ==
  \E a \in Accounts, now \in Now :
    \/ \E h \in Hwids : LoginOk(a, h, now) \/ LoginNoSlot(a, h, now)
    \/ LoginWrongPassword(a, now)

RefreshNext ==
  \E i \in DOMAIN issued :
    \/ \E now \in Now : RefreshOk(i, now)
    \/ \E h \in Hwids : RefreshReuse(i, h)

AdminNext ==
  \E a \in Accounts :
    \/ Suspend(a)
    \/ Unsuspend(a)
    \/ ResetHwid(a)
    \/ \E n \in SlotLimits : SetMaxSlots(a, n)

Next == InviteNext \/ LoginNext \/ RefreshNext \/ AdminNext \/ Tick

Spec == Init /\ [][Next]_authVars

-----------------------------------------------------------------------------
(* Properties.                                                             *)

TypeOK ==
  /\ clock \in Nat
  /\ DOMAIN invites \subseteq Codes
  /\ \A c \in DOMAIN invites : invites[c] \in Nat
  /\ used \subseteq DOMAIN invites
  /\ registered \subseteq Accounts
  /\ slots \in [Accounts -> SUBSET Hwids]
  /\ maxSlots \in [Accounts -> Nat]
  /\ suspended \subseteq registered
  /\ failed \in [Accounts -> 0..(LOCKOUT_THRESHOLD - 1)]
  /\ lockedUntil \in [Accounts -> Nat]
  /\ generation \in [Accounts -> Nat]
  /\ issued \in Seq(Pair)
  /\ refresh \in [Accounts -> SUBSET DOMAIN issued]
  /\ rotated \subseteq DOMAIN issued
  /\ burned \subseteq DOMAIN issued
  /\ guesses \in [Accounts -> Seq(Nat)]

(***************************************************************************)
(* A session exists only on a device that is bound now, of an account that *)
(* is not stopped.  verify_access never looks at the slots, and refresh    *)
(* not even at `suspended': the calls that unbind a device or stop an      *)
(* account must have ended every session, whatever happened since.         *)
(***************************************************************************)
Bound(i) ==
  /\ issued[i].hwid \in slots[issued[i].account]
  /\ issued[i].account \notin suspended

SessionsAreBound ==
  \A i \in DOMAIN issued :
    /\ Live(i) => Bound(i)
    /\ \A h \in Hwids, now \in Now :
         AccessAccepted(i, h, now) => Bound(i) /\ h \in slots[issued[i].account]

(***************************************************************************)
(* At any time at most one refresh token of a login can be exchanged: the  *)
(* tokens that descend from one login are a chain, never a tree.           *)
(***************************************************************************)
OneExchangeablePerLogin ==
  \A i, j \in DOMAIN issued :
    (/\ Live(i) /\ i \notin rotated
     /\ Live(j) /\ j \notin rotated
     /\ issued[i].root = issued[j].root)
    => i = j

(***************************************************************************)
(* Once a refresh token was presented a second time, or by another device, *)
(* no token of its login is worth anything again, the ones issued after    *)
(* the copied one included.                                                *)
(***************************************************************************)
BurnedLoginsStayDead ==
  \A i \in DOMAIN issued :
    issued[i].root \in burned => ~Live(i) /\ Revoked(i)

(***************************************************************************)
(* Revocation is final: lifting a suspension, binding a device anew or any *)
(* other call never makes a revoked access token acceptable again (PLAN.md *)
(* paragraph 3; the comment on AuthStore::unsuspend).                      *)
(***************************************************************************)
RevocationIsFinal ==
  [][\A i \in DOMAIN issued : Revoked(i) => Revoked(i)']_authVars

(***************************************************************************)
(* Guessing is slow: among any LOCKOUT_THRESHOLD + 1 wrong passwords with  *)
(* no right one in between, the first and the last are a lock apart, give  *)
(* or take the age of the time a caller read.                              *)
(***************************************************************************)
GuessingIsSlow ==
  \A a \in Accounts :
    Len(guesses[a]) = LOCKOUT_THRESHOLD + 1 =>
      guesses[a][LOCKOUT_THRESHOLD + 1] - guesses[a][1] >= LOCKOUT_SECS - MaxLag
=============================================================================
