------------------------------ MODULE Members ------------------------------
(***************************************************************************)
(* Membership in the broker: the handlers of crates/broker/src/state.rs    *)
(* that write the two stores of members, AuthStore (whisper-auth) and the  *)
(* panel's accounts (panel/src/accounts.rs, users.rs, lib.rs), the opening *)
(* balance they book in the ledger, and the admin who may call them        *)
(* (panel/src/admin.rs).                                                   *)
(*                                                                         *)
(* Every handler holds the one mutex of the broker and read its time       *)
(* before it got it.  The audit log, the log of device resets, `online'    *)
(* and `last_active' are written and never read by a handler; they are     *)
(* left out, and so are passwords: a call has the right one or not.        *)
(***************************************************************************)
EXTENDS AuthStore

CONSTANTS Openings,             \* opening balances of invitations
          MAX_FAILED,           \* wrong admin passwords that lock
          LOCK_SECS,            \* how long the admin is locked out
          ADMIN_TOKEN_TTL_SECS

ASSUME MembersAssumption ==
  /\ Openings \subseteq Nat
  /\ {MAX_FAILED, LOCK_SECS} \subseteq Nat \ {0}
  /\ ADMIN_TOKEN_TTL_SECS \in Nat

VARIABLES panelInvites,  \* AccountStore::invites, by code
          panel,         \* AccountStore::accounts, by name
          credited,      \* what the ledger booked for a at its redeem
          adminHash,     \* an admin password was set
          adminFailed,   \* AdminAuth::failed
          adminLocked,   \* AdminAuth::locked_until
          adminTokens,   \* when the admin tokens of this process end
          adminGuesses   \* history: as `guesses', for the admin

panelVars == <<panelInvites, panel, credited>>
adminAuthVars == <<adminHash, adminFailed, adminLocked, adminGuesses>>
adminVars == <<adminAuthVars, adminTokens>>
membersVars == <<authVars, panelVars, adminVars>>

PanelInvite == [username : Accounts, opening : Openings, expires : Nat,
                redeemed : BOOLEAN]
PanelAccount == [balance : Nat, devices : SUBSET Hwids, suspended : BOOLEAN]

\* f, with the value v for x.
With(f, x, v) == [y \in DOMAIN f \cup {x} |-> IF y = x THEN v ELSE f[y]]

-----------------------------------------------------------------------------
(* The admin.                                                              *)

\* BrokerState::admin_require
AdminOk(now) == \E end \in adminTokens : now < end

\* AdminAuth::setup, once.
AdminSetup ==
  /\ ~adminHash
  /\ adminHash' = TRUE
  /\ UNCHANGED <<authVars, panelVars, adminFailed, adminLocked, adminGuesses,
                 adminTokens>>

AdminChecked(now) == adminHash /\ now >= adminLocked

\* AdminAuth::verify and issue_admin_token, with the right password.
AdminLogin(now) ==
  /\ AdminChecked(now)
  /\ adminFailed' = 0
  /\ adminGuesses' = << >>
  /\ adminTokens' = adminTokens \cup {now + ADMIN_TOKEN_TTL_SECS}
  /\ UNCHANGED <<authVars, panelVars, adminHash, adminLocked>>

\* Mutant: the lock begins one failure late.
AdminWrongLate(now) ==
  /\ AdminChecked(now)
  /\ LET locks == adminFailed + 1 > MAX_FAILED
         past == Append(adminGuesses, clock)
     IN /\ adminFailed' = IF locks THEN 0 ELSE adminFailed + 1
        /\ adminLocked' = IF locks THEN now + LOCK_SECS ELSE adminLocked
        /\ adminGuesses' = IF Len(past) > MAX_FAILED + 1 THEN Tail(past) ELSE past
  /\ UNCHANGED <<authVars, panelVars, adminHash, adminTokens>>

\* AdminAuth::verify with a wrong one.
AdminWrong(now) ==
  /\ AdminChecked(now)
  /\ LET locks == adminFailed + 1 >= MAX_FAILED
         past == Append(adminGuesses, clock)
     IN /\ adminFailed' = IF locks THEN 0 ELSE adminFailed + 1
        /\ adminLocked' = IF locks THEN now + LOCK_SECS ELSE adminLocked
        /\ adminGuesses' = IF Len(past) > MAX_FAILED + 1 THEN Tail(past) ELSE past
  /\ UNCHANGED <<authVars, panelVars, adminHash, adminTokens>>

\* BrokerState::new from a snapshot that is up to date: admin tokens live in
\* memory only.  What a late snapshot loses is in module Broker.
Restart ==
  /\ adminTokens' = {}
  /\ UNCHANGED <<authVars, panelVars, adminAuthVars>>

-----------------------------------------------------------------------------
(* Invitations and accounts.                                               *)

\* AccountStore::create_invite: code c opens an account a, once.
PanelInvites(c, a, opening, now) ==
  /\ c \notin DOMAIN panelInvites
  /\ a \notin DOMAIN panel
  /\ panelInvites' = With(panelInvites, c, [username |-> a, opening |-> opening,
                                            expires |-> now + INVITE_TTL_SECS,
                                            redeemed |-> FALSE])

\* BrokerState::create_invite, PanelState::open_account.  If auth refuses the
\* code the panel's invitation is taken back, and nothing has changed.
Invite(c, a, opening, now) ==
  /\ AdminOk(now)
  /\ PanelInvites(c, a, opening, now)
  /\ CreateInvite(c, now)
  /\ UNCHANGED <<panel, credited, adminVars>>

\* AccountStore::redeem_invite opens the account with the device it came from.
PanelRedeems(c, h) ==
  LET a == panelInvites[c].username
  IN /\ panelInvites' = [panelInvites EXCEPT ![c].redeemed = TRUE]
     /\ panel' = With(panel, a, [balance |-> panelInvites[c].opening,
                                 devices |-> {h}, suspended |-> FALSE])

\* Mutant: the panel's half is forgotten.
RedeemInAuthOnly(c, h, now) ==
  /\ c \in DOMAIN panelInvites
  /\ ~panelInvites[c].redeemed
  /\ now <= panelInvites[c].expires
  /\ RedeemInvite(c, panelInvites[c].username, h, now)
  /\ UNCHANGED <<panelVars, adminVars>>

\* Mutant: the opening balance is booked before the stores are asked.
RedeemBooksFirst(c, h, now) ==
  /\ c \in DOMAIN panelInvites
  /\ ~panelInvites[c].redeemed
  /\ now <= panelInvites[c].expires
  /\ LET a == panelInvites[c].username
         opening == panelInvites[c].opening
     IN /\ credited' = [credited EXCEPT ![a] = @ + opening]
        /\ IF a \in DOMAIN panel THEN UNCHANGED <<authVars, panelInvites, panel>>
           ELSE RedeemInvite(c, a, h, now) /\ PanelRedeems(c, h)
  /\ UNCHANGED adminVars

\* BrokerState::redeem.  The auth half comes first; the panel may refuse
\* after it (AccountStore::redeem_invite), and then nothing is booked.  The
\* auth invitation is there: StoresAgree.
Redeem(c, h, now) ==
  /\ c \in DOMAIN panelInvites
  /\ ~panelInvites[c].redeemed
  /\ now <= panelInvites[c].expires
  /\ LET a == panelInvites[c].username
         opening == panelInvites[c].opening
     IN /\ RedeemInvite(c, a, h, now)
        /\ IF a \in DOMAIN panel THEN UNCHANGED panelVars
           ELSE /\ PanelRedeems(c, h)
                /\ credited' = [credited EXCEPT ![a] = @ + opening]
  /\ UNCHANGED adminVars

\* AccountStore::bind_device takes device h for a, or has it already.
PanelBinds(a, h) ==
  /\ a \in DOMAIN panel
  /\ ~panel[a].suspended
  /\ h \in panel[a].devices \/ Cardinality(panel[a].devices) < DEFAULT_SLOTS

\* BrokerState::login: auth decides, the panel follows as well as it can.
Login(a, h, now) ==
  /\ LoginOk(a, h, now)
  /\ panel' = IF PanelBinds(a, h)
              THEN [panel EXCEPT ![a].devices = @ \cup {h}] ELSE panel
  /\ UNCHANGED <<panelInvites, credited, adminVars>>

\* A login or refresh that auth refuses, or a refresh: the panel is not told.
AuthOnly ==
  /\ \/ \E a \in Accounts, now \in Now :
          \/ \E h \in Hwids : LoginNoSlot(a, h, now)
          \/ LoginWrongPassword(a, now)
     \/ RefreshNext
     \/ Tick
  /\ UNCHANGED <<panelVars, adminVars>>

\* PanelState::reset_hwid
PanelResets(a) ==
  /\ a \in DOMAIN panel
  /\ panel' = [panel EXCEPT ![a].devices = {}]

\* PanelState::suspend
PanelSuspends(a, stop) ==
  /\ a \in DOMAIN panel
  /\ panel' = [panel EXCEPT ![a].suspended = stop]

\* Mutant: the devices are unbound in the panel only.
ResetDevicesInPanel(a, now) ==
  /\ AdminOk(now)
  /\ PanelResets(a)
  /\ UNCHANGED <<authVars, panelInvites, credited, adminVars>>

\* BrokerState::hwid_reset: the panel first; that auth does not know the
\* account is only reported.
ResetDevices(a, now) ==
  /\ AdminOk(now)
  /\ PanelResets(a)
  /\ IF a \in registered THEN ResetHwid(a) ELSE UNCHANGED authVars
  /\ UNCHANGED <<panelInvites, credited, adminVars>>

\* BrokerState::suspend: the panel first; the answer of auth is ignored.
Stop(a, now) ==
  /\ AdminOk(now)
  /\ PanelSuspends(a, TRUE)
  /\ IF a \in registered THEN Suspend(a) ELSE UNCHANGED authVars
  /\ UNCHANGED <<panelInvites, credited, adminVars>>

Resume(a, now) ==
  /\ AdminOk(now)
  /\ PanelSuspends(a, FALSE)
  /\ IF a \in registered THEN Unsuspend(a) ELSE UNCHANGED authVars
  /\ UNCHANGED <<panelInvites, credited, adminVars>>

-----------------------------------------------------------------------------

MembersInit ==
  /\ Init
  /\ panelInvites = [c \in {} |-> 0]
  /\ panel = [a \in {} |-> 0]
  /\ credited = [a \in Accounts |-> 0]
  /\ adminHash = FALSE
  /\ adminFailed = 0
  /\ adminLocked = 0
  /\ adminTokens = {}
  /\ adminGuesses = << >>

MembersNext ==
  \/ AdminSetup
  \/ Restart
  \/ AuthOnly
  \/ \E now \in Now : AdminLogin(now) \/ AdminWrong(now)
  \/ \E c \in Codes, a \in Accounts, opening \in Openings, now \in Now :
       Invite(c, a, opening, now)
  \/ \E c \in Codes, h \in Hwids, now \in Now : Redeem(c, h, now)
  \/ \E a \in Accounts, now \in Now :
       \/ \E h \in Hwids : Login(a, h, now)
       \/ ResetDevices(a, now)
       \/ Stop(a, now)
       \/ Resume(a, now)

MembersSpec == MembersInit /\ [][MembersNext]_membersVars

-----------------------------------------------------------------------------
(* Properties.                                                             *)

\* The variables have their types.
MembersTypeOK ==
  /\ TypeOK
  /\ DOMAIN panelInvites \subseteq Codes
  /\ \A c \in DOMAIN panelInvites : panelInvites[c] \in PanelInvite
  /\ DOMAIN panel \subseteq Accounts
  /\ \A a \in DOMAIN panel : panel[a] \in PanelAccount
  /\ credited \in [Accounts -> Nat]
  /\ adminHash \in BOOLEAN
  /\ adminFailed \in 0..(MAX_FAILED - 1)
  /\ adminLocked \in Nat
  /\ adminTokens \subseteq Nat
  /\ adminGuesses \in Seq(Nat)

(***************************************************************************)
(* The two stores of members never come apart, although every handler      *)
(* writes them one after the other, checks each of them for itself and     *)
(* ignores some of their errors: they have the same invitations in the     *)
(* same state, the same accounts, and per account the same devices and the *)
(* same suspension (redeem, login, hwid_reset and suspend in state.rs).    *)
(***************************************************************************)
InvitesAgree ==
  /\ DOMAIN panelInvites = DOMAIN invites
  /\ \A c \in DOMAIN invites :
       /\ panelInvites[c].expires = invites[c] + INVITE_TTL_SECS
       /\ panelInvites[c].redeemed <=> c \in used

AccountsAgree ==
  /\ DOMAIN panel = registered
  /\ \A a \in registered : /\ panel[a].devices = slots[a]
                           /\ panel[a].suspended <=> a \in suspended

StoresAgree == InvitesAgree /\ AccountsAgree

(***************************************************************************)
(* An opening balance is credited once, in the panel and the ledger alike: *)
(* an account was opened by exactly one invitation, whatever other ones    *)
(* were made out to the same name, and has what that one promised          *)
(* (redeem, open_account).                                                 *)
(***************************************************************************)
OpenedBy(a, c) == panelInvites[c].redeemed /\ panelInvites[c].username = a

OpeningOnce ==
  \A a \in Accounts :
    IF a \in DOMAIN panel
    THEN \E c \in DOMAIN panelInvites :
           /\ \A d \in DOMAIN panelInvites : OpenedBy(a, d) <=> d = c
           /\ panelInvites[c].opening = panel[a].balance
           /\ credited[a] = panel[a].balance
    ELSE credited[a] = 0

(***************************************************************************)
(* The panel shows every session: an access token that is accepted or a    *)
(* refresh token that is live belongs to an account the panel lists as     *)
(* running, on a device it lists as bound.                                 *)
(***************************************************************************)
PanelShowsEverySession ==
  \A i \in DOMAIN issued :
    (Live(i) \/ \E h \in Hwids, now \in Now : AccessAccepted(i, h, now)) =>
      /\ issued[i].account \in DOMAIN panel
      /\ issued[i].hwid \in panel[issued[i].account].devices
      /\ ~panel[issued[i].account].suspended

(***************************************************************************)
(* Guessing the admin's password is slow: among any MAX_FAILED + 1 wrong   *)
(* ones with no right one in between, the first and the last are a lock    *)
(* apart, give or take the age of the time a handler read.                 *)
(***************************************************************************)
AdminGuessingIsSlow ==
  Len(adminGuesses) = MAX_FAILED + 1 =>
    adminGuesses[MAX_FAILED + 1] - adminGuesses[1] >= LOCK_SECS - MaxLag
=============================================================================
