---------------------------- MODULE ClientSession ----------------------------
(***************************************************************************)
(* The session a shell stores (crates/tauri-shell: session.rs, the member  *)
(* commands of commands.rs, net.rs) against the server side, AuthStore.    *)
(*                                                                         *)
(* A command runs on the main thread of its process, so a shell waits for  *)
(* one call at a time; the request of a call it gave up may still reach    *)
(* the server.  Several shells may run on one PC (nothing prevents a       *)
(* second process) and share its session.json.  A pair of tokens is its    *)
(* number in AuthStore's `issued', 0 is none.  The member knows the        *)
(* password.                                                               *)
(***************************************************************************)
EXTENDS AuthStore

CONSTANTS Shells,     \* processes of the shell
          PcOf,       \* the PC each runs on
          Member,     \* the account that uses them
          MaxCalls,   \* bound: calls to the broker
          MaxStops    \* bound: ends of a process

ASSUME ClientAssumption ==
  /\ PcOf \in [Shells -> Hwids]
  /\ Member \in Accounts
  /\ {MaxCalls, MaxStops} \subseteq Nat

VARIABLES running,  \* the shells that run
          mem,      \* UserSession of each shell
          file,     \* session.json of each PC
          call,     \* call[n]: the n-th call to the broker, while it lives
          count,    \* calls made and ends of a process so far
          strained, \* history: logins with a refresh given up, a pair not
                    \* saved, or two shells that share them
          left      \* history: logins a PC was logged out of

clientVars == <<running, mem, file, left>>
vars == <<authVars, clientVars, call, count, strained>>

\* at: the request is under way and awaited ("sent") or not ("abandoned"),
\* or the answer is under way ("answered").
Call == [at : {"sent", "abandoned", "answered"}, from : Shells,
         cmd : {"redeem", "login", "refresh"}, tok : Nat, pair : Nat]
NoCall == [at |-> "none"]

Slots == 1..MaxCalls

\* The calls a shell waits for.
Awaited == {n \in Slots : call[n].at \in {"sent", "answered"}}
Mine(s) == {n \in Awaited : call[n].from = s}

Free(s) == s \in running /\ Mine(s) = {}

LoginOf(i) == issued[i].root

LoginsOf(S) == {LoginOf(i) : i \in S \ {0}}

-----------------------------------------------------------------------------
(* The commands of the window.  The form for a login is shown only while    *)
(* none is stored.                                                          *)

Send(s, cmd, tok) ==
  /\ Free(s) /\ count.calls < MaxCalls
  /\ count' = [count EXCEPT !.calls = @ + 1]
  /\ call' = [call EXCEPT ![count'.calls] =
                [at |-> "sent", from |-> s, cmd |-> cmd, tok |-> tok, pair |-> 0]]
  /\ UNCHANGED <<authVars, clientVars, strained>>

UserRedeem(s) == mem[s] = 0 /\ Send(s, "redeem", 0)
UserLogin(s) == mem[s] = 0 /\ Send(s, "login", 0)

\* Mutant: an empty token is sent.
UserRefreshAnyone(s) == Send(s, "refresh", mem[s])

UserRefresh(s) == mem[s] # 0 /\ Send(s, "refresh", mem[s])

\* UserSession::set_pair and clear.
SetPair(s, pair) == mem' = [mem EXCEPT ![s] = pair]
Clear(s) == mem' = [mem EXCEPT ![s] = 0]

\* persist, save_to_file: written, not written, or a torn file.
Persist(s, pair) ==
  \/ /\ file' = [file EXCEPT ![PcOf[s]] = pair]
     /\ UNCHANGED strained
  \/ /\ file' = [file EXCEPT ![PcOf[s]] = 0]
     /\ UNCHANGED strained
  \/ /\ strained' = strained \cup {LoginOf(pair)}
     /\ UNCHANGED file

\* Mutant: only the pair of a login is written.
TakesPairOnce(n) ==
  LET s == call[n].from
  IN  /\ call[n].at = "answered" /\ call[n].pair # 0
      /\ call' = [call EXCEPT ![n] = NoCall]
      /\ SetPair(s, call[n].pair)
      /\ file' = [file EXCEPT ![PcOf[s]] =
                    IF call[n].cmd = "refresh" THEN @ ELSE call[n].pair]
      /\ UNCHANGED <<authVars, running, left, count, strained>>

\* Mutant: the pair is written and the one in memory kept.
TakesPairToDisk(n) ==
  LET s == call[n].from
  IN  /\ call[n].at = "answered" /\ call[n].pair # 0
      /\ call' = [call EXCEPT ![n] = NoCall]
      /\ mem' = [mem EXCEPT ![s] = IF @ = 0 THEN call[n].pair ELSE @]
      /\ file' = [file EXCEPT ![PcOf[s]] = call[n].pair]
      /\ UNCHANGED <<authVars, running, left, count, strained>>

\* The pair is kept in memory and on the disk.
TakesPair(n) ==
  LET s == call[n].from
  IN  /\ call[n].at = "answered" /\ call[n].pair # 0
      /\ call' = [call EXCEPT ![n] = NoCall]
      /\ SetPair(s, call[n].pair)
      /\ Persist(s, call[n].pair)
      /\ UNCHANGED <<authVars, running, left, count>>

\* The command returns an error; what is stored stays.
TakesRefusal(n) ==
  /\ call[n].at = "answered" /\ call[n].pair = 0
  /\ call' = [call EXCEPT ![n] = NoCall]
  /\ UNCHANGED <<authVars, clientVars, count, strained>>

\* The logins whose refresh is under way in the calls S.
Risked(S) == {LoginOf(call[n].tok) : n \in {m \in S : call[m].cmd = "refresh"}}

Abandoned(S) ==
  [n \in Slots |->
     IF n \notin S THEN call[n]
     ELSE IF call[n].at = "sent" THEN [call[n] EXCEPT !.at = "abandoned"]
     ELSE NoCall]

\* API_TIMEOUT has passed, or the answer could not be read.
GivesUp(n) ==
  /\ n \in Awaited
  /\ call' = Abandoned({n})
  /\ strained' = strained \cup Risked({n})
  /\ UNCHANGED <<authVars, clientVars, count>>

\* Mutant: the file is kept.
LogoutMemory(s) ==
  /\ Free(s) /\ mem[s] # 0
  /\ Clear(s)
  /\ left' = left \cup {<<PcOf[s], LoginOf(mem[s])>>}
  /\ UNCHANGED <<authVars, running, file, call, count, strained>>

\* The result of remove_file is ignored: the file may stay.
UserLogout(s) ==
  /\ Free(s) /\ mem[s] # 0
  /\ Clear(s)
  /\ \/ /\ file' = [file EXCEPT ![PcOf[s]] = 0]
        /\ left' = left \cup {<<PcOf[s], LoginOf(mem[s])>>}
     \/ UNCHANGED <<file, left>>
  /\ UNCHANGED <<authVars, running, call, count, strained>>

-----------------------------------------------------------------------------
(* The process.                                                             *)

\* restore_session.
Start(s) ==
  /\ s \notin running
  /\ running' = running \cup {s}
  /\ mem' = [mem EXCEPT ![s] = file[PcOf[s]]]
  /\ strained' = strained \cup (LoginsOf({file[PcOf[s]]})
                                  \cap LoginsOf({mem[t] : t \in running}))
  /\ UNCHANGED <<authVars, file, left, call, count>>

\* The process ends, by its user or not, perhaps in the middle of a call.
ProcessEnds(s) ==
  /\ s \in running /\ count.stops < MaxStops
  /\ count' = [count EXCEPT !.stops = @ + 1]
  /\ running' = running \ {s}
  /\ mem' = [mem EXCEPT ![s] = 0]
  /\ call' = Abandoned(Mine(s))
  /\ strained' = strained \cup Risked(Mine(s))
  /\ UNCHANGED <<authVars, file, left>>

-----------------------------------------------------------------------------
(* The broker handles a request, awaited or not; pair 0 is a refusal.       *)

Handled(n, pair) ==
  /\ call' = [call EXCEPT ![n] =
                IF @.at = "sent" THEN [@ EXCEPT !.at = "answered", !.pair = pair]
                ELSE NoCall]
  /\ UNCHANGED <<clientVars, count, strained>>

\* What the command asks for is done, a new pair is issued.
Granted(n, now) ==
  LET pc == PcOf[call[n].from]
  IN  \/ /\ call[n].cmd = "redeem"
         /\ \E c \in Codes : RedeemInvite(c, Member, pc, now)
      \/ call[n].cmd = "login" /\ LoginOk(Member, pc, now)
      \/ call[n].cmd = "refresh" /\ RefreshOk(call[n].tok, now)

\* A code may be mistyped.  A refresh is refused as a reuse, because its
\* record is gone, or because it is too old.
Refused(n, now) ==
  LET pc == PcOf[call[n].from]
      tok == call[n].tok
  IN  \/ call[n].cmd = "redeem" /\ UNCHANGED authVars
      \/ call[n].cmd = "login" /\ LoginNoSlot(Member, pc, now)
      \/ /\ call[n].cmd = "login" /\ ~PasswordChecked(Member, now)
         /\ UNCHANGED authVars
      \/ call[n].cmd = "refresh" /\ RefreshReuse(tok, pc)
      \/ /\ call[n].cmd = "refresh"
         /\ ~Live(tok) \/ (~Suspicious(tok, pc) /\ RefreshExpired(tok, now))
         /\ UNCHANGED authVars

BrokerAnswers(n) ==
  /\ call[n].at \in {"sent", "abandoned"}
  /\ \E now \in Now :
       \/ Granted(n, now) /\ Handled(n, Len(issued) + 1)
       \/ Refused(n, now) /\ Handled(n, 0)

\* The request does not arrive; a shell that waits is told so.
RequestLost(n) ==
  /\ call[n].at \in {"sent", "abandoned"}
  /\ call' = [call EXCEPT ![n] = NoCall]
  /\ UNCHANGED <<authVars, clientVars, count, strained>>

\* Invitations, the admin and the time go on meanwhile.
BrokerElse ==
  /\ \/ \E c \in Codes, now \in Now : CreateInvite(c, now)
     \/ AdminNext
     \/ Tick
  /\ UNCHANGED <<clientVars, call, count, strained>>

-----------------------------------------------------------------------------
ClientInit ==
  /\ Init
  /\ running = {}
  /\ mem = [s \in Shells |-> 0]
  /\ file = [h \in Hwids |-> 0]
  /\ call = [n \in Slots |-> NoCall]
  /\ count = [calls |-> 0, stops |-> 0]
  /\ strained = {}
  /\ left = {}

ClientNext ==
  \/ \E s \in Shells :
       UserRedeem(s) \/ UserLogin(s) \/ UserRefresh(s) \/ UserLogout(s)
         \/ Start(s) \/ ProcessEnds(s)
  \/ \E n \in Slots :
       TakesPair(n) \/ TakesRefusal(n) \/ GivesUp(n)
         \/ BrokerAnswers(n) \/ RequestLost(n)
  \/ BrokerElse

ClientSpec == ClientInit /\ [][ClientNext]_vars

-----------------------------------------------------------------------------
\* Type correctness of what the shells and their PCs keep.
ClientTypeOK ==
  /\ running \subseteq Shells
  /\ mem \in [Shells -> 0..Len(issued)]
  /\ \A s \in Shells \ running : mem[s] = 0
  /\ file \in [Hwids -> 0..Len(issued)]
  /\ call \in [Slots -> Call \cup {NoCall}]
  /\ \A n \in Slots :
       call[n] # NoCall =>
         /\ {call[n].tok, call[n].pair} \subseteq 0..Len(issued)
         /\ call[n].cmd = "refresh" <=> call[n].tok # 0
  /\ count \in [calls : 0..MaxCalls, stops : 0..MaxStops]
  /\ strained \subseteq DOMAIN issued
  /\ left \subseteq Hwids \X DOMAIN issued

(***************************************************************************)
(* A member who uses only the shell is not taken for a thief: the broker   *)
(* meets a second use of a refresh token only after a refresh was given    *)
(* up, a pair could not be saved or two processes shared one session       *)
(* (client/src/auth.rs on the pair: the old one is forgotten at once,      *)
(* since its repetition ends all sessions).                                *)
(***************************************************************************)
BurnedOnlyAfterStrain == burned \subseteq strained

(***************************************************************************)
(* Whatever a shell holds or would find at its next start is the           *)
(* exchangeable pair of its login, unless a call with it is under way, the *)
(* login is strained or the broker has ended it (session.rs: the stored    *)
(* pair is silently renewed at start).                                     *)
(***************************************************************************)
UnderWay(i) == \E n \in Awaited : call[n].tok = i

Held == ({mem[s] : s \in Shells} \cup {file[h] : h \in Hwids}) \ {0}

HeldPairsExchange ==
  \A i \in Held :
    Live(i) /\ LoginOf(i) \notin strained /\ ~UnderWay(i) => i \notin rotated

(***************************************************************************)
(* A logout is final: no late answer, restart or other login of the PC     *)
(* brings that login back to its memory or its disk (commands.rs: the pair *)
(* is deleted from both).                                                  *)
(***************************************************************************)
LogoutIsFinal ==
  \A e \in left :
    e[2] \notin strained =>
      e[2] \notin LoginsOf({file[e[1]]} \cup {mem[s] : s \in {t \in Shells : PcOf[t] = e[1]}})
=============================================================================
