---------------------------- MODULE BrokerProofs ----------------------------
(***************************************************************************)
(* TLAPS proofs about the broker of Broker.tla, for every set of members,  *)
(* requests, recordings and connections, every price and every bound.      *)
(***************************************************************************)
EXTENDS Broker, Sums, TLAPS

\* Where a connection can be.
Pcs == {"new", "arrived", "working", "answered", "replied", "done", "unsaved", "dead"}

\* What a client can have been told.
Replies == {None, "ok", "text", "cached", "empty", "refused"}

\* A connection.
ConnRec == [pc : Pcs, op : Ops \cup {NoOp}, now : Nat, reply : Replies]

\* The snapshot is well typed.
DiskOK ==
  /\ disk.registered \subseteq Accounts
  /\ disk.generation \in [Accounts -> Nat]
  /\ disk.suspended \subseteq disk.registered
  /\ disk.panelBalance \in [Accounts -> Int]
  /\ disk.spent \in Nat
  /\ disk.applied \subseteq Conns

\* Types of all that a step reads.
TypeInv == TypeOK /\ DiskOK /\ clock \in Nat /\ restarts \in Nat

\* Who has the mutex is at work on a transcription, and nobody else is.
LockInv ==
  \A c \in Conns :
    /\ conn[c].pc = "working" <=> lock = c
    /\ lock = c => conn[c].op.kind = "transcribe"
    /\ conn[c].pc # "new" => conn[c].op \in Ops

\* Who is at work came with a token that is still accepted.
TokenInv == \A c \in Conns : lock = c => Accepted(conn[c].op)

\* What a connection at work holds for request r of account a.
HeldBy(c, a, r) ==
  IF conn[c].pc = "working" /\ conn[c].op.account = a /\ conn[c].op.request = r
  THEN Cost[conn[c].op.audio] ELSE 0

\* What connection c has on hold for a.
OnHoldBy(c, a) ==
  IF conn[c].pc = "working" /\ conn[c].op.account = a
  THEN Cost[conn[c].op.audio] ELSE 0

\* The book holds what the connection at work blocked, and nothing else.
HoldInv ==
  /\ \A c \in Conns : lock = c =>
       \A a \in Accounts :
         /\ onHold[a] = OnHoldBy(c, a)
         /\ \A r \in Requests : held[a][r] = HeldBy(c, a, r)
  /\ NothingHeldBetweenHandlers

\* Until a restart the panel counts what is on hold as still there, and who
\* has no account has no money.
FreshInv ==
  restarts = 0 =>
    \A a \in Accounts :
      IF a \in registered THEN panelBalance[a] = balance[a] + onHold[a]
      ELSE balance[a] = 0 /\ onHold[a] = 0

\* The times connections read, and what the fees of this run of the process
\* say of the cache: a key with a fee is cached since then or later, or was
\* dropped a lifetime after the fee; and whoever is at work on the key read
\* a time that is late enough to be charged again.
WaitInv ==
  \A c \in Conns :
    /\ conn[c].now <= clock
    /\ conn[c].pc = "arrived" => clock - conn[c].now <= MaxLag

\* A charge of this process is not newer than the cached result of its key;
\* when no result is cached, the charge is as old as a result may get, and
\* who is at work on the same key read its time no earlier than that, less
\* the lag.
FeeInv ==
  \A x \in charges :
    /\ x.at \in Nat /\ x.at <= clock
    /\ x.boot \in Nat /\ x.boot <= restarts
    /\ x.boot = restarts /\ ResultTTL >= MaxLag =>
         /\ x.key \in DOMAIN cache => cache[x.key] >= x.at
         /\ x.key \notin DOMAIN cache => clock >= x.at + ResultTTL
         /\ \A c \in Conns : lock = c /\ KeyOf(conn[c].op) = x.key =>
              conn[c].now >= x.at + ResultTTL - MaxLag

\* What the proof of PaidOncePerText rests on.
ChargeInv == WaitInv /\ FeeInv /\ PaidOncePerText

\* There is an answer after the handler only, and "text" goes with a fee.
AnswerInv ==
  \A c \in Conns :
    /\ conn[c].pc \in {"new", "arrived", "working"} => conn[c].reply = None
    /\ conn[c].reply = "text" <=> \E x \in charges : x.by = c

\* What a connection changed is in memory until its thread has saved it.
DurableInv ==
  \A c \in Conns : conn[c].reply \in {"ok", "text"} =>
    /\ conn[c].pc \in {"answered", "replied", "done"} => c \in applied
    /\ conn[c].pc = "done" => c \in disk.applied

\* The panel's own arithmetic is exact as long as no deduction meets a ledger
\* that a restart has emptied: that one pays in the panel and is refused.
NoDeductionAfterRestart == restarts = 0 \/ \A op \in Ops : op.kind # "deduct"

\* The panel in memory and the panel on disk are each the sum of the effects
\* that are applied there; a connection is applied after its handler only, so
\* that what it asked for is fixed; and who has no account has no money.
SurvivalInv ==
  /\ IsFiniteSet(applied) /\ IsFiniteSet(disk.applied)
  /\ \A c \in Conns : conn[c].pc = "working" => conn[c].op.account \in registered
  /\ \A c \in applied \cup disk.applied : conn[c].pc \notin {"new", "arrived", "working"}
  /\ \A a \in Accounts \ registered : panelBalance[a] = 0
  /\ \A a \in Accounts \ disk.registered : disk.panelBalance[a] = 0
  /\ NoDeductionAfterRestart =>
       \A a \in Accounts : /\ panelBalance[a] = Booked(applied, a)
                           /\ disk.panelBalance[a] = Booked(disk.applied, a)

-----------------------------------------------------------------------------
(* Operations and connections.                                             *)

(***************************************************************************)
(* What the records in Ops look like, by their kind.                       *)
(***************************************************************************)
LEMMA OpShape ==
  ASSUME NEW op \in Ops
  PROVE  /\ op.account \in Accounts
         /\ op.kind \in {"redeem", "topup", "deduct"} =>
              op.amount \in Amounts /\ op.amount \in Nat
         /\ op.kind = "transcribe" =>
              /\ op.request \in Requests
              /\ op.audio \in Audios
              /\ Cost[op.audio] \in Amounts /\ Cost[op.audio] \in Nat \ {0}
              /\ op = [kind |-> "transcribe", account |-> op.account,
                       request |-> op.request, audio |-> op.audio, gen |-> op.gen]
<1>1. op \in Op
  BY BrokerAssumption
<1>2. CASE op \in [kind : {"redeem", "topup", "deduct"}, account : Accounts, amount : Amounts]
  BY <1>2, AmountsAssumption
<1>3. CASE op \in [kind : {"login", "suspend", "unsuspend"}, account : Accounts]
  BY <1>3
<1>4. CASE op \in [kind : {"transcribe"}, account : Accounts, request : Requests,
                   audio : Audios, gen : Nat]
  BY <1>4, BrokerAssumption, AmountsAssumption
<1> QED
  BY <1>1, <1>2, <1>3, <1>4 DEF Op

(***************************************************************************)
(* A step of one connection moves its place and its reply, and leaves its  *)
(* request, its time and the other connections alone.                      *)
(***************************************************************************)
LEMMA ConnMoves ==
  ASSUME conn \in [Conns -> ConnRec], NEW c \in Conns,
         NEW p \in Pcs, NEW r \in Replies,
         \/ conn' = [conn EXCEPT ![c].pc = p, ![c].reply = r]
         \/ r = conn[c].reply /\ conn' = [conn EXCEPT ![c].pc = p]
  PROVE  /\ conn' \in [Conns -> ConnRec]
         /\ conn'[c].pc = p /\ conn'[c].reply = r
         /\ conn'[c].op = conn[c].op /\ conn'[c].now = conn[c].now
         /\ \A d \in Conns \ {c} : conn'[d] = conn[d]
<1>1. conn[c] \in ConnRec
  OBVIOUS
<1>2. conn' = [conn EXCEPT ![c] = [pc |-> p, op |-> conn[c].op,
                                   now |-> conn[c].now, reply |-> r]]
  BY <1>1 DEF ConnRec
<1>3. [pc |-> p, op |-> conn[c].op, now |-> conn[c].now, reply |-> r] \in ConnRec
  BY <1>1 DEF ConnRec
<1> QED
  BY <1>2, <1>3

(***************************************************************************)
(* Every operation of the account book keeps it well typed.                *)
(***************************************************************************)
LEMMA BookStaysTyped ==
  ASSUME BookTypeOK, NEW a \in Accounts, NEW x \in Nat,
         \/ Fund(a, x) \/ Withdraw(a, x) \/ NewBook \/ UNCHANGED bookVars
         \/ \E r \in Requests : Hold(a, r, x) \/ Charge(a, r, x) \/ Return(a, r, x)
  PROVE  BookTypeOK'
<1>1. CASE Fund(a, x)
  BY <1>1 DEF BookTypeOK, Fund
<1>2. CASE Withdraw(a, x)
  BY <1>2 DEF BookTypeOK, Withdraw
<1>3. CASE NewBook
  BY <1>3 DEF BookTypeOK, NewBook
<1>4. CASE UNCHANGED bookVars
  BY <1>4 DEF BookTypeOK, bookVars
<1>5. ASSUME NEW r \in Requests, Hold(a, r, x) PROVE BookTypeOK'
  BY <1>5 DEF BookTypeOK, Hold
<1>6. ASSUME NEW r \in Requests, Charge(a, r, x) PROVE BookTypeOK'
  BY <1>6 DEF BookTypeOK, Charge
<1>7. ASSUME NEW r \in Requests, Return(a, r, x) PROVE BookTypeOK'
  BY <1>7 DEF BookTypeOK, Return
<1> QED
  BY <1>1, <1>2, <1>3, <1>4, <1>5, <1>6, <1>7

-----------------------------------------------------------------------------
(* Types.                                                                  *)

(***************************************************************************)
(* The broker starts well typed.                                           *)
(***************************************************************************)
LEMMA InitTypeInv == Init => TypeInv
<1> SUFFICES ASSUME Init PROVE TypeInv
  OBVIOUS
<1>1. BookTypeOK
  BY DEF Init, BookInit, BookTypeOK
<1>2. NewConn \in ConnRec
  BY DEF NewConn, ConnRec, Pcs, Replies
<1>3. conn \in [Conns -> ConnRec]
  BY <1>2 DEF Init
<1> QED
  BY <1>1, <1>3, BrokerAssumption DEF Init, TypeInv, TypeOK, DiskOK, Memory,
     ConnRec, Pcs, Replies

(***************************************************************************)
(* The handlers move their own connection only: to an answer, or, when a   *)
(* transcription starts, to work.                                          *)
(***************************************************************************)
LEMMA HandlerMovesConn ==
  ASSUME TypeInv, NEW c \in Conns, Handler(c)
  PROVE  /\ conn' \in [Conns -> ConnRec]
         /\ conn[c].pc \in {"arrived", "working"}
         /\ \/ conn'[c].pc = "answered"
            \/ conn'[c].pc = "working" /\ conn'[c].reply = conn[c].reply
         /\ conn'[c].op = conn[c].op /\ conn'[c].now = conn[c].now
         /\ \A d \in Conns \ {c} : conn'[d] = conn[d]
<1>0. conn \in [Conns -> ConnRec]
  BY DEF TypeInv, TypeOK, ConnRec, Pcs, Replies
<1>1. conn[c].reply \in Replies
  BY <1>0 DEF ConnRec
<1>2. /\ conn[c].pc \in {"arrived", "working"}
      /\ \/ \E r \in Replies : Answer(c, r)
         \/ conn' = [conn EXCEPT ![c].pc = "working"]
  BY DEF Handler, Redeem, Login, Topup, Deduct, Suspend, Unsuspend, TranscribeStart,
     TranscribeText, TranscribeEmpty, Starts, Done, Refuse, Replies
<1>3. CASE \E r \in Replies : Answer(c, r)
  <2> PICK r \in Replies : Answer(c, r)
    BY <1>3
  <2> QED
    BY <1>0, <1>2, ConnMoves DEF Answer, Pcs
<1>4. CASE conn' = [conn EXCEPT ![c].pc = "working"]
  BY <1>0, <1>1, <1>2, <1>4, ConnMoves DEF Pcs
<1> QED
  BY <1>2, <1>3, <1>4

(***************************************************************************)
(* Every handler keeps the broker well typed.                              *)
(***************************************************************************)
LEMMA HandlerKeepsTypes ==
  ASSUME TypeInv, LockInv, NEW c \in Conns, Handler(c)
  PROVE  TypeInv'
<1> DEFINE op == conn[c].op
           Moves == /\ registered' \subseteq Accounts
                    /\ suspended' \subseteq registered'
                    /\ generation' \in [Accounts -> Nat]
                    /\ panelBalance' \in [Accounts -> Int]
                    /\ spent' \in Nat
                    /\ DOMAIN cache' \subseteq Key
                    /\ \A k \in DOMAIN cache' : cache'[k] \in Nat
                    /\ lock' \in Conns \cup {Free}
                    /\ applied' \subseteq Conns
<1>0. conn[c].pc \in {"arrived", "working"} /\ conn' \in [Conns -> ConnRec]
  BY HandlerMovesConn
<1>a. op \in Ops /\ op.account \in Accounts /\ conn[c].now \in Nat
  BY <1>0, OpShape DEF LockInv, TypeInv, TypeOK
<1>b. UNCHANGED <<clock, disk, restarts>>
  BY DEF Handler, Redeem, Login, Topup, Deduct, Suspend, Unsuspend, TranscribeStart,
     TranscribeText, TranscribeEmpty, HandlerFrame
<1>c. /\ BookTypeOK
      /\ registered \subseteq Accounts
      /\ suspended \subseteq registered
      /\ generation \in [Accounts -> Nat]
      /\ panelBalance \in [Accounts -> Int]
      /\ spent \in Nat
      /\ DOMAIN cache \subseteq Key
      /\ \A k \in DOMAIN cache : cache[k] \in Nat
      /\ lock \in Conns \cup {Free}
      /\ applied \subseteq Conns
  BY DEF TypeInv, TypeOK
<1>d. ASSUME BookTypeOK', Moves PROVE TypeInv'
  BY <1>0, <1>b, <1>d DEF TypeInv, TypeOK, DiskOK, ConnRec, Pcs, Replies
<1>e. UNCHANGED bookVars => BookTypeOK'
  BY <1>a, <1>c, BookStaysTyped
<1>1. CASE Redeem(c)
  <2>1. op.amount \in Nat
    BY <1>1, <1>a, OpShape DEF Redeem, Starts
  <2>2. BookTypeOK'
    BY <1>1, <1>a, <1>c, <1>e, <2>1, BookStaysTyped DEF Redeem, Refuse
  <2>3. Moves
    BY <1>1, <1>a, <1>c, <2>1 DEF Redeem, Refuse, Done, authVars, panelVars
  <2> QED
    BY <1>d, <2>2, <2>3
<1>2. CASE Login(c)
  <2>1. Moves
    BY <1>2, <1>a, <1>c DEF Login, Refuse, Done, authVars, panelVars
  <2> QED
    BY <1>2, <1>d, <1>e, <2>1 DEF Login, Refuse
<1>3. CASE Topup(c)
  <2>1. op.amount \in Nat
    BY <1>3, <1>a, OpShape DEF Topup, Starts
  <2>2. BookTypeOK'
    BY <1>3, <1>a, <1>c, <1>e, <2>1, BookStaysTyped DEF Topup, Refuse
  <2>3. Moves
    BY <1>3, <1>a, <1>c, <2>1 DEF Topup, Refuse, Done, authVars, panelVars
  <2> QED
    BY <1>d, <2>2, <2>3
<1>4. CASE Deduct(c)
  <2>1. op.amount \in Nat
    BY <1>4, <1>a, OpShape DEF Deduct, Starts
  <2>2. BookTypeOK'
    BY <1>4, <1>a, <1>c, <1>e, <2>1, BookStaysTyped DEF Deduct, Refuse
  <2>3. Moves
    BY <1>4, <1>a, <1>c, <2>1 DEF Deduct, Refuse, Done, authVars, panelVars
  <2> QED
    BY <1>d, <2>2, <2>3
<1>5. CASE Suspend(c)
  <2>1. Moves
    BY <1>5, <1>a, <1>c DEF Suspend, Refuse, Done, authVars, panelVars
  <2> QED
    BY <1>5, <1>d, <1>e, <2>1 DEF Suspend, Refuse
<1>6. CASE Unsuspend(c)
  <2>1. Moves
    BY <1>6, <1>a, <1>c DEF Unsuspend, Refuse, Done, authVars, panelVars
  <2> QED
    BY <1>6, <1>d, <1>e, <2>1 DEF Unsuspend, Refuse
<1>7. CASE TranscribeStart(c)
  <2>1. op.request \in Requests /\ Cost[op.audio] \in Nat
    BY <1>7, <1>a, OpShape DEF TranscribeStart, Starts
  <2>2. \/ UNCHANGED bookVars
        \/ Hold(op.account, op.request, Cost[op.audio])
    BY <1>7 DEF TranscribeStart, Refuse
  <2>3. BookTypeOK'
    BY <1>a, <1>c, <1>e, <2>1, <2>2, BookStaysTyped
  <2>4. UNCHANGED cache \/ CacheLookup(KeyOf(op), conn[c].now)
    BY <1>7 DEF TranscribeStart, Refuse
  <2>5. DOMAIN cache' \subseteq Key /\ \A k \in DOMAIN cache' : cache'[k] \in Nat
    BY <1>c, <2>4 DEF CacheLookup
  <2>6. Moves
    BY <1>7, <1>c, <2>5 DEF TranscribeStart, Refuse, authVars, panelVars
  <2> QED
    BY <1>d, <2>3, <2>6
<1>8. CASE TranscribeText(c)
  <2>1. op.kind = "transcribe"
    BY <1>8 DEF TranscribeText, LockInv
  <2>2. op.request \in Requests /\ op.audio \in Audios /\ Cost[op.audio] \in Nat
    BY <2>1, <1>a, OpShape
  <2>3. Charge(op.account, op.request, Cost[op.audio])
    BY <1>8 DEF TranscribeText
  <2>4. BookTypeOK'
    BY <1>a, <1>c, <2>2, <2>3, BookStaysTyped
  <2>5. KeyOf(op) \in Key
    BY <1>a, <2>2 DEF Key, KeyOf
  <2>6. DOMAIN cache' \subseteq Key /\ \A k \in DOMAIN cache' : cache'[k] \in Nat
    BY <1>8, <1>a, <1>c, <2>5 DEF TranscribeText
  <2>7. Moves
    BY <1>8, <1>a, <1>c, <2>2, <2>6 DEF TranscribeText, authVars
  <2> QED
    BY <1>d, <2>4, <2>7
<1>9. CASE TranscribeEmpty(c)
  <2>1. op.kind = "transcribe"
    BY <1>9 DEF TranscribeEmpty, LockInv
  <2>2. op.request \in Requests
    BY <2>1, <1>a, OpShape
  <2>3. Return(op.account, op.request, held[op.account][op.request])
    BY <1>9 DEF TranscribeEmpty
  <2>4. held[op.account][op.request] \in Nat
    BY <1>a, <1>c, <2>2 DEF BookTypeOK
  <2>5. BookTypeOK'
    BY <1>a, <1>c, <2>2, <2>3, <2>4, BookStaysTyped
  <2>6. Moves
    BY <1>9, <1>c DEF TranscribeEmpty, authVars, panelVars
  <2> QED
    BY <1>d, <2>5, <2>6
<1> QED
  BY <1>1, <1>2, <1>3, <1>4, <1>5, <1>6, <1>7, <1>8, <1>9 DEF Handler

(***************************************************************************)
(* So does every other step of a connection, a restart and the clock.      *)
(***************************************************************************)
LEMMA NextTypeInv == TypeInv /\ LockInv /\ [Next]_vars => TypeInv'
<1> SUFFICES ASSUME TypeInv, LockInv, [Next]_vars PROVE TypeInv'
  OBVIOUS
<1>0. /\ conn \in [Conns -> ConnRec]
      /\ \A c \in Conns : conn[c].reply \in Replies
  BY DEF TypeInv, TypeOK, ConnRec, Pcs, Replies
<1>1. ASSUME NEW c \in Conns, NEW o \in Ops, Arrive(c, o) PROVE TypeInv'
  <2>1. [pc |-> "arrived", op |-> o, now |-> clock, reply |-> None] \in ConnRec
    BY DEF TypeInv, ConnRec, Pcs, Replies
  <2>2. conn' \in [Conns -> ConnRec]
    BY <1>0, <1>1, <2>1 DEF Arrive
  <2> QED
    BY <1>1, <2>2 DEF Arrive, TypeInv, TypeOK, DiskOK, BookTypeOK, bookVars, authVars,
       panelVars, ConnRec, Pcs, Replies
<1>2. ASSUME NEW c \in Conns, Handler(c) PROVE TypeInv'
  BY <1>2, HandlerKeepsTypes
<1>3. ASSUME NEW c \in Conns, Reply(c) PROVE TypeInv'
  <2>1. conn' \in [Conns -> ConnRec]
    BY <1>0, <1>3, ConnMoves DEF Reply, Pcs
  <2> QED
    BY <1>3, <2>1 DEF Reply, TypeInv, TypeOK, DiskOK, BookTypeOK, bookVars, authVars,
       panelVars, ConnRec, Pcs, Replies
<1>4. ASSUME NEW c \in Conns, Save(c) PROVE TypeInv'
  <2>1. conn' \in [Conns -> ConnRec]
    BY <1>0, <1>4, ConnMoves DEF Save, Pcs
  <2>2. DiskOK'
    BY <1>4 DEF Save, Memory, DiskOK, TypeInv, TypeOK
  <2> QED
    BY <1>4, <2>1, <2>2 DEF Save, TypeInv, TypeOK, BookTypeOK, bookVars, authVars,
       panelVars, ConnRec, Pcs, Replies
<1>5. ASSUME NEW c \in Conns, SaveFails(c) PROVE TypeInv'
  <2>1. conn' \in [Conns -> ConnRec]
    BY <1>0, <1>5, ConnMoves DEF SaveFails, Pcs
  <2> QED
    BY <1>5, <2>1 DEF SaveFails, TypeInv, TypeOK, DiskOK, BookTypeOK, bookVars, authVars,
       panelVars, ConnRec, Pcs, Replies
<1>6. CASE Restart
  <2>1. BookTypeOK'
    BY <1>6 DEF Restart, NewBook, BookTypeOK
  <2>2. \A c \in Conns : [conn[c] EXCEPT !.pc = "dead"] \in ConnRec
    BY <1>0 DEF ConnRec, Pcs
  <2>3. conn' \in [Conns -> ConnRec]
    BY <1>0, <1>6, <2>2 DEF Restart
  <2> QED
    BY <1>6, <2>1, <2>3 DEF Restart, TypeInv, TypeOK, DiskOK, ConnRec, Pcs, Replies
<1>7. CASE Tick
  BY <1>7 DEF Tick, TypeInv, TypeOK, DiskOK, BookTypeOK, bookVars, authVars, panelVars
<1>8. CASE UNCHANGED vars
  BY <1>8 DEF vars, TypeInv, TypeOK, DiskOK, BookTypeOK, bookVars, authVars, panelVars
<1> QED
  BY <1>1, <1>2, <1>3, <1>4, <1>5, <1>6, <1>7, <1>8 DEF Next, Thread

-----------------------------------------------------------------------------
(* The mutex.                                                              *)

(***************************************************************************)
(* The handlers, seen from the mutex: one that runs in one go finds it and *)
(* leaves it free, a transcription takes it to work and gives it back.     *)
(***************************************************************************)
LEMMA HandlerUsesLock ==
  ASSUME TypeInv, LockInv, NEW c \in Conns, Handler(c)
  PROVE  \/ lock = Free /\ lock' = Free /\ conn'[c].pc = "answered"
         \/ /\ lock = Free /\ lock' = c
            /\ conn'[c].pc = "working" /\ conn[c].op.kind = "transcribe"
         \/ lock = c /\ lock' = Free /\ conn'[c].pc = "answered"
<1>0. conn \in [Conns -> ConnRec]
  BY DEF TypeInv, TypeOK, ConnRec, Pcs, Replies
<1>1. ASSUME NEW r, Answer(c, r) PROVE conn'[c].pc = "answered"
  BY <1>0, <1>1 DEF Answer, ConnRec
<1>2. CASE Redeem(c) \/ Login(c) \/ Topup(c) \/ Deduct(c) \/ Suspend(c) \/ Unsuspend(c)
  BY <1>1, <1>2 DEF Redeem, Login, Topup, Deduct, Suspend, Unsuspend, Starts, Done, Refuse
<1>3. CASE TranscribeStart(c)
  <2>1. conn' = [conn EXCEPT ![c].pc = "working"] => conn'[c].pc = "working"
    BY <1>0 DEF ConnRec
  <2> QED
    BY <1>1, <1>3, <2>1 DEF TranscribeStart, Starts, Refuse
<1>4. CASE TranscribeText(c)
  BY <1>1, <1>4 DEF TranscribeText, LockInv
<1>5. CASE TranscribeEmpty(c)
  BY <1>1, <1>5 DEF TranscribeEmpty, LockInv
<1> QED
  BY <1>2, <1>3, <1>4, <1>5 DEF Handler

(***************************************************************************)
(* A connection outside its handler leaves the mutex, the connections at   *)
(* work, and what a connection asked for alone.                            *)
(***************************************************************************)
LEMMA OtherStepsKeepLock ==
  ASSUME TypeInv, LockInv, NEW c \in Conns,
         (\E o \in Ops : Arrive(c, o)) \/ Reply(c) \/ Save(c) \/ SaveFails(c)
  PROVE  /\ lock' = lock
         /\ conn[c].pc # "working" /\ conn'[c].pc # "working"
         /\ conn'[c].op \in Ops
         /\ conn[c].pc # "new" => conn'[c].op = conn[c].op
         /\ \A d \in Conns \ {c} : conn'[d] = conn[d]
<1>0. conn \in [Conns -> ConnRec]
  BY DEF TypeInv, TypeOK, ConnRec, Pcs, Replies
<1> QED
  BY <1>0 DEF Arrive, Reply, Save, SaveFails, LockInv, ConnRec

(***************************************************************************)
(* A restart ends every connection at work, and the others keep their op.  *)
(***************************************************************************)
LEMMA RestartEndsConns ==
  ASSUME TypeInv, Restart, NEW c \in Conns
  PROVE  /\ conn'[c].pc # "working"
         /\ conn'[c].pc = "new" => conn[c].pc = "new"
         /\ conn'[c].op = conn[c].op
         /\ conn'[c].now = conn[c].now
         /\ conn'[c].reply = conn[c].reply
         /\ \/ conn'[c].pc = conn[c].pc /\ conn[c].pc \in {"new", "done", "unsaved"}
            \/ conn'[c].pc = "dead"
<1>0. conn[c] \in ConnRec
  BY DEF TypeInv, TypeOK, ConnRec, Pcs, Replies
<1> QED
  BY <1>0 DEF Restart, ConnRec

(***************************************************************************)
(* The mutex is always with the one transcription at work, or free.        *)
(***************************************************************************)
LEMMA NextLockInv == TypeInv /\ LockInv /\ [Next]_vars => LockInv'
<1> SUFFICES ASSUME TypeInv, LockInv, [Next]_vars PROVE LockInv'
  OBVIOUS
<1>0. \A c \in Conns : c # Free
  BY BrokerAssumption
<1>1. ASSUME NEW c \in Conns,
             (\E o \in Ops : Arrive(c, o)) \/ Reply(c) \/ Save(c) \/ SaveFails(c)
      PROVE LockInv'
  BY <1>1, OtherStepsKeepLock DEF LockInv
<1>2. ASSUME NEW c \in Conns, Handler(c) PROVE LockInv'
  BY <1>0, <1>2, HandlerUsesLock, HandlerMovesConn DEF LockInv
<1>3. CASE Restart
  BY <1>0, <1>3, RestartEndsConns DEF Restart, LockInv
<1>4. CASE Tick \/ UNCHANGED vars
  BY <1>4 DEF Tick, vars, LockInv
<1> QED
  BY <1>1, <1>2, <1>3, <1>4 DEF Next, Thread

(***************************************************************************)
(* The token of who is at work stays accepted: the mutex keeps every       *)
(* handler out that could stop the member or raise the generation.         *)
(***************************************************************************)
LEMMA NextTokenInv == TypeInv /\ LockInv /\ TokenInv /\ [Next]_vars => TokenInv'
<1> SUFFICES ASSUME TypeInv, LockInv, TokenInv, [Next]_vars PROVE TokenInv'
  OBVIOUS
<1>0. /\ \A c \in Conns : c # Free
      /\ conn \in [Conns -> ConnRec]
  BY BrokerAssumption DEF TypeInv, TypeOK, ConnRec, Pcs, Replies
<1>1. ASSUME NEW c \in Conns,
             (\E o \in Ops : Arrive(c, o)) \/ Reply(c) \/ Save(c) \/ SaveFails(c)
      PROVE TokenInv'
  <2>1. UNCHANGED <<lock, registered, generation, suspended>>
    BY <1>1 DEF Arrive, Reply, Save, SaveFails, authVars
  <2>2. ASSUME NEW d \in Conns, lock = d PROVE conn'[d].op = conn[d].op
    BY <1>1, <2>2, OtherStepsKeepLock DEF LockInv
  <2> QED
    BY <2>1, <2>2 DEF TokenInv, Accepted
<1>2. ASSUME NEW c \in Conns, Handler(c) PROVE TokenInv'
  <2>1. CASE lock' = Free
    BY <1>0, <2>1 DEF TokenInv
  <2>2. CASE lock' # Free
    <3>1. lock' = c /\ conn'[c].pc = "working"
      BY <1>2, <2>2, HandlerUsesLock
    <3>2. TranscribeStart(c)
      <4>1. ASSUME NEW r, Answer(c, r) PROVE FALSE
        BY <1>0, <3>1, <4>1 DEF Answer, ConnRec
      <4> QED
        BY <1>2, <4>1 DEF Handler, Redeem, Login, Topup, Deduct, Suspend, Unsuspend,
           TranscribeText, TranscribeEmpty, Done, Refuse
    <3>3. Accepted(conn[c].op) /\ UNCHANGED <<registered, generation, suspended>>
      <4>1. ASSUME Refuse(c) PROVE FALSE
        BY <1>0, <3>1, <4>1 DEF Refuse, Answer, ConnRec
      <4> QED
        BY <3>2, <4>1 DEF TranscribeStart, authVars
    <3>4. conn'[c].op = conn[c].op
      BY <1>2, HandlerMovesConn
    <3> QED
      BY <3>1, <3>3, <3>4 DEF TokenInv, Accepted
  <2> QED
    BY <2>1, <2>2
<1>3. CASE Restart
  BY <1>0, <1>3 DEF Restart, TokenInv
<1>4. CASE Tick \/ UNCHANGED vars
  BY <1>4 DEF Tick, vars, authVars, TokenInv, Accepted
<1> QED
  BY <1>1, <1>2, <1>3, <1>4 DEF Next, Thread

-----------------------------------------------------------------------------
(* Holds.                                                                  *)

(***************************************************************************)
(* Only what a connection at work blocked is on hold.                      *)
(***************************************************************************)
LEMMA NextHoldInv == TypeInv /\ LockInv /\ HoldInv /\ [Next]_vars => HoldInv'
<1> SUFFICES ASSUME TypeInv, LockInv, HoldInv, [Next]_vars PROVE HoldInv'
  OBVIOUS
<1>0. /\ \A c \in Conns : c # Free
      /\ held \in [Accounts -> [Requests -> Nat]] /\ onHold \in [Accounts -> Int]
  BY BrokerAssumption DEF TypeInv, TypeOK, BookTypeOK
<1>a. ASSUME lock' = lock, UNCHANGED <<held, onHold>>,
             \A c \in Conns : lock = c => conn'[c] = conn[c]
      PROVE HoldInv'
  BY <1>a DEF HoldInv, HeldBy, OnHoldBy, NothingHeldBetweenHandlers
<1>b. UNCHANGED bookVars => UNCHANGED <<held, onHold>>
  BY DEF bookVars
<1>1. ASSUME NEW c \in Conns,
             (\E o \in Ops : Arrive(c, o)) \/ Reply(c) \/ Save(c) \/ SaveFails(c)
      PROVE HoldInv'
  <2>1. UNCHANGED <<held, onHold>>
    BY <1>1, <1>b DEF Arrive, Reply, Save, SaveFails
  <2> QED
    BY <1>1, <1>a, <2>1, OtherStepsKeepLock DEF LockInv
<1>2. ASSUME NEW c \in Conns, Redeem(c) \/ Login(c) \/ Topup(c) \/ Deduct(c)
                                 \/ Suspend(c) \/ Unsuspend(c)
      PROVE HoldInv'
  <2>1. lock = Free /\ lock' = lock
    BY <1>2 DEF Redeem, Login, Topup, Deduct, Suspend, Unsuspend, Starts
  <2>2. UNCHANGED <<held, onHold>>
    BY <1>2, <1>b DEF Redeem, Login, Topup, Deduct, Suspend, Unsuspend, Refuse,
       Fund, Withdraw
  <2> QED
    BY <1>0, <1>a, <2>1, <2>2
<1>3. ASSUME NEW c \in Conns, TranscribeStart(c) PROVE HoldInv'
  <2> DEFINE op == conn[c].op
  <2>1. CASE UNCHANGED bookVars /\ lock' = lock
    <3>1. lock = Free
      BY <1>3 DEF TranscribeStart, Starts
    <3> QED
      BY <1>0, <1>a, <1>b, <2>1, <3>1
  <2>2. CASE /\ Hold(op.account, op.request, Cost[op.audio])
             /\ lock' = c
    <3>1. op \in Ops /\ op.kind = "transcribe"
      BY <1>3 DEF TranscribeStart, Starts, LockInv
    <3>2. op.account \in Accounts /\ op.request \in Requests /\ Cost[op.audio] \in Nat
      BY <3>1, OpShape
    <3>3. NothingHeldBetweenHandlers /\ lock = Free
      BY <1>3 DEF HoldInv, TranscribeStart, Starts
    <3>4. conn'[c].pc = "working" /\ conn'[c].op = op
      BY <1>0, <1>3, <2>2, <3>3, HandlerUsesLock, HandlerMovesConn DEF Handler
    <3>5. \A a \in Accounts :
            /\ onHold'[a] = IF a = op.account THEN Cost[op.audio] ELSE 0
            /\ \A r \in Requests :
                 held'[a][r] = IF a = op.account /\ r = op.request
                               THEN Cost[op.audio] ELSE 0
      BY <1>0, <2>2, <3>2, <3>3 DEF Hold, NothingHeldBetweenHandlers
    <3>6. lock' # Free /\ \A d \in Conns : lock' = d => d = c
      BY <1>0, <2>2
    <3> QED
      BY <3>4, <3>5, <3>6 DEF HoldInv, HeldBy, OnHoldBy, NothingHeldBetweenHandlers
  <2> QED
    BY <1>3, <2>1, <2>2 DEF TranscribeStart, Refuse
<1>4. ASSUME NEW c \in Conns, TranscribeText(c) \/ TranscribeEmpty(c) PROVE HoldInv'
  <2> DEFINE op == conn[c].op
  <2>1. lock = c /\ lock' = Free /\ conn[c].pc = "working"
    BY <1>4 DEF TranscribeText, TranscribeEmpty, LockInv
  <2>2. op \in Ops /\ op.kind = "transcribe"
    BY <2>1 DEF LockInv
  <2>3. op.account \in Accounts /\ op.request \in Requests /\ Cost[op.audio] \in Nat
    BY <2>2, OpShape
  <2>4. \A a \in Accounts :
          /\ onHold[a] = IF op.account = a THEN Cost[op.audio] ELSE 0
          /\ \A r \in Requests :
               held[a][r] = IF op.account = a /\ op.request = r
                            THEN Cost[op.audio] ELSE 0
    BY <2>1 DEF HoldInv, HeldBy, OnHoldBy
  <2>5. held[op.account][op.request] = Cost[op.audio]
    BY <2>3, <2>4
  <2>6. /\ held' = [held EXCEPT ![op.account][op.request] = @ - Cost[op.audio]]
        /\ onHold' = [onHold EXCEPT ![op.account] = @ - Cost[op.audio]]
    BY <1>4, <2>5 DEF TranscribeText, TranscribeEmpty, Charge, Return
  <2>7. \A a \in Accounts : onHold'[a] = 0 /\ \A r \in Requests : held'[a][r] = 0
    BY <1>0, <2>3, <2>4, <2>6
  <2>8. \A d \in Conns : lock' # d
    BY <1>0, <2>1
  <2> QED
    BY <2>7, <2>8 DEF HoldInv, NothingHeldBetweenHandlers
<1>5. CASE Restart
  <2>1. \A a \in Accounts : onHold'[a] = 0 /\ \A r \in Requests : held'[a][r] = 0
    BY <1>5 DEF Restart, NewBook
  <2>2. \A d \in Conns : lock' # d
    BY <1>0, <1>5 DEF Restart
  <2> QED
    BY <2>1, <2>2 DEF HoldInv, NothingHeldBetweenHandlers
<1>6. CASE Tick \/ UNCHANGED vars
  BY <1>6, <1>a, <1>b DEF Tick, vars
<1> QED
  BY <1>1, <1>2, <1>3, <1>4, <1>5, <1>6 DEF Next, Thread, Handler

-----------------------------------------------------------------------------
(* The account book.                                                       *)

(***************************************************************************)
(* What a step does to the book is one operation of it, unless the process *)
(* ends and its successor opens an empty book.                             *)
(***************************************************************************)
LEMMA StepUsesBook ==
  ASSUME TypeInv, LockInv, [Next]_vars
  PROVE  Restart \/ BookNext \/ UNCHANGED bookVars
<1>0. BookTypeOK
  BY DEF TypeInv, TypeOK
<1>1. ASSUME NEW c \in Conns,
             (\E o \in Ops : Arrive(c, o)) \/ Reply(c) \/ Save(c) \/ SaveFails(c)
      PROVE  UNCHANGED bookVars
  BY <1>1 DEF Arrive, Reply, Save, SaveFails
<1>2. ASSUME NEW c \in Conns, Handler(c) PROVE BookNext \/ UNCHANGED bookVars
  <2> DEFINE op == conn[c].op
  <2>1. op \in Ops /\ op.account \in Accounts
    BY <1>2, HandlerMovesConn, OpShape DEF LockInv
  <2>2. CASE Redeem(c) \/ Topup(c) \/ Deduct(c)
    <3>1. op.amount \in Amounts
      BY <2>1, <2>2, OpShape DEF Redeem, Topup, Deduct, Starts
    <3>2. \/ Fund(op.account, op.amount)
          \/ Withdraw(op.account, op.amount)
          \/ UNCHANGED bookVars
      BY <2>2 DEF Redeem, Topup, Deduct, Refuse
    <3> QED
      BY <2>1, <3>1, <3>2 DEF BookNext
  <2>3. CASE Login(c) \/ Suspend(c) \/ Unsuspend(c)
    BY <2>3 DEF Login, Suspend, Unsuspend, Refuse
  <2>4. CASE TranscribeStart(c) \/ TranscribeText(c) \/ TranscribeEmpty(c)
    <3>1. op.kind = "transcribe"
      BY <2>4 DEF TranscribeStart, Starts, TranscribeText, TranscribeEmpty, LockInv
    <3>2. op.request \in Requests /\ Cost[op.audio] \in Amounts /\ Cost[op.audio] \in Nat
      BY <2>1, <3>1, OpShape
    <3>3. held[op.account][op.request] \in Nat
      BY <1>0, <2>1, <3>2 DEF BookTypeOK
    <3>4. \/ Hold(op.account, op.request, Cost[op.audio])
          \/ Charge(op.account, op.request, Cost[op.audio])
          \/ Return(op.account, op.request, held[op.account][op.request])
          \/ UNCHANGED bookVars
      BY <2>4 DEF TranscribeStart, TranscribeText, TranscribeEmpty, Refuse
    <3>5. Charge(op.account, op.request, Cost[op.audio]) =>
            Cost[op.audio] \in 0..held[op.account][op.request]
      BY <3>2, <3>3 DEF Charge
    <3> HIDE DEF op
    <3> QED
      BY <2>1, <3>2, <3>3, <3>4, <3>5 DEF BookNext
  <2> QED
    BY <1>2, <2>2, <2>3, <2>4 DEF Handler
<1>3. CASE Tick \/ UNCHANGED vars
  BY <1>3 DEF Tick, vars
<1> QED
  BY <1>1, <1>2, <1>3 DEF Next, Thread

(***************************************************************************)
(* The two places where a balance is kept follow each other.               *)
(***************************************************************************)
LEMMA NextFreshInv ==
  TypeInv /\ LockInv /\ HoldInv /\ FreshInv /\ [Next]_vars => FreshInv'
<1> SUFFICES ASSUME TypeInv, LockInv, HoldInv, FreshInv, [Next]_vars, restarts' = 0
             PROVE  FreshInv'
  BY DEF FreshInv
<1>0. /\ balance \in [Accounts -> Nat] /\ onHold \in [Accounts -> Int]
      /\ held \in [Accounts -> [Requests -> Nat]]
      /\ panelBalance \in [Accounts -> Int] /\ restarts \in Nat
  BY DEF TypeInv, TypeOK, BookTypeOK
<1>a. UNCHANGED <<balance, onHold, registered, panelBalance, restarts>> => FreshInv'
  BY DEF FreshInv
<1>b. UNCHANGED bookVars => UNCHANGED <<balance, onHold>>
  BY DEF bookVars
<1>1. ASSUME NEW c \in Conns,
             \/ (\E o \in Ops : Arrive(c, o)) \/ Reply(c) \/ Save(c) \/ SaveFails(c)
             \/ Login(c) \/ Suspend(c) \/ Unsuspend(c)
      PROVE FreshInv'
  BY <1>1, <1>a, <1>b DEF Arrive, Reply, Save, SaveFails, Login, Suspend, Unsuspend,
     Refuse, HandlerFrame, authVars, panelVars
<1>3. ASSUME NEW c \in Conns, Redeem(c) \/ Topup(c) \/ Deduct(c) PROVE FreshInv'
  <2> DEFINE op == conn[c].op
  <2>1. conn[c].pc = "arrived" /\ lock = Free /\ UNCHANGED restarts
    BY <1>3 DEF Redeem, Topup, Deduct, Starts, HandlerFrame
  <2>2. op \in Ops
    BY <2>1 DEF LockInv
  <2>3. op.account \in Accounts /\ op.amount \in Nat
    BY <1>3, <2>2, OpShape DEF Redeem, Topup, Deduct, Starts
  <2>4. \A a \in Accounts : onHold[a] = 0
    BY <2>1 DEF HoldInv, NothingHeldBetweenHandlers
  <2>5. restarts = 0
    BY <2>1
  <2>6. CASE conn' = [conn EXCEPT ![c].pc = "answered", ![c].reply = "refused"]
             /\ UNCHANGED <<bookVars, registered, panelBalance>>
    BY <1>a, <1>b, <2>1, <2>6
  <2>7. CASE Redeem(c) /\ op.account \notin registered
    <3>1. /\ registered' = registered \cup {op.account}
          /\ panelBalance' = [panelBalance EXCEPT ![op.account] = op.amount]
          /\ IF op.amount > 0 THEN Fund(op.account, op.amount) ELSE UNCHANGED bookVars
      BY <2>7 DEF Redeem
    <3>2. \A a \in Accounts :
            /\ balance'[a] = IF a = op.account THEN balance[a] + op.amount ELSE balance[a]
            /\ onHold'[a] = onHold[a]
      BY <1>0, <1>b, <2>3, <3>1 DEF Fund
    <3> QED
      BY <1>0, <2>3, <2>4, <2>5, <2>7, <3>1, <3>2 DEF FreshInv
  <2>8. CASE Topup(c) /\ op.account \in registered /\ Fund(op.account, op.amount)
             /\ panelBalance' = [panelBalance EXCEPT ![op.account] = @ + op.amount]
    <3>1. UNCHANGED <<registered, onHold>>
      BY <2>8 DEF Topup, Refuse, authVars, Fund
    <3> QED
      BY <1>0, <2>3, <2>4, <2>5, <2>8, <3>1 DEF FreshInv, Fund
  <2>9. CASE Deduct(c) /\ op.account \in registered
             /\ op.amount > 0 /\ op.amount <= panelBalance[op.account]
             /\ panelBalance' = [panelBalance EXCEPT ![op.account] = @ - op.amount]
    <3>1. panelBalance[op.account] = balance[op.account]
      BY <1>0, <2>3, <2>4, <2>5, <2>9 DEF FreshInv
    <3>2. Withdraw(op.account, op.amount) /\ UNCHANGED registered
      BY <1>0, <2>3, <2>9, <3>1 DEF Deduct, authVars
    <3> QED
      BY <1>0, <2>3, <2>4, <2>5, <2>9, <3>2 DEF FreshInv, Withdraw
  <2> QED
    BY <1>3, <2>6, <2>7, <2>8, <2>9 DEF Redeem, Topup, Deduct, Refuse, Answer, Done,
       authVars, panelVars
<1>4. ASSUME NEW c \in Conns, TranscribeStart(c) PROVE FreshInv'
  <2> DEFINE op == conn[c].op
  <2>1. UNCHANGED <<registered, panelBalance, restarts>>
    BY <1>4 DEF TranscribeStart, Refuse, HandlerFrame, authVars, panelVars
  <2>2. CASE UNCHANGED bookVars
    BY <1>a, <1>b, <2>1, <2>2
  <2>3. CASE Accepted(op) /\ Hold(op.account, op.request, Cost[op.audio])
    <3>1. op \in Ops /\ op.kind = "transcribe"
      BY <1>4 DEF TranscribeStart, Starts, LockInv
    <3>2. op.account \in Accounts /\ Cost[op.audio] \in Nat /\ op.account \in registered
      BY <2>3, <3>1, OpShape DEF Accepted
    <3> QED
      BY <1>0, <2>1, <2>3, <3>2 DEF FreshInv, Hold
  <2> QED
    BY <1>4, <2>2, <2>3 DEF TranscribeStart, Refuse
<1>5. ASSUME NEW c \in Conns, TranscribeText(c) \/ TranscribeEmpty(c) PROVE FreshInv'
  <2> DEFINE op == conn[c].op
  <2>1. lock = c /\ UNCHANGED <<registered, restarts>>
    BY <1>5 DEF TranscribeText, TranscribeEmpty, LockInv, HandlerFrame, authVars
  <2>2. op \in Ops /\ op.kind = "transcribe" /\ conn[c].pc = "working"
    BY <2>1 DEF LockInv
  <2>3. op.account \in Accounts /\ op.request \in Requests /\ Cost[op.audio] \in Nat \ {0}
    BY <2>2, OpShape
  <2>4. /\ onHold[op.account] = Cost[op.audio]
        /\ held[op.account][op.request] = Cost[op.audio]
    BY <2>1, <2>2, <2>3 DEF HoldInv, HeldBy, OnHoldBy
  <2>5. restarts = 0 /\ op.account \in registered
    BY <2>1, <2>3, <2>4 DEF FreshInv
  <2>6. CASE TranscribeText(c)
    <3>1. /\ Charge(op.account, op.request, Cost[op.audio])
          /\ panelBalance' = [panelBalance EXCEPT ![op.account] = @ - Cost[op.audio]]
      BY <2>6 DEF TranscribeText
    <3> QED
      BY <1>0, <2>1, <2>3, <2>5, <3>1 DEF FreshInv, Charge
  <2>7. CASE TranscribeEmpty(c)
    <3>1. Return(op.account, op.request, Cost[op.audio]) /\ UNCHANGED panelBalance
      BY <2>4, <2>7 DEF TranscribeEmpty, panelVars
    <3> QED
      BY <1>0, <2>1, <2>3, <2>5, <3>1 DEF FreshInv, Return
  <2> QED
    BY <1>5, <2>6, <2>7
<1>6. CASE Restart
  BY <1>0, <1>6 DEF Restart
<1>7. CASE Tick
  BY <1>7, <1>a, <1>b DEF Tick, authVars, panelVars
<1>8. CASE UNCHANGED vars
  BY <1>8, <1>a, <1>b DEF vars, authVars, panelVars
<1> QED
  <2>1. ASSUME NEW c \in Conns, Handler(c) PROVE FreshInv'
    BY <1>1, <1>3, <1>4, <1>5, <2>1 DEF Handler
  <2>2. ASSUME NEW c \in Conns, Thread(c) \/ \E o \in Ops : Arrive(c, o) PROVE FreshInv'
    BY <1>1, <2>1, <2>2 DEF Thread
  <2> QED
    BY <1>6, <1>7, <1>8, <2>2 DEF Next

-----------------------------------------------------------------------------
(* Answers, fees and the snapshot.                                         *)

(***************************************************************************)
(* Only TranscribeText answers with a text and takes a fee, and who is     *)
(* told of a change has made it.                                           *)
(***************************************************************************)
LEMMA HandlerAnswers ==
  ASSUME TypeInv, LockInv, NEW c \in Conns, Handler(c)
  PROVE  /\ applied \subseteq applied'
         /\ UNCHANGED <<disk, clock, restarts>>
         /\ \/ /\ charges' = charges
               /\ \/ conn'[c].reply \notin {"ok", "text"}
                  \/ conn'[c].reply = "ok" /\ c \in applied'
                  \/ conn'[c].pc = "working" /\ conn'[c].reply = conn[c].reply
            \/ /\ TranscribeText(c)
               /\ conn'[c].reply = "text" /\ c \in applied'
<1>0. conn \in [Conns -> ConnRec]
  BY DEF TypeInv, TypeOK, ConnRec, Pcs, Replies
<1>1. ASSUME NEW r, Answer(c, r) PROVE conn'[c].reply = r
  BY <1>0, <1>1 DEF Answer, ConnRec
<1>2. applied \subseteq applied' /\ UNCHANGED <<disk, clock, restarts>>
  BY DEF Handler, Redeem, Login, Topup, Deduct, Suspend, Unsuspend, TranscribeStart,
     TranscribeText, TranscribeEmpty, Done, Refuse, HandlerFrame
<1>3. CASE Redeem(c) \/ Login(c) \/ Topup(c) \/ Deduct(c) \/ Suspend(c) \/ Unsuspend(c)
  <2>1. charges' = charges
    BY <1>3 DEF Redeem, Login, Topup, Deduct, Suspend, Unsuspend, Refuse, historyVars
  <2>2. Answer(c, "refused") \/ Done(c)
    BY <1>3 DEF Redeem, Login, Topup, Deduct, Suspend, Unsuspend, Refuse
  <2> QED
    BY <1>1, <1>2, <2>1, <2>2 DEF Done
<1>4. CASE TranscribeStart(c)
  <2>1. charges' = charges
    BY <1>4 DEF TranscribeStart, Refuse, historyVars
  <2>2. \/ Answer(c, "refused") \/ Answer(c, "cached")
        \/ conn' = [conn EXCEPT ![c].pc = "working"]
    BY <1>4 DEF TranscribeStart, Refuse
  <2>3. conn' = [conn EXCEPT ![c].pc = "working"] =>
          conn'[c].pc = "working" /\ conn'[c].reply = conn[c].reply
    BY <1>0 DEF ConnRec
  <2> QED
    BY <1>1, <1>2, <2>1, <2>2, <2>3
<1>5. CASE TranscribeText(c)
  BY <1>1, <1>2, <1>5 DEF TranscribeText
<1>6. CASE TranscribeEmpty(c)
  BY <1>1, <1>2, <1>6 DEF TranscribeEmpty, historyVars
<1> QED
  BY <1>3, <1>4, <1>5, <1>6 DEF Handler

(***************************************************************************)
(* A connection that is not in its handler keeps its reply, takes no fee   *)
(* and changes nothing but the snapshot.                                   *)
(***************************************************************************)
LEMMA OtherStepsAnswers ==
  ASSUME TypeInv, NEW c \in Conns,
         (\E o \in Ops : Arrive(c, o)) \/ Reply(c) \/ Save(c) \/ SaveFails(c)
  PROVE  /\ UNCHANGED <<charges, applied, cache, clock, restarts>>
         /\ \/ /\ conn'[c].pc = "arrived" /\ conn'[c].reply = None
               /\ conn[c].pc = "new" /\ conn'[c].now = clock /\ disk' = disk
            \/ /\ conn'[c].reply = conn[c].reply /\ conn'[c].now = conn[c].now
               /\ \/ conn[c].pc = "answered" /\ conn'[c].pc = "replied" /\ disk' = disk
                  \/ /\ conn[c].pc = "replied" /\ conn'[c].pc = "done"
                     /\ disk'.applied = applied
                  \/ conn[c].pc = "replied" /\ conn'[c].pc = "unsaved" /\ disk' = disk
<1>0. conn \in [Conns -> ConnRec]
  BY DEF TypeInv, TypeOK, ConnRec, Pcs, Replies
<1> QED
  BY <1>0 DEF Arrive, Reply, Save, SaveFails, Memory, historyVars, ConnRec

(***************************************************************************)
(* Fees go with the answers.                                               *)
(***************************************************************************)
LEMMA NextAnswerInv == TypeInv /\ LockInv /\ AnswerInv /\ [Next]_vars => AnswerInv'
<1> SUFFICES ASSUME TypeInv, LockInv, AnswerInv, [Next]_vars PROVE AnswerInv'
  OBVIOUS
<1>1. ASSUME NEW c \in Conns,
             (\E o \in Ops : Arrive(c, o)) \/ Reply(c) \/ Save(c) \/ SaveFails(c)
      PROVE AnswerInv'
  BY <1>1, OtherStepsAnswers, OtherStepsKeepLock DEF AnswerInv
<1>2. ASSUME NEW c \in Conns, Handler(c) PROVE AnswerInv'
  <2>1. conn[c].reply = None
    BY <1>2, HandlerMovesConn DEF AnswerInv
  <2>2. CASE TranscribeText(c) /\ conn'[c].reply = "text"
    <3>1. \E x \in charges' : x.by = c
      <4>1. [by |-> c, key |-> KeyOf(conn[c].op), at |-> conn[c].now,
             boot |-> restarts] \in charges'
        BY <2>2 DEF TranscribeText
      <4> QED
        BY <4>1
    <3>2. \A d \in Conns \ {c} :
            (\E x \in charges' : x.by = d) <=> (\E x \in charges : x.by = d)
      BY <2>2 DEF TranscribeText
    <3>3. conn'[c].pc = "answered"
      BY <1>2, <2>1, <2>2, HandlerMovesConn DEF None
    <3> QED
      BY <1>2, <2>2, <3>1, <3>2, <3>3, HandlerMovesConn DEF AnswerInv
  <2>3. CASE charges' = charges /\ conn'[c].reply # "text"
    <3>1. conn'[c].pc = "answered" \/ conn'[c].reply = None
      BY <1>2, <2>1, HandlerMovesConn
    <3>2. conn'[c].pc \in {"answered", "working"}
      BY <1>2, HandlerMovesConn
    <3> QED
      BY <1>2, <2>1, <2>3, <3>1, <3>2, HandlerMovesConn DEF AnswerInv, None
  <2> QED
    BY <1>2, <2>1, <2>2, <2>3, HandlerAnswers DEF None
<1>3. CASE Restart
  BY <1>3, RestartEndsConns DEF AnswerInv, Restart, historyVars
<1>4. CASE Tick \/ UNCHANGED vars
  BY <1>4 DEF Tick, vars, historyVars, AnswerInv
<1> QED
  BY <1>1, <1>2, <1>3, <1>4 DEF Next, Thread

(***************************************************************************)
(* What was saved stays saved, and what is answered is in memory.          *)
(***************************************************************************)
LEMMA NextDurableInv ==
  TypeInv /\ LockInv /\ AnswerInv /\ DurableInv /\ [Next]_vars => DurableInv'
<1> SUFFICES ASSUME TypeInv, LockInv, AnswerInv, DurableInv, [Next]_vars PROVE DurableInv'
  OBVIOUS
<1>1. ASSUME NEW c \in Conns,
             (\E o \in Ops : Arrive(c, o)) \/ Reply(c) \/ Save(c) \/ SaveFails(c)
      PROVE DurableInv'
  <2>1. CASE disk' = disk
    BY <1>1, <2>1, OtherStepsAnswers, OtherStepsKeepLock DEF DurableInv, None
  <2>2. CASE disk'.applied = applied
    BY <1>1, <2>2, OtherStepsAnswers, OtherStepsKeepLock DEF DurableInv, None
  <2> QED
    BY <1>1, <2>1, <2>2, OtherStepsAnswers
<1>2. ASSUME NEW c \in Conns, Handler(c) PROVE DurableInv'
  <2>1. conn'[c].reply \in {"ok", "text"} => c \in applied'
    BY <1>2, HandlerMovesConn, HandlerAnswers DEF AnswerInv, None
  <2>2. conn'[c].pc # "done"
    BY <1>2, HandlerMovesConn
  <2> QED
    BY <1>2, <2>1, <2>2, HandlerMovesConn, HandlerAnswers DEF DurableInv
<1>3. CASE Restart
  BY <1>3, RestartEndsConns DEF DurableInv, Restart
<1>4. CASE Tick \/ UNCHANGED vars
  BY <1>4 DEF Tick, vars, DurableInv
<1> QED
  BY <1>1, <1>2, <1>3, <1>4 DEF Next, Thread

-----------------------------------------------------------------------------
(* One fee for a text.                                                     *)

(***************************************************************************)
(* The bounds in time are numbers.                                         *)
(***************************************************************************)
LEMMA TimesAreNat == ResultTTL \in Nat /\ MaxLag \in Nat
  BY BrokerAssumption

(***************************************************************************)
(* A connection never reads a time to come, and gets the mutex in time.    *)
(***************************************************************************)
LEMMA NextWaitInv == TypeInv /\ LockInv /\ WaitInv /\ [Next]_vars => WaitInv'
<1> SUFFICES ASSUME TypeInv, LockInv, WaitInv, [Next]_vars PROVE WaitInv'
  OBVIOUS
<1>0. /\ clock \in Nat /\ ResultTTL \in Nat /\ MaxLag \in Nat
      /\ \A c \in Conns : conn[c].now \in Nat
  BY TimesAreNat DEF TypeInv, TypeOK
<1>1. ASSUME NEW c \in Conns,
             (\E o \in Ops : Arrive(c, o)) \/ Reply(c) \/ Save(c) \/ SaveFails(c)
      PROVE WaitInv'
  BY <1>0, <1>1, OtherStepsAnswers, OtherStepsKeepLock DEF WaitInv
<1>2. ASSUME NEW c \in Conns, Handler(c) PROVE WaitInv'
  <2>1. clock' = clock
    BY <1>2, HandlerAnswers
  <2> QED
    BY <1>0, <1>2, <2>1, HandlerMovesConn DEF WaitInv
<1>3. CASE Restart
  BY <1>0, <1>3, RestartEndsConns DEF WaitInv, Restart
<1>4. CASE Tick
  BY <1>0, <1>4 DEF Tick, WaitInv
<1>5. CASE UNCHANGED vars
  BY <1>5 DEF vars, WaitInv
<1> QED
  BY <1>1, <1>2, <1>3, <1>4, <1>5 DEF Next, Thread

(***************************************************************************)
(* A lookup that finds nothing comes a lifetime after every fee for the    *)
(* key, less what the caller's time lags behind.                           *)
(***************************************************************************)
LEMMA StartKeepsFees ==
  ASSUME TypeInv, LockInv, WaitInv, FeeInv, NEW c \in Conns, TranscribeStart(c)
  PROVE  FeeInv'
<1> DEFINE op == conn[c].op
           k == KeyOf(op)
           now == conn[c].now
<1>0. /\ clock \in Nat /\ ResultTTL \in Nat /\ MaxLag \in Nat /\ now \in Nat
      /\ now <= clock /\ clock - now <= MaxLag
      /\ \A l \in DOMAIN cache : cache[l] \in Nat
  BY TimesAreNat DEF TypeInv, TypeOK, TranscribeStart, Starts, WaitInv
<1>1. /\ UNCHANGED <<charges, clock, restarts>> /\ lock = Free
      /\ \A d \in Conns : conn'[d].op = conn[d].op /\ conn'[d].now = conn[d].now
  BY HandlerMovesConn DEF Handler, TranscribeStart, Starts, Refuse, HandlerFrame, historyVars
<1>2. \A d \in Conns : d # Free
  BY BrokerAssumption
<1>3. CASE UNCHANGED cache /\ lock' = lock
  BY <1>1, <1>2, <1>3 DEF FeeInv
<1>4. CASE CacheLookup(k, now) /\ (lock' = c => ~Cached(k, now)) /\ lock' \in {lock, c}
  <2> SUFFICES ASSUME NEW x \in charges, x.boot = restarts, ResultTTL >= MaxLag
               PROVE  /\ x.key \in DOMAIN cache' => cache'[x.key] >= x.at
                      /\ x.key \notin DOMAIN cache' => clock >= x.at + ResultTTL
                      /\ lock' = c /\ k = x.key => now >= x.at + ResultTTL - MaxLag
    BY <1>1, <1>2, <1>4 DEF FeeInv
  <2>1. x.at \in Nat /\ x.at <= clock
    BY DEF FeeInv
  <2>2. /\ x.key \in DOMAIN cache => cache[x.key] >= x.at
        /\ x.key \notin DOMAIN cache => clock >= x.at + ResultTTL
    BY DEF FeeInv
  <2>3. CASE Cached(k, now)
    BY <1>4, <2>2, <2>3 DEF CacheLookup
  <2>4. CASE ~Cached(k, now) /\ x.key = k
    <3>1. x.key \notin DOMAIN cache'
      BY <1>4, <2>4 DEF CacheLookup
    <3>2. clock >= x.at + ResultTTL
      BY <1>0, <2>1, <2>2, <2>4 DEF Cached
    <3>3. now >= x.at + ResultTTL - MaxLag
      BY <1>0, <2>1, <3>2
    <3> QED
      BY <3>1, <3>2, <3>3
  <2>5. CASE ~Cached(k, now) /\ x.key # k
    BY <1>4, <2>2, <2>5 DEF CacheLookup
  <2> QED
    BY <2>3, <2>4, <2>5
<1> QED
  <2>1. \/ UNCHANGED cache /\ lock' = lock
        \/ /\ CacheLookup(k, now)
           /\ lock' = lock \/ (lock' = c /\ ~Cached(k, now))
    BY DEF TranscribeStart, Refuse
  <2> QED
    BY <1>1, <1>2, <1>3, <1>4, <2>1

(***************************************************************************)
(* A new fee is a lifetime after the others for its key, less the lag.     *)
(***************************************************************************)
LEMMA TextKeepsFees ==
  ASSUME TypeInv, LockInv, WaitInv, FeeInv, PaidOncePerText,
         NEW c \in Conns, TranscribeText(c)
  PROVE  FeeInv' /\ PaidOncePerText'
<1> DEFINE k == KeyOf(conn[c].op)
           now == conn[c].now
           y == [by |-> c, key |-> k, at |-> now, boot |-> restarts]
<1>0. /\ clock \in Nat /\ restarts \in Nat /\ ResultTTL \in Nat /\ MaxLag \in Nat
      /\ now \in Nat /\ now <= clock
      /\ \A l \in DOMAIN cache : cache[l] \in Nat
  BY TimesAreNat DEF TypeInv, TypeOK, WaitInv
<1>1. /\ charges' = charges \cup {y}
      /\ cache' = [l \in DOMAIN cache \cup {k} |-> IF l = k THEN now ELSE cache[l]]
      /\ UNCHANGED <<clock, restarts>>
      /\ lock = c /\ lock' = Free
  BY DEF TranscribeText, HandlerFrame, LockInv
<1>2. \A d \in Conns : d # Free
  BY BrokerAssumption
<1>3. \A x \in charges : /\ x.at \in Nat /\ x.at <= clock
                          /\ x.boot \in Nat /\ x.boot <= restarts
  BY DEF FeeInv
<1>4. ASSUME NEW x \in charges, x.key = k, x.boot = restarts, ResultTTL >= MaxLag
      PROVE now >= x.at + ResultTTL - MaxLag
  BY <1>1, <1>4 DEF FeeInv
<1>5. FeeInv'
  <2> SUFFICES ASSUME NEW x \in charges'
               PROVE  /\ x.at \in Nat /\ x.at <= clock
                      /\ x.boot \in Nat /\ x.boot <= restarts
                      /\ x.boot = restarts /\ ResultTTL >= MaxLag =>
                           /\ x.key \in DOMAIN cache' => cache'[x.key] >= x.at
                           /\ x.key \notin DOMAIN cache' => clock >= x.at + ResultTTL
    BY <1>1, <1>2 DEF FeeInv
  <2>1. CASE x = y
    BY <1>0, <1>1, <2>1
  <2>2. CASE x \in charges /\ x.key # k
    BY <1>1, <1>3, <2>2 DEF FeeInv
  <2>3. CASE x \in charges /\ x.key = k
    <3>1. x.boot = restarts /\ ResultTTL >= MaxLag => now >= x.at
      BY <1>0, <1>3, <1>4, <2>3
    <3> QED
      BY <1>1, <1>3, <2>3, <3>1
  <2> QED
    BY <1>1, <2>1, <2>2, <2>3
<1>6. PaidOncePerText'
  <2>1. ASSUME NEW x \in charges, x.key = k, x.boot = restarts
        PROVE  \/ x.at - now >= ResultTTL - MaxLag
               \/ now - x.at >= ResultTTL - MaxLag
    <3>1. CASE ResultTTL >= MaxLag
      BY <1>0, <1>3, <1>4, <2>1, <3>1
    <3>2. CASE ~(ResultTTL >= MaxLag)
      BY <1>0, <1>3, <3>2
    <3> QED
      BY <3>1, <3>2
  <2> QED
    BY <1>1, <2>1 DEF PaidOncePerText
<1> QED
  BY <1>5, <1>6

(***************************************************************************)
(* Fees stay a lifetime apart, less the lag.                               *)
(***************************************************************************)
LEMMA NextChargeInv == TypeInv /\ LockInv /\ ChargeInv /\ [Next]_vars => ChargeInv'
<1> SUFFICES ASSUME TypeInv, LockInv, WaitInv, FeeInv, PaidOncePerText, [Next]_vars
             PROVE  FeeInv' /\ PaidOncePerText'
  BY NextWaitInv DEF ChargeInv
<1>0. /\ clock \in Nat /\ restarts \in Nat /\ ResultTTL \in Nat /\ MaxLag \in Nat
      /\ \A c \in Conns : c # Free
  BY TimesAreNat, BrokerAssumption DEF TypeInv
<1>a. charges' = charges => PaidOncePerText'
  BY DEF PaidOncePerText
<1>1. ASSUME NEW c \in Conns,
             (\E o \in Ops : Arrive(c, o)) \/ Reply(c) \/ Save(c) \/ SaveFails(c)
      PROVE FeeInv' /\ PaidOncePerText'
  <2>1. /\ UNCHANGED <<charges, cache, clock, restarts, lock>>
        /\ \A d \in Conns : lock = d => conn'[d] = conn[d]
    BY <1>1, OtherStepsAnswers, OtherStepsKeepLock DEF LockInv
  <2> QED
    BY <1>a, <2>1 DEF FeeInv
<1>2. ASSUME NEW c \in Conns, Redeem(c) \/ Login(c) \/ Topup(c) \/ Deduct(c)
                                 \/ Suspend(c) \/ Unsuspend(c) \/ TranscribeEmpty(c)
      PROVE FeeInv' /\ PaidOncePerText'
  <2>1. UNCHANGED <<charges, cache>>
    BY <1>2 DEF Redeem, Login, Topup, Deduct, Suspend, Unsuspend, TranscribeEmpty, Refuse,
       historyVars
  <2>2. UNCHANGED <<clock, restarts>> /\ lock' = Free
    BY <1>2 DEF Redeem, Login, Topup, Deduct, Suspend, Unsuspend, TranscribeEmpty,
       HandlerFrame, Starts
  <2> QED
    BY <1>0, <1>a, <2>1, <2>2 DEF FeeInv
<1>3. ASSUME NEW c \in Conns, TranscribeStart(c) PROVE FeeInv' /\ PaidOncePerText'
  BY <1>3, <1>a, StartKeepsFees DEF TranscribeStart, Refuse, historyVars
<1>4. ASSUME NEW c \in Conns, TranscribeText(c) PROVE FeeInv' /\ PaidOncePerText'
  BY <1>4, TextKeepsFees
<1>5. CASE Restart
  <2>1. UNCHANGED <<charges, clock>> /\ restarts' = restarts + 1
    BY <1>5 DEF Restart, historyVars
  <2> QED
    BY <1>0, <1>a, <2>1 DEF FeeInv
<1>6. CASE Tick
  BY <1>0, <1>6, <1>a DEF Tick, FeeInv, historyVars
<1>7. CASE UNCHANGED vars
  BY <1>7, <1>a DEF vars, FeeInv, historyVars
<1> QED
  BY <1>1, <1>2, <1>3, <1>4, <1>5, <1>6, <1>7 DEF Next, Thread, Handler

-----------------------------------------------------------------------------
(* The panel's balances as sums of what survived.                          *)

\* Booked with the connections as an argument.
BookedBy(cn, C, a) == SumFunctionOnSet([c \in C |-> Effect(cn[c].op, a)], C)

(***************************************************************************)
(* What an operation does to a balance is a number.                        *)
(***************************************************************************)
LEMMA EffectIsInt ==
  ASSUME NEW op \in Ops, NEW a \in Accounts
  PROVE  Effect(op, a) \in Int
<1>1. /\ op.kind \in {"redeem", "topup", "deduct"} => op.amount \in Nat
      /\ op.kind = "transcribe" => Cost[op.audio] \in Nat
  BY OpShape
<1>2. CASE op.account # a
  BY <1>2 DEF Effect
<1>3. CASE op.account = a /\ op.kind \in {"redeem", "topup"}
  BY <1>1, <1>3 DEF Effect
<1>4. CASE op.account = a /\ op.kind = "deduct"
  BY <1>1, <1>4 DEF Effect
<1>5. CASE op.account = a /\ op.kind = "transcribe"
  BY <1>1, <1>5 DEF Effect
<1>6. CASE op.account = a /\ op.kind \notin {"redeem", "topup", "deduct", "transcribe"}
  BY <1>6 DEF Effect
<1> QED
  BY <1>2, <1>3, <1>4, <1>5, <1>6

(***************************************************************************)
(* The sum over the same connections is the same when they keep what they  *)
(* asked for, however far their threads have come.                         *)
(***************************************************************************)
LEMMA BookedKept ==
  ASSUME NEW cn, NEW cm, NEW C, IsFiniteSet(C), NEW a \in Accounts,
         \A c \in C : cn[c].op \in Ops /\ cm[c].op = cn[c].op
  PROVE  BookedBy(cm, C, a) = BookedBy(cn, C, a)
<1> DEFINE f == [c \in C |-> Effect(cn[c].op, a)]
           g == [c \in C |-> Effect(cm[c].op, a)]
<1>1. ASSUME NEW c \in C PROVE f[c] \in Int /\ f[c] = g[c]
  BY EffectIsInt
<1>2. BookedBy(cn, C, a) = SumFunctionOnSet(f, C) /\ BookedBy(cm, C, a) = SumFunctionOnSet(g, C)
  BY DEF BookedBy
<1> HIDE DEF f, g
<1>3. SumFunctionOnSet(f, C) = SumFunctionOnSet(g, C)
  BY <1>1, SumCong
<1> QED
  BY <1>2, <1>3

(***************************************************************************)
(* A further connection adds its effect.                                   *)
(***************************************************************************)
LEMMA BookedAdds ==
  ASSUME NEW cn, NEW cm, NEW C, IsFiniteSet(C), NEW a \in Accounts,
         NEW d, d \notin C,
         \A c \in C \cup {d} : cn[c].op \in Ops /\ cm[c].op = cn[c].op
  PROVE  BookedBy(cm, C \cup {d}, a) = BookedBy(cn, C, a) + Effect(cn[d].op, a)
<1> DEFINE D == C \cup {d}
           f == [c \in C |-> Effect(cn[c].op, a)]
           g == [c \in D |-> Effect(cm[c].op, a)]
<1>1. ASSUME NEW c \in D PROVE g[c] \in Int /\ g[c] = Effect(cn[c].op, a)
  BY EffectIsInt
<1>2. ASSUME NEW c \in C PROVE g[c] \in Int /\ g[c] = f[c]
  BY <1>1
<1>3. BookedBy(cn, C, a) = SumFunctionOnSet(f, C) /\ BookedBy(cm, D, a) = SumFunctionOnSet(g, D)
  BY DEF BookedBy
<1>4. g[d] = Effect(cn[d].op, a) /\ g[d] \in Int
  BY <1>1
<1> HIDE DEF f, g
<1>5. SumFunctionOnSet(g, D) = SumFunctionOnSet(g, C) + g[d]
  BY <1>2, <1>4, SumInsert
<1>6. SumFunctionOnSet(g, C) = SumFunctionOnSet(f, C)
  BY <1>2, SumCong
<1> QED
  BY <1>3, <1>4, <1>5, <1>6

(***************************************************************************)
(* A handler moves the panel's balances by its effect and counts as        *)
(* applied, or does neither; it books for members only.                    *)
(***************************************************************************)
LEMMA HandlerBooks ==
  ASSUME TypeInv, LockInv, HoldInv, FreshInv, SurvivalInv, NEW c \in Conns, Handler(c)
  PROVE  /\ registered \subseteq registered'
         /\ conn'[c].pc = "working" => conn[c].op.account \in registered'
         /\ \A a \in Accounts \ registered' : panelBalance'[a] = 0
         /\ \/ /\ applied' = applied
               /\ NoDeductionAfterRestart => panelBalance' = panelBalance
            \/ /\ applied' = applied \cup {c}
               /\ conn'[c].pc = "answered"
               /\ \A a \in Accounts :
                    panelBalance'[a] = panelBalance[a] + Effect(conn[c].op, a)
<1> DEFINE op == conn[c].op
<1>0. /\ conn \in [Conns -> ConnRec] /\ panelBalance \in [Accounts -> Int]
      /\ balance \in [Accounts -> Nat] /\ restarts \in Nat
  BY DEF TypeInv, TypeOK, BookTypeOK, ConnRec, Pcs, Replies
<1>1. conn[c].pc \in {"arrived", "working"} /\ op \in Ops
  BY HandlerMovesConn DEF LockInv
<1>2. /\ op.account \in Accounts
      /\ op.kind \in {"redeem", "topup", "deduct"} => op.amount \in Nat
      /\ op.kind = "transcribe" => Cost[op.audio] \in Nat \ {0}
  BY <1>1, OpShape
<1>3. \A a \in Accounts \ registered : panelBalance[a] = 0
  BY DEF SurvivalInv
<1>4. ASSUME NEW r, Answer(c, r) PROVE conn'[c].pc = "answered"
  BY <1>0, <1>4 DEF Answer, ConnRec
<1>5. \A a \in Accounts : op.account # a => Effect(op, a) = 0
  BY DEF Effect
<1>6. op.kind \notin {"redeem", "topup", "deduct", "transcribe"} =>
        \A a \in Accounts : Effect(op, a) = 0
  BY DEF Effect
<1>7. op.kind \in {"redeem", "topup"} => Effect(op, op.account) = op.amount
  BY DEF Effect
<1> HIDE DEF op
<1>8. CASE Redeem(c)
  <2>1. op.kind = "redeem" /\ lock = Free
    BY <1>8 DEF Redeem, Starts, op
  <2>2. CASE Refuse(c) /\ UNCHANGED <<registered, panelBalance>>
    BY <1>3, <1>4, <2>2 DEF Refuse
  <2>3. CASE op.account \notin registered
    <3>1. /\ registered' = registered \cup {op.account} /\ Done(c)
          /\ panelBalance' = [panelBalance EXCEPT ![op.account] = op.amount]
      BY <1>8, <2>3 DEF Redeem, op
    <3>2. applied' = applied \cup {c} /\ conn'[c].pc = "answered"
      BY <1>4, <3>1 DEF Done
    <3>3. panelBalance[op.account] = 0
      BY <1>2, <1>3, <2>3
    <3>4. ASSUME NEW a \in Accounts
          PROVE  panelBalance'[a] = panelBalance[a] + Effect(op, a)
      <4>1. CASE a = op.account
        BY <1>0, <1>2, <1>7, <2>1, <3>1, <3>3, <4>1
      <4>2. CASE a # op.account
        BY <1>0, <1>5, <3>1, <4>2
      <4> QED
        BY <4>1, <4>2
    <3>5. \A a \in Accounts \ registered' : panelBalance'[a] = 0
      BY <1>0, <1>3, <3>1
    <3> QED
      BY <3>1, <3>2, <3>4, <3>5 DEF op
  <2> QED
    BY <1>8, <2>2, <2>3 DEF Redeem, Refuse, authVars, panelVars, op
<1>9. CASE Topup(c)
  <2>1. op.kind = "topup"
    BY <1>9 DEF Topup, Starts, op
  <2>2. CASE Refuse(c) /\ UNCHANGED <<registered, panelBalance>>
    BY <1>3, <1>4, <2>2 DEF Refuse
  <2>3. CASE /\ op.account \in registered /\ Done(c) /\ UNCHANGED registered
             /\ panelBalance' = [panelBalance EXCEPT ![op.account] = @ + op.amount]
    <3>1. applied' = applied \cup {c} /\ conn'[c].pc = "answered"
      BY <1>4, <2>3 DEF Done
    <3>2. ASSUME NEW a \in Accounts
          PROVE  panelBalance'[a] = panelBalance[a] + Effect(op, a)
      <4>1. CASE a = op.account
        BY <1>0, <1>2, <1>7, <2>1, <2>3, <4>1
      <4>2. CASE a # op.account
        BY <1>0, <1>5, <2>3, <4>2
      <4> QED
        BY <4>1, <4>2
    <3>3. \A a \in Accounts \ registered' : panelBalance'[a] = 0
      BY <1>0, <1>3, <2>3
    <3> QED
      BY <2>3, <3>1, <3>2, <3>3 DEF op
  <2> QED
    BY <1>9, <2>2, <2>3 DEF Topup, Refuse, authVars, panelVars, op
<1>10. CASE Deduct(c)
  <2>1. op.kind = "deduct" /\ lock = Free
    BY <1>10 DEF Deduct, Starts, op
  <2>2. CASE Refuse(c) /\ UNCHANGED <<registered, panelBalance>>
    BY <1>3, <1>4, <2>2 DEF Refuse
  <2>3. CASE /\ op.account \in registered /\ op.amount > 0 /\ UNCHANGED registered
             /\ op.amount <= panelBalance[op.account]
             /\ panelBalance' = [panelBalance EXCEPT ![op.account] = @ - op.amount]
             /\ \/ Done(c)
                \/ /\ balance[op.account] < op.amount
                   /\ Answer(c, "refused") /\ UNCHANGED applied
    <3>1. Effect(op, op.account) = 0 - op.amount
      BY <2>1 DEF Effect
    <3>2. ASSUME NEW a \in Accounts
          PROVE  panelBalance'[a] = panelBalance[a] + Effect(op, a)
      <4>1. CASE a = op.account
        BY <1>0, <1>2, <2>1, <2>3, <3>1, <4>1
      <4>2. CASE a # op.account
        BY <1>0, <1>5, <2>3, <4>2
      <4> QED
        BY <4>1, <4>2
    <3>3. \A a \in Accounts \ registered' : panelBalance'[a] = 0
      BY <1>0, <1>3, <2>3
    <3>4. CASE Done(c)
      <4>1. applied' = applied \cup {c} /\ conn'[c].pc = "answered"
        BY <1>4, <3>4 DEF Done
      <4> QED
        BY <2>3, <3>2, <3>3, <4>1 DEF op
    <3>5. CASE balance[op.account] < op.amount /\ Answer(c, "refused") /\ UNCHANGED applied
      <4>1. onHold[op.account] = 0
        BY <1>2, <2>1 DEF HoldInv, NothingHeldBetweenHandlers
      <4>2. ~NoDeductionAfterRestart
        <5>1. restarts = 0 => panelBalance[op.account] = balance[op.account]
          BY <1>0, <1>2, <2>3, <4>1 DEF FreshInv
        <5>2. restarts # 0
          BY <1>0, <1>2, <2>1, <2>3, <3>5, <5>1
        <5>3. op \in Ops
          BY <1>1 DEF op
        <5> QED
          BY <2>1, <5>2, <5>3 DEF NoDeductionAfterRestart
      <4> QED
        BY <1>4, <2>3, <3>3, <3>5, <4>2 DEF op
    <3> QED
      BY <2>3, <3>4, <3>5
  <2> QED
    BY <1>10, <2>2, <2>3 DEF Deduct, Refuse, authVars, panelVars, op
<1>11. CASE Login(c) \/ Suspend(c) \/ Unsuspend(c)
  <2>1. op.kind \in {"login", "suspend", "unsuspend"}
    BY <1>11 DEF Login, Suspend, Unsuspend, Starts, op
  <2>2. UNCHANGED <<registered, panelBalance>>
    BY <1>11 DEF Login, Suspend, Unsuspend, Refuse, authVars, panelVars
  <2>3. Refuse(c) \/ Done(c)
    BY <1>11 DEF Login, Suspend, Unsuspend
  <2>4. ASSUME NEW a \in Accounts
        PROVE  panelBalance'[a] = panelBalance[a] + Effect(op, a)
    BY <1>0, <1>6, <2>1, <2>2
  <2> QED
    BY <1>3, <1>4, <2>2, <2>3, <2>4 DEF Refuse, Done, op
<1>12. CASE TranscribeStart(c)
  <2>1. UNCHANGED <<registered, panelBalance, applied>>
    BY <1>12 DEF TranscribeStart, Refuse, authVars, panelVars
  <2>2. Accepted(op) \/ \E r : Answer(c, r)
    BY <1>12 DEF TranscribeStart, Refuse, op
  <2>3. conn'[c].pc = "working" => op.account \in registered
    BY <1>4, <2>2 DEF Accepted
  <2> QED
    BY <1>3, <2>1, <2>3 DEF op
<1>13. CASE TranscribeText(c)
  <2>1. op.kind = "transcribe" /\ op.account \in registered
    BY <1>13 DEF TranscribeText, LockInv, SurvivalInv, op
  <2>2. /\ UNCHANGED registered
        /\ applied' = applied \cup {c} /\ Answer(c, "text")
        /\ panelBalance' = [panelBalance EXCEPT ![op.account] = @ - Cost[op.audio]]
    BY <1>13 DEF TranscribeText, authVars, op
  <2>3. Effect(op, op.account) = 0 - Cost[op.audio]
    BY <2>1 DEF Effect
  <2>4. ASSUME NEW a \in Accounts
        PROVE  panelBalance'[a] = panelBalance[a] + Effect(op, a)
    <3>1. CASE a = op.account
      BY <1>0, <1>2, <2>1, <2>2, <2>3, <3>1
    <3>2. CASE a # op.account
      BY <1>0, <1>5, <2>2, <3>2
    <3> QED
      BY <3>1, <3>2
  <2>5. \A a \in Accounts \ registered' : panelBalance'[a] = 0
    BY <1>0, <1>3, <2>1, <2>2
  <2> QED
    BY <1>4, <2>2, <2>4, <2>5 DEF op
<1>14. CASE TranscribeEmpty(c)
  <2>1. UNCHANGED <<registered, panelBalance, applied>> /\ Answer(c, "empty")
    BY <1>14 DEF TranscribeEmpty, authVars, panelVars
  <2> QED
    BY <1>3, <1>4, <2>1
<1> QED
  BY <1>8, <1>9, <1>10, <1>11, <1>12, <1>13, <1>14 DEF Handler

(***************************************************************************)
(* The panel, in memory and on disk, is the sum of what is applied there.  *)
(***************************************************************************)
LEMMA NextSurvivalInv ==
  TypeInv /\ LockInv /\ HoldInv /\ FreshInv /\ SurvivalInv /\ [Next]_vars => SurvivalInv'
<1> SUFFICES ASSUME TypeInv, LockInv, HoldInv, FreshInv, SurvivalInv, [Next]_vars
             PROVE  SurvivalInv'
  OBVIOUS
<1>0. /\ applied \subseteq Conns /\ disk.applied \subseteq Conns
      /\ panelBalance \in [Accounts -> Int] /\ restarts \in Nat
  BY DEF TypeInv, TypeOK, DiskOK
<1>a. /\ IsFiniteSet(applied) /\ IsFiniteSet(disk.applied)
      /\ \A c \in applied \cup disk.applied : conn[c].pc \notin {"new", "arrived", "working"}
      /\ \A c \in applied \cup disk.applied : conn[c].op \in Ops
  BY <1>0 DEF SurvivalInv, LockInv
<1>b. \A a \in Accounts :
        /\ Booked(applied, a) = BookedBy(conn, applied, a)
        /\ Booked(disk.applied, a) = BookedBy(conn, disk.applied, a)
  BY DEF Booked, BookedBy
<1>c. \A a \in Accounts :
        /\ Booked(applied, a)' = BookedBy(conn', applied', a)
        /\ Booked(disk.applied, a)' = BookedBy(conn', disk'.applied, a)
  BY DEF Booked, BookedBy
<1>d. NoDeductionAfterRestart =>
        \A a \in Accounts : /\ panelBalance[a] = BookedBy(conn, applied, a)
                            /\ disk.panelBalance[a] = BookedBy(conn, disk.applied, a)
  BY <1>b DEF SurvivalInv
<1>1. ASSUME NEW c \in Conns,
             (\E o \in Ops : Arrive(c, o)) \/ Reply(c) \/ Save(c) \/ SaveFails(c)
      PROVE SurvivalInv'
  <2>1. /\ UNCHANGED <<registered, panelBalance, applied, restarts>>
        /\ UNCHANGED disk \/ disk' = Memory
    BY <1>1 DEF Arrive, Reply, Save, SaveFails, authVars, panelVars
  <2>2. /\ disk'.applied \in {applied, disk.applied}
        /\ \/ UNCHANGED disk
           \/ /\ disk'.applied = applied /\ disk'.registered = registered
              /\ disk'.panelBalance = panelBalance
    BY <2>1 DEF Memory
  <2>3. \A d \in applied \cup disk.applied : conn'[d].op = conn[d].op
    BY <1>0, <1>1, <1>a, OtherStepsKeepLock
  <2>4. \A d \in applied \cup disk.applied :
          conn'[d].pc \notin {"new", "arrived", "working"}
    BY <1>0, <1>1, <1>a, OtherStepsKeepLock, OtherStepsAnswers
  <2>5. \A d \in Conns : conn'[d].pc = "working" => conn'[d].op.account \in registered
    BY <1>1, OtherStepsKeepLock DEF SurvivalInv
  <2>6. NoDeductionAfterRestart' => NoDeductionAfterRestart
    BY <2>1 DEF NoDeductionAfterRestart
  <2>7. ASSUME NEW a \in Accounts
        PROVE  /\ BookedBy(conn', applied, a) = BookedBy(conn, applied, a)
               /\ BookedBy(conn', disk.applied, a) = BookedBy(conn, disk.applied, a)
    BY <1>a, <2>3, BookedKept
  <2>8. ASSUME NoDeductionAfterRestart', NEW a \in Accounts
        PROVE  /\ panelBalance'[a] = BookedBy(conn', applied', a)
               /\ disk'.panelBalance[a] = BookedBy(conn', disk'.applied, a)
    BY <1>d, <2>1, <2>2, <2>6, <2>7, <2>8
  <2>9. /\ \A a \in Accounts \ registered' : panelBalance'[a] = 0
        /\ \A a \in Accounts \ disk'.registered : disk'.panelBalance[a] = 0
    BY <2>1, <2>2 DEF SurvivalInv
  <2>10. IsFiniteSet(applied') /\ IsFiniteSet(disk'.applied)
    BY <1>a, <2>1, <2>2
  <2>11. \A d \in applied' \cup disk'.applied : conn'[d].pc \notin {"new", "arrived", "working"}
    BY <2>1, <2>2, <2>4
  <2> QED
    BY <1>c, <2>1, <2>5, <2>8, <2>9, <2>10, <2>11 DEF SurvivalInv
<1>2. ASSUME NEW c \in Conns, Handler(c) PROVE SurvivalInv'
  <2>1. UNCHANGED <<disk, restarts>>
    BY <1>2, HandlerAnswers
  <2>2. c \notin applied /\ c \notin disk.applied /\ conn[c].op \in Ops
    BY <1>2, <1>a, HandlerMovesConn DEF LockInv
  <2>3. \A d \in Conns : conn'[d].op = conn[d].op
    BY <1>2, HandlerMovesConn
  <2>4. \A d \in applied \cup disk.applied : conn'[d] = conn[d]
    BY <1>0, <1>2, <2>2, HandlerMovesConn
  <2>a. \/ /\ applied' = applied
           /\ NoDeductionAfterRestart => panelBalance' = panelBalance
        \/ /\ applied' = applied \cup {c}
           /\ conn'[c].pc = "answered"
           /\ \A a \in Accounts :
                panelBalance'[a] = panelBalance[a] + Effect(conn[c].op, a)
    BY <1>2, HandlerBooks, Zenon
  <2>5. \/ applied' = applied
        \/ applied' = applied \cup {c} /\ conn'[c].pc = "answered"
    BY <2>a
  <2>6. IsFiniteSet(applied') /\ IsFiniteSet(disk'.applied)
    BY <1>a, <2>1, <2>5, FS_AddElement
  <2>7. \A d \in applied' \cup disk'.applied : conn'[d].pc \notin {"new", "arrived", "working"}
    BY <1>a, <2>1, <2>4, <2>5
  <2>8. \A d \in Conns : conn'[d].pc = "working" => conn'[d].op.account \in registered'
    <3>1. conn'[c].pc = "working" => conn'[c].op.account \in registered'
      BY <1>2, <2>3, HandlerBooks
    <3>2. registered \subseteq registered' /\ \A d \in Conns \ {c} : conn'[d] = conn[d]
      BY <1>2, HandlerBooks, HandlerMovesConn
    <3> QED
      BY <3>1, <3>2 DEF SurvivalInv
  <2>9. /\ \A a \in Accounts \ registered' : panelBalance'[a] = 0
        /\ \A a \in Accounts \ disk'.registered : disk'.panelBalance[a] = 0
    BY <1>2, <2>1, HandlerBooks DEF SurvivalInv
  <2>10. NoDeductionAfterRestart' => NoDeductionAfterRestart
    BY <2>1 DEF NoDeductionAfterRestart
  <2>11. ASSUME NoDeductionAfterRestart', NEW a \in Accounts
         PROVE  /\ panelBalance'[a] = BookedBy(conn', applied', a)
                /\ disk'.panelBalance[a] = BookedBy(conn', disk'.applied, a)
    <3>1. BookedBy(conn', disk.applied, a) = BookedBy(conn, disk.applied, a)
      BY <1>0, <1>a, <2>3, BookedKept
    <3>2. CASE applied' = applied /\ panelBalance' = panelBalance
      <4>1. BookedBy(conn', applied, a) = BookedBy(conn, applied, a)
        BY <1>0, <1>a, <2>3, BookedKept
      <4> QED
        BY <1>d, <2>1, <2>10, <2>11, <3>1, <3>2, <4>1
    <3>3. CASE /\ applied' = applied \cup {c}
               /\ panelBalance'[a] = panelBalance[a] + Effect(conn[c].op, a)
      <4>1. BookedBy(conn', applied \cup {c}, a)
              = BookedBy(conn, applied, a) + Effect(conn[c].op, a)
        BY <1>0, <1>a, <2>2, <2>3, BookedAdds
      <4> QED
        BY <1>d, <2>1, <2>10, <2>11, <3>1, <3>3, <4>1
    <3> QED
      BY <2>a, <2>10, <2>11, <3>2, <3>3
  <2> QED
    BY <1>c, <2>6, <2>7, <2>8, <2>9, <2>11 DEF SurvivalInv
<1>3. CASE Restart
  <2>1. /\ registered' = disk.registered /\ panelBalance' = disk.panelBalance
        /\ applied' = disk.applied /\ UNCHANGED disk
        /\ restarts' = restarts + 1
    BY <1>3 DEF Restart
  <2>2. \A d \in Conns : /\ conn'[d].op = conn[d].op
                         /\ conn'[d].pc # "working"
                         /\ conn'[d].pc \in {"new", "arrived"} => conn[d].pc = conn'[d].pc
    BY <1>3, RestartEndsConns
  <2>3. NoDeductionAfterRestart' => NoDeductionAfterRestart
    BY <1>0, <2>1 DEF NoDeductionAfterRestart
  <2>4. ASSUME NoDeductionAfterRestart', NEW a \in Accounts
        PROVE  disk.panelBalance[a] = BookedBy(conn', disk.applied, a)
    <3>1. BookedBy(conn', disk.applied, a) = BookedBy(conn, disk.applied, a)
      BY <1>0, <1>a, <2>2, BookedKept
    <3> QED
      BY <1>d, <2>3, <2>4, <3>1
  <2>5. \A d \in applied' \cup disk'.applied : conn'[d].pc \notin {"new", "arrived", "working"}
    BY <1>0, <1>a, <2>1, <2>2
  <2>6. \A a \in Accounts \ disk.registered : disk.panelBalance[a] = 0
    BY DEF SurvivalInv
  <2> QED
    BY <1>a, <1>c, <2>1, <2>2, <2>4, <2>5, <2>6 DEF SurvivalInv
<1>4. CASE Tick \/ UNCHANGED vars
  <2>1. UNCHANGED <<registered, panelBalance, applied, restarts, disk, conn>>
    BY <1>4 DEF Tick, vars, authVars, panelVars
  <2>2. NoDeductionAfterRestart' => NoDeductionAfterRestart
    BY <2>1 DEF NoDeductionAfterRestart
  <2> QED
    BY <1>a, <1>c, <1>d, <2>1, <2>2 DEF SurvivalInv
<1> QED
  BY <1>1, <1>2, <1>3, <1>4 DEF Next, Thread

-----------------------------------------------------------------------------
(* The theorems.                                                           *)

\* The inductive invariant.
IInv ==
  /\ TypeInv
  /\ LockInv
  /\ TokenInv
  /\ HoldInv
  /\ FreshInv
  /\ ChargeInv
  /\ AnswerInv
  /\ DurableInv
  /\ SurvivalInv

(***************************************************************************)
(* The inductive invariant holds when the process starts for the first     *)
(* time.                                                                   *)
(***************************************************************************)
LEMMA InitIInv == Init => IInv
<1> SUFFICES ASSUME Init PROVE IInv
  OBVIOUS
<1>0. \A c \in Conns : c # Free
  BY BrokerAssumption
<1>1. TypeInv
  BY InitTypeInv
<1>2. \A c \in Conns : conn[c].pc = "new" /\ conn[c].reply = None /\ conn[c].now = 0
  BY DEF Init, NewConn
<1>3. LockInv /\ AnswerInv /\ DurableInv
  BY <1>0, <1>2 DEF Init, LockInv, AnswerInv, DurableInv, None
<1>4. TokenInv /\ HoldInv /\ FreshInv
  BY <1>0 DEF Init, BookInit, TokenInv, HoldInv, NothingHeldBetweenHandlers, FreshInv
<1>5. ChargeInv
  BY <1>2 DEF Init, ChargeInv, WaitInv, FeeInv, PaidOncePerText
<1>6. SurvivalInv
  <2>1. ASSUME NEW a \in Accounts PROVE Booked({}, a) = 0
    BY SumEmpty DEF Booked
  <2>2. disk.applied = {} /\ applied = {} /\ IsFiniteSet({})
    BY FS_EmptySet DEF Init, Memory
  <2>3. \A a \in Accounts : panelBalance[a] = 0 /\ disk.panelBalance[a] = 0
    BY DEF Init, Memory
  <2>4. \A a \in Accounts : Booked(applied, a) = 0 /\ Booked(disk.applied, a) = 0
    BY <2>1, <2>2
  <2> QED
    BY <1>2, <2>2, <2>3, <2>4 DEF SurvivalInv
<1> QED
  BY <1>1, <1>3, <1>4, <1>5, <1>6 DEF IInv

(***************************************************************************)
(* The inductive invariant holds always.                                   *)
(***************************************************************************)
THEOREM Invariance == Spec => []IInv
<1>1. IInv /\ [Next]_vars => IInv'
  BY NextTypeInv, NextLockInv, NextTokenInv, NextHoldInv, NextFreshInv, NextChargeInv,
     NextAnswerInv, NextDurableInv, NextSurvivalInv DEF IInv
<1> QED
  BY <1>1, InitIInv, PTL DEF Spec

(***************************************************************************)
(* The broker is always well typed: no balance, hold or fee of the ledger  *)
(* is ever negative.                                                       *)
(***************************************************************************)
THEOREM TypeCorrect == Spec => []TypeOK
<1>1. IInv => TypeOK
  BY DEF IInv, TypeInv
<1> QED
  BY <1>1, Invariance, PTL

(***************************************************************************)
(* The handlers, in whatever order the mutex admits them, use the ledger   *)
(* only as the account book of AccountBook.tla is specified, so that what  *)
(* the ledger is proved to implement is all they rely on; a restart opens  *)
(* an empty book instead.                                                  *)
(***************************************************************************)
THEOREM BrokerKeepsTheBook ==
  Spec => BookInit /\ [][Restart \/ BookNext \/ UNCHANGED bookVars]_vars
<1>1. Init => BookInit
  BY DEF Init
<1>2. IInv /\ [Next]_vars => [Restart \/ BookNext \/ UNCHANGED bookVars]_vars
  BY StepUsesBook DEF IInv
<1> QED
  BY <1>1, <1>2, Invariance, PTL DEF Spec

(***************************************************************************)
(* Every fee is taken for a token that is still accepted when it is taken, *)
(* however long the worker was at it and whatever was asked meanwhile.     *)
(***************************************************************************)
THEOREM FeesNeedLiveTokens == Spec => FeeNeedsLiveToken
<1>1. IInv /\ [Next]_vars => [\A x \in charges' \ charges : Accepted(conn[x.by].op)]_vars
  <2> SUFFICES ASSUME IInv, [Next]_vars, NEW x \in charges' \ charges
               PROVE  Accepted(conn[x.by].op)
    OBVIOUS
  <2>1. TypeInv /\ LockInv /\ TokenInv
    BY DEF IInv
  <2>2. PICK c \in Conns : TranscribeText(c)
    <3>1. ASSUME NEW c \in Conns, Handler(c), charges' # charges PROVE TranscribeText(c)
      BY <3>1 DEF Handler, Redeem, Login, Topup, Deduct, Suspend, Unsuspend,
         TranscribeStart, TranscribeEmpty, Refuse, historyVars
    <3>2. ASSUME NEW c \in Conns,
                 (\E o \in Ops : Arrive(c, o)) \/ Reply(c) \/ Save(c) \/ SaveFails(c)
          PROVE  charges' = charges
      BY <2>1, <3>2, OtherStepsAnswers
    <3>3. Restart \/ Tick \/ UNCHANGED vars => charges' = charges
      BY DEF Restart, Tick, vars, historyVars
    <3> QED
      BY <3>1, <3>2, <3>3 DEF Next, Thread
  <2>3. x.by = c /\ lock = c
    BY <2>1, <2>2 DEF TranscribeText, LockInv
  <2> QED
    BY <2>1, <2>3 DEF TokenInv
<1> QED
  BY <1>1, Invariance, PTL DEF Spec, FeeNeedsLiveToken

(***************************************************************************)
(* Nothing is on hold while the mutex is free.                             *)
(***************************************************************************)
THEOREM NothingHeld == Spec => []NothingHeldBetweenHandlers
<1>1. IInv => NothingHeldBetweenHandlers
  BY DEF IInv, HoldInv
<1> QED
  BY <1>1, Invariance, PTL

(***************************************************************************)
(* The panel's balances are the ledger's until the first restart.          *)
(***************************************************************************)
THEOREM PanelFollows == Spec => []PanelFollowsLedger
<1>1. IInv => PanelFollowsLedger
  <2> SUFFICES ASSUME IInv, restarts = 0, lock = Free, NEW a \in registered
               PROVE  panelBalance[a] = balance[a]
    BY DEF PanelFollowsLedger, PanelMatchesLedger
  <2>1. a \in Accounts /\ balance[a] \in Nat
    BY DEF IInv, TypeInv, TypeOK, BookTypeOK
  <2>2. onHold[a] = 0
    BY <2>1 DEF IInv, HoldInv, NothingHeldBetweenHandlers
  <2> QED
    BY <2>1, <2>2 DEF IInv, FreshInv
<1> QED
  BY <1>1, Invariance, PTL

(***************************************************************************)
(* A member pays once for a text.                                          *)
(***************************************************************************)
THEOREM PaidOnce == Spec => []PaidOncePerText
<1>1. IInv => PaidOncePerText
  BY DEF IInv, ChargeInv
<1> QED
  BY <1>1, Invariance, PTL

(***************************************************************************)
(* The answer tells whether a fee was taken.                               *)
(***************************************************************************)
THEOREM AnswersTellTheFee == Spec => []AnswerTellsTheFee
<1>1. IInv => AnswerTellsTheFee
  BY DEF IInv, AnswerInv, AnswerTellsTheFee
<1> QED
  BY <1>1, Invariance, PTL

(***************************************************************************)
(* What a thread that has ended did survives every restart.                *)
(***************************************************************************)
THEOREM OpsAreDurable == Spec => []CompletedOpsAreDurable
<1>1. IInv => CompletedOpsAreDurable
  BY DEF IInv, DurableInv, CompletedOpsAreDurable
<1> QED
  BY <1>1, Invariance, PTL

(***************************************************************************)
(* The panel's balances are the sum of the operations that survived, until *)
(* a deduction meets the ledger a restart has emptied: through every first *)
(* life of the process, and, where nobody deducts, through any number of   *)
(* restarts.                                                               *)
(***************************************************************************)
THEOREM PanelBooksSurvivors ==
  Spec => [](NoDeductionAfterRestart => PanelBooksWhatSurvived)
<1>1. IInv => (NoDeductionAfterRestart => PanelBooksWhatSurvived)
  BY DEF IInv, SurvivalInv, PanelBooksWhatSurvived
<1> QED
  BY <1>1, Invariance, PTL
=============================================================================
