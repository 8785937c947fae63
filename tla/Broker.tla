------------------------------- MODULE Broker -------------------------------
(***************************************************************************)
(* The broker of crates/broker: one thread per connection, one mutex       *)
(* around the whole state, the ledger (AccountBook) beside the balances    *)
(* the admin panel keeps for itself, the result cache, and a snapshot file *)
(* that a thread writes after it has answered.                             *)
(*                                                                         *)
(* A connection reads the wall clock, waits for the mutex, runs its        *)
(* handler, lets go of the mutex, sends the reply, takes the mutex again   *)
(* and writes the snapshot.  A transcription holds the mutex from its      *)
(* first check until the worker has answered, and is two steps because the *)
(* process can die in between.  A restart loads the snapshot; the ledger,  *)
(* the cache and the connections start empty.                              *)
(*                                                                         *)
(* Not modelled here: token expiry and devices (AuthStore.tla), the queue  *)
(* and the route: a job is pushed, popped and given the home lane in one   *)
(* handler (ServedAtOnce of Dispatch.tla), so the refusals of the queue    *)
(* and the way out for the fallback lane are never taken.                  *)
(***************************************************************************)
EXTENDS AccountBook, FiniteSets, Functions

CONSTANTS Conns,      \* connections, each carries one request
          Audios,     \* recordings
          Cost,       \* Cost[u]: the quote for the billable seconds of u
          Quantum,    \* quantum_cost_kurus: the quote for the least billable
          Ops,        \* the requests the connections carry
          ResultTTL,  \* RESULT_CACHE_TTL_SECS
          MaxLag,     \* how long a connection waits for the mutex
          MaxClock,   \* bound: last instant modelled
          MaxRestarts \* bound: crashes

Free == "free"
None == "none"
NoOp == [kind |-> "none"]

Key == Accounts \X Requests \X Audios

\* `gen' is the generation in the access token the member presents.
Op == [kind : {"redeem", "topup", "deduct"}, account : Accounts, amount : Amounts]
        \cup [kind : {"login", "suspend", "unsuspend"}, account : Accounts]
        \cup [kind : {"transcribe"}, account : Accounts, request : Requests,
              audio : Audios, gen : Nat]

ASSUME BrokerAssumption ==
  /\ Cost \in [Audios -> Amounts \ {0}]
  /\ \A u \in Audios : Quantum \in Nat /\ Quantum <= Cost[u]
  /\ Ops \subseteq Op
  /\ ResultTTL \in Nat \ {0}
  /\ {MaxLag, MaxClock, MaxRestarts} \subseteq Nat
  /\ Free \notin Conns

VARIABLES registered,    \* the accounts of whisper-auth and of the panel
          generation,    \* generation[a] of whisper-auth
          suspended,     \* accounts stopped in both
          panelBalance,  \* panel balance_krs of a
          spent,         \* what panel.spend adds up to
          cache,         \* key -> time its text was stored
          lock,          \* who holds the mutex
          conn,          \* conn[c]: where the thread of c is, with what
          clock,         \* the wall clock
          disk,          \* the snapshot file
          restarts,      \* history: how many restarts there were
          applied,       \* history: connections whose effect is in memory
          tokens,        \* history: tokens[a], generations tokens were issued with
          charges        \* history: every fee taken, by whom, for what, when

authVars == <<registered, generation, suspended>>
panelVars == <<panelBalance, spent>>
historyVars == <<tokens, charges>>
vars == <<bookVars, authVars, panelVars, cache, lock, conn, clock, disk,
          restarts, applied, historyVars>>

\* What save_snapshot writes and load_snapshot reads.
Memory == [registered |-> registered, generation |-> generation,
           suspended |-> suspended, panelBalance |-> panelBalance,
           spent |-> spent, applied |-> applied]

NewConn == [pc |-> "new", op |-> NoOp, now |-> 0, reply |-> None]

Init ==
  /\ BookInit
  /\ registered = {}
  /\ generation = [a \in Accounts |-> 0]
  /\ suspended = {}
  /\ panelBalance = [a \in Accounts |-> 0]
  /\ spent = 0
  /\ cache = [k \in {} |-> 0]
  /\ lock = Free
  /\ conn = [c \in Conns |-> NewConn]
  /\ clock = 0
  /\ restarts = 0
  /\ applied = {}
  /\ disk = Memory
  /\ tokens = [a \in Accounts |-> {}]
  /\ charges = {}

-----------------------------------------------------------------------------
(* The life of a connection.                                               *)

\* dispatch: the clock is read before the mutex is asked for.
Arrive(c, op) ==
  /\ conn[c].pc = "new"
  /\ op.kind = "transcribe" => op.gen \in tokens[op.account]
  /\ conn' = [conn EXCEPT ![c] = [pc |-> "arrived", op |-> op,
                                  now |-> clock, reply |-> None]]
  /\ UNCHANGED <<bookVars, authVars, panelVars, cache, lock, clock, disk,
                 restarts, applied, historyVars>>

\* The handler of c may start: c gets the mutex.
Starts(c, kind) ==
  /\ conn[c].pc = "arrived"
  /\ conn[c].op.kind = kind
  /\ lock = Free

Answer(c, reply) ==
  conn' = [conn EXCEPT ![c].pc = "answered", ![c].reply = reply]

Done(c) == Answer(c, "ok") /\ applied' = applied \cup {c}

Refuse(c) ==
  /\ Answer(c, "refused")
  /\ UNCHANGED <<bookVars, authVars, panelVars, cache, applied, historyVars>>

\* What no handler touches.
HandlerFrame == UNCHANGED <<clock, disk, restarts>>

-----------------------------------------------------------------------------
(* The handlers that run in one go.                                        *)

\* BrokerState::redeem, with the invitation's opening balance.
Redeem(c) ==
  /\ Starts(c, "redeem")
  /\ LET a == conn[c].op.account
         x == conn[c].op.amount
     IN \/ /\ a \in registered
           /\ Refuse(c)
        \/ /\ a \notin registered
           /\ registered' = registered \cup {a}
           /\ tokens' = [tokens EXCEPT ![a] = @ \cup {generation[a]}]
           /\ panelBalance' = [panelBalance EXCEPT ![a] = x]
           /\ IF x > 0 THEN Fund(a, x) ELSE UNCHANGED bookVars
           /\ Done(c)
           /\ UNCHANGED <<generation, suspended, spent, cache, charges>>
  /\ UNCHANGED lock /\ HandlerFrame

\* BrokerState::login: a new pair of the current generation.
Login(c) ==
  /\ Starts(c, "login")
  /\ LET a == conn[c].op.account
     IN \/ /\ a \notin registered \/ a \in suspended
           /\ Refuse(c)
        \/ /\ a \in registered \ suspended
           /\ tokens' = [tokens EXCEPT ![a] = @ \cup {generation[a]}]
           /\ Done(c)
           /\ UNCHANGED <<bookVars, authVars, panelVars, cache, charges>>
  /\ UNCHANGED lock /\ HandlerFrame

\* Mutant: the panel is not told.
TopupLedgerOnly(c) ==
  /\ Starts(c, "topup")
  /\ Fund(conn[c].op.account, conn[c].op.amount)
  /\ Done(c)
  /\ UNCHANGED <<authVars, panelVars, cache, historyVars, lock>> /\ HandlerFrame

\* BrokerState::topup: the panel first, then the ledger.
Topup(c) ==
  /\ Starts(c, "topup")
  /\ LET a == conn[c].op.account
         x == conn[c].op.amount
     IN \/ /\ a \notin registered \/ x = 0
           /\ Refuse(c)
        \/ /\ a \in registered
           /\ panelBalance' = [panelBalance EXCEPT ![a] = @ + x]
           /\ Fund(a, x)
           /\ Done(c)
           /\ UNCHANGED <<authVars, spent, cache, historyVars>>
  /\ UNCHANGED lock /\ HandlerFrame

\* BrokerState::deduct: the panel has already paid when the ledger refuses.
Deduct(c) ==
  /\ Starts(c, "deduct")
  /\ LET a == conn[c].op.account
         x == conn[c].op.amount
     IN \/ /\ a \notin registered \/ x = 0 \/ panelBalance[a] < x
           /\ Refuse(c)
        \/ /\ a \in registered /\ x > 0 /\ x <= panelBalance[a]
           /\ panelBalance' = [panelBalance EXCEPT ![a] = @ - x]
           /\ \/ /\ Withdraw(a, x)
                 /\ Done(c)
              \/ /\ balance[a] < x
                 /\ Answer(c, "refused")
                 /\ UNCHANGED <<bookVars, applied>>
           /\ UNCHANGED <<authVars, spent, cache, historyVars>>
  /\ UNCHANGED lock /\ HandlerFrame

\* BrokerState::suspend: panel and whisper-auth together.
Suspend(c) ==
  /\ Starts(c, "suspend")
  /\ LET a == conn[c].op.account
     IN \/ a \notin registered /\ Refuse(c)
        \/ /\ a \in registered
           /\ suspended' = suspended \cup {a}
           /\ generation' = [generation EXCEPT ![a] = @ + 1]
           /\ Done(c)
           /\ UNCHANGED <<bookVars, registered, panelVars, cache, historyVars>>
  /\ UNCHANGED lock /\ HandlerFrame

Unsuspend(c) ==
  /\ Starts(c, "unsuspend")
  /\ LET a == conn[c].op.account
     IN \/ a \notin registered /\ Refuse(c)
        \/ /\ a \in registered
           /\ suspended' = suspended \ {a}
           /\ Done(c)
           /\ UNCHANGED <<bookVars, registered, generation, panelVars, cache,
                          historyVars>>
  /\ UNCHANGED lock /\ HandlerFrame

-----------------------------------------------------------------------------
(* A transcription.                                                        *)

KeyOf(op) == <<op.account, op.request, op.audio>>

\* Mutant: a text stored in the same second is not found.
CachedBefore(k, now) ==
  k \in DOMAIN cache /\ now > cache[k] /\ now - cache[k] < ResultTTL

Cached(k, now) == k \in DOMAIN cache /\ now - cache[k] < ResultTTL

\* AuthStore::verify_access, as far as suspensions go.
Accepted(op) ==
  /\ op.account \in registered \ suspended
  /\ op.gen = generation[op.account]

\* A lookup that finds an expired text drops it.
CacheLookup(k, now) ==
  cache' = IF Cached(k, now) THEN cache
           ELSE [l \in DOMAIN cache \ {k} |-> cache[l]]

Affordable(op) ==
  /\ balance[op.account] >= Quantum
  /\ held[op.account][op.request] = 0
  /\ balance[op.account] >= Cost[op.audio]

\* Mutant: the mutex is let go while the worker is at it.
StartWithoutLock(c) ==
  /\ Starts(c, "transcribe")
  /\ Accepted(conn[c].op)
  /\ ~Cached(KeyOf(conn[c].op), conn[c].now)
  /\ Affordable(conn[c].op)
  /\ Hold(conn[c].op.account, conn[c].op.request, Cost[conn[c].op.audio])
  /\ conn' = [conn EXCEPT ![c].pc = "working"]
  /\ CacheLookup(KeyOf(conn[c].op), conn[c].now)
  /\ UNCHANGED <<lock, authVars, panelVars, applied, historyVars>> /\ HandlerFrame

\* BrokerState::transcribe up to the answer of the worker: refused for the
\* token, answered from the cache, refused before the hold, or put on hold.
\* The balance is one reason of the third kind; the provider's gate and the
\* panel's spending caps are others, and may refuse any recording here.
TranscribeStart(c) ==
  /\ Starts(c, "transcribe")
  /\ LET op == conn[c].op
         k == KeyOf(op)
     IN \/ /\ ~Accepted(op)
           /\ Refuse(c)
           /\ UNCHANGED lock
        \/ /\ Accepted(op)
           /\ CacheLookup(k, conn[c].now)
           /\ \/ /\ Cached(k, conn[c].now)
                 /\ Answer(c, "cached")
                 /\ UNCHANGED <<bookVars, lock>>
              \/ /\ ~Cached(k, conn[c].now)
                 /\ Answer(c, "refused")
                 /\ UNCHANGED <<bookVars, lock>>
              \/ /\ ~Cached(k, conn[c].now)
                 /\ Affordable(op)
                 /\ Hold(op.account, op.request, Cost[op.audio])
                 /\ conn' = [conn EXCEPT ![c].pc = "working"]
                 /\ lock' = c
           /\ UNCHANGED <<authVars, panelVars, applied, historyVars>>
  /\ HandlerFrame

\* Mutant: the fee is not booked by the panel.
TranscribeTextUnbooked(c) ==
  /\ conn[c].pc = "working"
  /\ LET op == conn[c].op
     IN /\ Charge(op.account, op.request, Cost[op.audio])
        /\ cache' = [k \in DOMAIN cache \cup {KeyOf(op)} |->
                       IF k = KeyOf(op) THEN conn[c].now ELSE cache[k]]
  /\ Answer(c, "text")
  /\ applied' = applied \cup {c}
  /\ lock' = Free
  /\ UNCHANGED <<authVars, panelVars, historyVars>> /\ HandlerFrame

\* The worker found text: the hold is charged, the panel books the fee, the
\* text is cached.
TranscribeText(c) ==
  /\ conn[c].pc = "working"
  /\ LET op == conn[c].op
         a == op.account
         x == Cost[op.audio]
     IN /\ Charge(a, op.request, x)
        /\ panelBalance' = [panelBalance EXCEPT ![a] = @ - x]
        /\ spent' = spent + x
        /\ cache' = [k \in DOMAIN cache \cup {KeyOf(op)} |->
                       IF k = KeyOf(op) THEN conn[c].now ELSE cache[k]]
        /\ charges' = charges \cup {[by |-> c, key |-> KeyOf(op),
                                     at |-> conn[c].now, boot |-> restarts]}
  /\ Answer(c, "text")
  /\ applied' = applied \cup {c}
  /\ lock' = Free
  /\ UNCHANGED <<authVars, tokens>> /\ HandlerFrame

\* Mutant: the hold stays.
EmptyKeepsHold(c) ==
  /\ conn[c].pc = "working"
  /\ Answer(c, "empty")
  /\ lock' = Free
  /\ UNCHANGED <<bookVars, authVars, panelVars, cache, applied, historyVars>> /\ HandlerFrame

\* Mutant: the mutex is not let go.
EmptyKeepsLock(c) ==
  /\ conn[c].pc = "working"
  /\ LET op == conn[c].op
     IN Return(op.account, op.request, held[op.account][op.request])
  /\ Answer(c, "empty")
  /\ UNCHANGED <<lock, authVars, panelVars, cache, applied, historyVars>> /\ HandlerFrame

\* The worker found nothing: the hold goes back, nothing is cached.
TranscribeEmpty(c) ==
  /\ conn[c].pc = "working"
  /\ LET op == conn[c].op
     IN Return(op.account, op.request, held[op.account][op.request])
  /\ Answer(c, "empty")
  /\ lock' = Free
  /\ UNCHANGED <<authVars, panelVars, cache, applied, historyVars>> /\ HandlerFrame

-----------------------------------------------------------------------------
(* After the handler.                                                      *)

\* respond: the client has the answer, the snapshot is not yet written.
Reply(c) ==
  /\ conn[c].pc = "answered"
  /\ conn' = [conn EXCEPT ![c].pc = "replied"]
  /\ UNCHANGED <<bookVars, authVars, panelVars, cache, lock, clock, disk,
                 restarts, applied, historyVars>>

\* Mutant: the file is left to the next thread that has answered.
SaveByLast(c) ==
  /\ conn[c].pc = "replied"
  /\ lock = Free
  /\ disk' = IF \E d \in Conns \ {c} : conn[d].pc = "replied" THEN disk ELSE Memory
  /\ conn' = [conn EXCEPT ![c].pc = "done"]
  /\ UNCHANGED <<bookVars, authVars, panelVars, cache, lock, clock, restarts,
                 applied, historyVars>>

\* save_snapshot: what is in memory now, under the mutex.
Save(c) ==
  /\ conn[c].pc = "replied"
  /\ lock = Free
  /\ disk' = Memory
  /\ conn' = [conn EXCEPT ![c].pc = "done"]
  /\ UNCHANGED <<bookVars, authVars, panelVars, cache, lock, clock, restarts,
                 applied, historyVars>>

\* The file cannot be written or renamed: logged, and the thread ends.
SaveFails(c) ==
  /\ conn[c].pc = "replied"
  /\ lock = Free
  /\ conn' = [conn EXCEPT ![c].pc = "unsaved"]
  /\ UNCHANGED <<bookVars, authVars, panelVars, cache, lock, clock, disk,
                 restarts, applied, historyVars>>

\* The process dies and is started again: BrokerState::new, load_snapshot.
Restart ==
  /\ restarts < MaxRestarts
  /\ restarts' = restarts + 1
  /\ registered' = disk.registered
  /\ generation' = disk.generation
  /\ suspended' = disk.suspended
  /\ panelBalance' = disk.panelBalance
  /\ spent' = disk.spent
  /\ applied' = disk.applied
  /\ NewBook
  /\ cache' = [k \in {} |-> 0]
  /\ lock' = Free
  /\ conn' = [c \in Conns |-> IF conn[c].pc \in {"new", "done", "unsaved"} THEN conn[c]
                              ELSE [conn[c] EXCEPT !.pc = "dead"]]
  /\ UNCHANGED <<clock, disk, historyVars>>

\* Time passes, but no connection waits for the mutex longer than MaxLag.
Tick ==
  /\ clock < MaxClock
  /\ \A c \in Conns : conn[c].pc = "arrived" => clock - conn[c].now < MaxLag
  /\ clock' = clock + 1
  /\ UNCHANGED <<bookVars, authVars, panelVars, cache, lock, conn, disk,
                 restarts, applied, historyVars>>

Handler(c) ==
  \/ Redeem(c)
  \/ Login(c)
  \/ Topup(c)
  \/ Deduct(c)
  \/ Suspend(c)
  \/ Unsuspend(c)
  \/ TranscribeStart(c)
  \/ TranscribeText(c)
  \/ TranscribeEmpty(c)

Thread(c) == Handler(c) \/ Reply(c) \/ Save(c) \/ SaveFails(c)

Next ==
  \/ \E c \in Conns : (\E op \in Ops : Arrive(c, op)) \/ Thread(c)
  \/ Restart
  \/ Tick

Spec == Init /\ [][Next]_vars

\* A thread that can move does: the mutex is let go after every handler and
\* a connection carries one request, so nobody is overtaken forever.
FairSpec == Spec /\ \A c \in Conns : WF_vars(Thread(c))

-----------------------------------------------------------------------------
(* Properties.                                                             *)

TypeOK ==
  /\ BookTypeOK
  /\ registered \subseteq Accounts
  /\ generation \in [Accounts -> Nat]
  /\ suspended \subseteq registered
  /\ panelBalance \in [Accounts -> Int]
  /\ spent \in Nat
  /\ DOMAIN cache \subseteq Key
  /\ \A k \in DOMAIN cache : cache[k] \in Nat
  /\ lock \in Conns \cup {Free}
  /\ conn \in [Conns -> [pc : {"new", "arrived", "working", "answered",
                               "replied", "done", "unsaved", "dead"},
                         op : Ops \cup {NoOp}, now : Nat,
                         reply : {None, "ok", "text", "cached", "empty", "refused"}]]
  /\ applied \subseteq Conns

(***************************************************************************)
(* The panel's own balances follow the ledger through every handler,       *)
(* although other code writes them, before the ledger for a load and after *)
(* it for a fee (state.rs:622, and the test comment at state.rs:1129).     *)
(***************************************************************************)
PanelMatchesLedger ==
  lock = Free => \A a \in registered : panelBalance[a] = balance[a]

(***************************************************************************)
(* What holds of the code: the two agree until the first restart.          *)
(***************************************************************************)
PanelFollowsLedger == restarts = 0 => PanelMatchesLedger

(***************************************************************************)
(* A member pays once for a text, however often the request is sent and in *)
(* whatever order the copies get the mutex: two fees for the same account, *)
(* request id and recording are a cache lifetime apart, or a restart.  The *)
(* lifetime can fall short by the age of the time a copy read: a copy that *)
(* found the text expired drops it, also for one that read an earlier time *)
(* and would still have been answered from the cache.                      *)
(***************************************************************************)
PaidOncePerText ==
  \A x, y \in charges :
    (x # y /\ x.key = y.key /\ x.boot = y.boot) =>
      \/ x.at - y.at >= ResultTTL - MaxLag
      \/ y.at - x.at >= ResultTTL - MaxLag

(***************************************************************************)
(* The token is checked at the head of transcribe (state.rs:495) and the   *)
(* fee is taken when the worker is done, up to minutes later (state.rs:620 *)
(* does not look at it again): it is still the token of a member in good   *)
(* standing, of the generation in force (its own expiry aside).  Nobody    *)
(* who was stopped while a recording was being worked on pays for it.      *)
(***************************************************************************)
FeeNeedsLiveToken ==
  [][\A x \in charges' \ charges : Accepted(conn[x.by].op)]_vars

(***************************************************************************)
(* The answer tells the fee: who gets a fresh text was charged for it, and *)
(* nobody pays for a cached text, an empty one or a refusal.               *)
(***************************************************************************)
AnswerTellsTheFee ==
  \A c \in Conns :
    /\ conn[c].reply = "text" => \E x \in charges : x.by = c
    /\ conn[c].reply \in {"cached", "empty", "refused"} =>
         \A x \in charges : x.by # c

(***************************************************************************)
(* Whenever the mutex is free nothing is on hold: every way out of a       *)
(* transcription settles or releases, and the sweep for stale holds at the *)
(* head of transcribe has nothing to find.                                 *)
(***************************************************************************)
NothingHeldBetweenHandlers ==
  lock = Free =>
    \A a \in Accounts : onHold[a] = 0 /\ \A r \in Requests : held[a][r] = 0

(***************************************************************************)
(* What a connection changed is in the snapshot once its thread has ended, *)
(* whichever threads wrote the file in between and in whatever order, and  *)
(* so survives every later restart.                                        *)
(***************************************************************************)
CompletedOpsAreDurable ==
  \A c \in Conns :
    conn[c].pc = "done" /\ conn[c].reply \in {"ok", "text"} =>
      c \in disk.applied /\ c \in applied

(***************************************************************************)
(* The panel's balances account for exactly the operations that survived:  *)
(* no restart leaves half an operation behind, or books one twice.         *)
(***************************************************************************)
Effect(op, a) ==
  IF op.account # a THEN 0
  ELSE CASE op.kind \in {"redeem", "topup"} -> op.amount
         [] op.kind = "deduct"              -> 0 - op.amount
         [] op.kind = "transcribe"          -> 0 - Cost[op.audio]
         [] OTHER                           -> 0

Booked(C, a) == SumFunctionOnSet([c \in C |-> Effect(conn[c].op, a)], C)

PanelBooksWhatSurvived ==
  \A a \in Accounts : panelBalance[a] = Booked(applied, a)

(***************************************************************************)
(* Every request that reached the broker is answered and its effect is     *)
(* written down, unless the process dies first.                            *)
(***************************************************************************)
EveryRequestEnds ==
  \A c \in Conns : conn[c].pc = "arrived" ~> conn[c].pc \in {"done", "unsaved", "dead"}
=============================================================================
