------------------------------ MODULE Dispatch ------------------------------
(***************************************************************************)
(* The waiting queue and the route table of crates/broker-core.  Next is   *)
(* the two structures as a library: every operation they offer, in any     *)
(* order and with any answer to the queue's question who is busy.          *)
(* HandlerNext is all the broker of this commit does with them: one        *)
(* handler, under the mutex, puts its request into the queue, takes one    *)
(* out, assigns it and starts it.                                          *)
(*                                                                         *)
(* A queue entry leaves out the lane and the tariff version it carries,    *)
(* which neither structure reads.  That pop_next tells an expired entry    *)
(* from a ready one changes nothing in the queue.                          *)
(***************************************************************************)
EXTENDS Integers, Sequences, FiniteSets, SequencesExt

CONSTANTS Accounts,       \* account names
          Requests,       \* request ids, one per request (req_seq)
          MaxDepth,       \* QueueConfig::max_depth
          PerAccountMax,  \* QueueConfig::per_account_max
          MaxWait,        \* QueueConfig::max_wait_secs
          OfflineMisses,  \* RouteConfig::offline_misses
          OnlineHits,     \* RouteConfig::online_hits
          SuspectSecs,    \* RouteConfig::suspect_secs
          CountMax,       \* where a beat counter saturates (u32::MAX)
          MaxLag,         \* how old the time a handler read may be
          MaxClock        \* bound: last instant modelled

ASSUME DispatchAssumption ==
  /\ MaxDepth \in Nat /\ PerAccountMax \in Nat /\ MaxWait \in Nat
  /\ CountMax \in Nat
  /\ OfflineMisses \in 1..CountMax /\ OnlineHits \in 1..CountMax
  /\ SuspectSecs \in Nat /\ MaxLag \in Nat /\ MaxClock \in Nat

VARIABLES items,       \* Queue.items
          perAccount,  \* Queue.per_account; no entry in the map is 0 here
          lanes,       \* RouteTable.lanes
          suspect,     \* RouteTable.suspect_failed and suspect_until
          job,         \* the Assignment made for each request
          clock        \* the wall clock

vars == <<items, perAccount, lanes, suspect, job, clock>>
queueVars == <<items, perAccount>>
routeVars == <<lanes, suspect>>

Lane == {"Home", "Fallback"}
NoLane == "none"
Other(l) == IF l = "Home" THEN "Fallback" ELSE "Home"

Job == [lane : Lane, started : BOOLEAN]
NoJob == [lane |-> NoLane, started |-> FALSE]

\* The times a handler may have read before it got the mutex.
Now == {t \in 0..clock : clock - t <= MaxLag}

Monus(x, y) == IF x > y THEN x - y ELSE 0

-----------------------------------------------------------------------------
(* The waiting queue.                                                      *)

Entry(r, a, now) == [request |-> r, account |-> a, at |-> now]

Queued == {items[i].request : i \in DOMAIN items}
Assigned == {r \in Requests : job[r] # NoJob}

CanPush(a) ==
  /\ perAccount[a] < PerAccountMax
  /\ Len(items) < MaxDepth

\* Queue::push; the three refusals change nothing.
Push(r, a, now) ==
  /\ r \notin Queued
  /\ CanPush(a)
  /\ items' = Append(items, Entry(r, a, now))
  /\ perAccount' = [perAccount EXCEPT ![a] = @ + 1]
  /\ UNCHANGED <<routeVars, job, clock>>

\* Queue::remove_account, of the counts n.
RemoveAccount(n, a) == [n EXCEPT ![a] = Monus(@, 1)]

\* An entry leaves, and its count with it.
TakeOut(i) ==
  /\ items' = RemoveAt(items, i)
  /\ perAccount' = RemoveAccount(perAccount, items[i].account)
  /\ UNCHANGED <<routeVars, job, clock>>

\* Mutant: an entry that is given up keeps its place in the member's quota.
CancelKeepingCount(r) ==
  /\ \E i \in DOMAIN items :
       items[i].request = r /\ items' = RemoveAt(items, i)
  /\ UNCHANGED <<perAccount, routeVars, job, clock>>

\* Queue::cancel
Cancel(r) == \E i \in DOMAIN items : items[i].request = r /\ TakeOut(i)

\* The entry pop_next chooses: the oldest whose member is not busy.
IsNext(i, busy) ==
  /\ items[i].account \notin busy
  /\ \A j \in DOMAIN items : j < i => items[j].account \in busy

\* Queue::pop_next
Pop(busy) == \E i \in DOMAIN items : IsNext(i, busy) /\ TakeOut(i)

\* What makes pop_next return ExpiredFree.
Expired(q, now) == Monus(now, q.at) > MaxWait

-----------------------------------------------------------------------------
(* The route table.                                                        *)

\* u32::saturating_add
Saturated(n) == IF n < CountMax THEN n + 1 ELSE n

\* Mutant: a miss does not break a run of good beats.
BeatKeepingHits(st, ok) ==
  IF ok
  THEN [hits |-> Saturated(st.hits), misses |-> 0,
        online |-> st.online \/ Saturated(st.hits) >= OnlineHits]
  ELSE [hits |-> st.hits, misses |-> Saturated(st.misses),
        online |-> st.online /\ Saturated(st.misses) < OfflineMisses]

\* LaneState::beat
Beat(st, ok) ==
  IF ok
  THEN [hits |-> Saturated(st.hits), misses |-> 0,
        online |-> st.online \/ Saturated(st.hits) >= OnlineHits]
  ELSE [hits |-> 0, misses |-> Saturated(st.misses),
        online |-> st.online /\ Saturated(st.misses) < OfflineMisses]

\* RouteTable::heartbeat: a good beat of the lane under suspicion ends it.
Heartbeat(l, ok) ==
  /\ lanes' = [lanes EXCEPT ![l] = Beat(@, ok)]
  /\ suspect' = IF ok /\ suspect.failed = l
                THEN [failed |-> NoLane, until |-> 0] ELSE suspect
  /\ UNCHANGED <<queueVars, job, clock>>

SuspectActive(now) == suspect.failed # NoLane /\ now < suspect.until

NormalRoute == IF lanes["Home"].online THEN "Home" ELSE "Fallback"

Pick(now) == IF SuspectActive(now) THEN Other(suspect.failed) ELSE NormalRoute

\* note_assign_failure: there is room for one suspect.
NoteAssignFailure(l, now) ==
  suspect' = [failed |-> l, until |-> now + SuspectSecs]

\* RouteTable::assign
Assign(r, now) ==
  /\ r \notin Assigned
  /\ job' = [job EXCEPT ![r] = [lane |-> Pick(now), started |-> FALSE]]
  /\ UNCHANGED <<queueVars, routeVars, clock>>

\* RouteTable::assign_timeout; LaneLocked once it has started.
AssignTimeout(r, now) ==
  /\ r \in Assigned /\ ~job[r].started
  /\ NoteAssignFailure(job[r].lane, now)
  /\ job' = [job EXCEPT ![r].lane = Other(@)]
  /\ UNCHANGED <<queueVars, lanes, clock>>

\* RouteTable::begin_inference: the lane is sealed.
BeginInference(r) ==
  /\ r \in Assigned
  /\ job' = [job EXCEPT ![r].started = TRUE]
  /\ UNCHANGED <<queueVars, routeVars, clock>>

-----------------------------------------------------------------------------
(* The broker.                                                             *)

\* What pop_next looks at first when r has just been pushed and nobody is
\* said to be busy.
FirstAfterPush(r, a, now) == Append(items, Entry(r, a, now))[1]

\* transcribe_inner between its queue and the worker, in one critical
\* section.  It does not look whose entry it took out; it ends without an
\* assignment when that one is too old or the balance is short by now, and
\* without a start when the lane is not Home.
Handle(r, a, now) ==
  /\ r \notin Queued \cup Assigned
  /\ CanPush(a)
  /\ items' = RemoveAt(Append(items, Entry(r, a, now)), 1)
  /\ perAccount' = RemoveAccount([perAccount EXCEPT ![a] = @ + 1],
                                 FirstAfterPush(r, a, now).account)
  /\ \/ UNCHANGED job
     \/ /\ ~Expired(FirstAfterPush(r, a, now), now)
        /\ job' = [job EXCEPT ![r] = [lane |-> Pick(now),
                                      started |-> Pick(now) = "Home"]]
  /\ UNCHANGED <<routeVars, clock>>

Tick ==
  /\ clock < MaxClock
  /\ clock' = clock + 1
  /\ UNCHANGED <<queueVars, routeVars, job>>

Init ==
  /\ items = <<>>
  /\ perAccount = [a \in Accounts |-> 0]
  /\ lanes = [l \in Lane |-> [hits |-> 0, misses |-> 0, online |-> TRUE]]
  /\ suspect = [failed |-> NoLane, until |-> 0]
  /\ job = [r \in Requests |-> NoJob]
  /\ clock = 0

HandlerNext ==
  \/ \E r \in Requests, a \in Accounts, now \in Now : Handle(r, a, now)
  \/ Tick

Next ==
  \/ HandlerNext
  \/ \E r \in Requests, a \in Accounts, now \in Now : Push(r, a, now)
  \/ \E r \in Requests : Cancel(r)
  \/ \E busy \in SUBSET Accounts : Pop(busy)
  \/ \E l \in Lane, ok \in BOOLEAN : Heartbeat(l, ok)
  \/ \E r \in Requests, now \in Now : Assign(r, now) \/ AssignTimeout(r, now)
  \/ \E r \in Requests : BeginInference(r)

\* The library, with any caller.
Spec == Init /\ [][Next]_vars

\* The library as the broker calls it.
HandlerSpec == Init /\ [][HandlerNext]_vars

-----------------------------------------------------------------------------
(* Properties.                                                             *)

QueueEntry == [request : Requests, account : Accounts, at : Nat]
LaneState == [hits : 0..CountMax, misses : 0..CountMax, online : BOOLEAN]

\* The types of the variables.
TypeOK ==
  /\ items \in Seq(QueueEntry)
  /\ perAccount \in [Accounts -> Nat]
  /\ lanes \in [Lane -> LaneState]
  /\ suspect \in [failed : Lane \cup {NoLane}, until : Nat]
  /\ job \in [Requests -> Job \cup {NoJob}]
  /\ clock \in Nat

\* The requests of member a in queue q.
Waiting(q, a) == {q[i].request : i \in {j \in DOMAIN q : q[j].account = a}}

\* The count kept per member is the number of the member's entries, through
\* pushes, pops past busy members and cancellations (its subtraction
\* saturates, so a count gone wrong would show as nothing but a refusal of a
\* member with room, or a fourth entry).
QueueCounted ==
  /\ \A a \in Accounts : perAccount[a] = Cardinality(Waiting(items, a))
  /\ \A a \in Accounts : perAccount[a] <= PerAccountMax
  /\ Len(items) <= MaxDepth

\* A lane changes its standing only at the end of a run: an online lane has
\* missed fewer than offline_misses beats in a row, an offline one has had
\* fewer than online_hits good ones in a row, and a beat of one kind ends
\* the run of the other.
JudgedByRuns ==
  \A l \in Lane :
    /\ lanes[l].hits = 0 \/ lanes[l].misses = 0
    /\ lanes[l].online => lanes[l].misses < OfflineMisses
    /\ ~lanes[l].online => lanes[l].hits < OnlineHits

\* Of the broker alone: the next request to arrive, of whomever, is let into
\* the queue, is itself what comes out, is not too old and goes home.  So
\* transcribe never answers queue_full or queue_wait_timeout, never works on
\* another member's turn, and never leaves by the closed fallback lane.
ServedAtOnce ==
  \A r \in Requests, a \in Accounts, now \in Now :
    /\ CanPush(a)
    /\ FirstAfterPush(r, a, now) = Entry(r, a, now)
    /\ ~Expired(FirstAfterPush(r, a, now), now)
    /\ Pick(now) = "Home"
=============================================================================
