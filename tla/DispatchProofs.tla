--------------------------- MODULE DispatchProofs ---------------------------
(***************************************************************************)
(* Proofs about the waiting queue and the route table, for every number of *)
(* members and requests, every limit of the queue and every run length,    *)
(* with any caller; and about the broker, their only one.                  *)
(***************************************************************************)
EXTENDS Dispatch, FiniteSetTheorems, SequenceTheorems, TLAPS

USE DispatchAssumption

-----------------------------------------------------------------------------
(* Sequences.                                                               *)

(***************************************************************************)
(* Taking one entry out of a queue.                                        *)
(***************************************************************************)
LEMMA RemoveAtFacts ==
  ASSUME NEW S, NEW s \in Seq(S), NEW i \in DOMAIN s
  PROVE  /\ RemoveAt(s, i) \in Seq(S)
         /\ Len(RemoveAt(s, i)) = Len(s) - 1
         /\ \A j \in 1..(Len(s) - 1) :
              RemoveAt(s, i)[j] = IF j < i THEN s[j] ELSE s[j + 1]
<1>1. i \in 1..Len(s) /\ Len(s) \in Nat
  OBVIOUS
<1>. DEFINE front == SubSeq(s, 1, i - 1)
            back == SubSeq(s, i + 1, Len(s))
<1>2. front \in Seq(S) /\ Len(front) = i - 1
      /\ \A j \in 1..(i - 1) : front[j] = s[j]
  BY <1>1
<1>3. back \in Seq(S) /\ Len(back) = Len(s) - i
      /\ \A j \in 1..(Len(s) - i) : back[j] = s[i + j]
  BY <1>1
<1>4. RemoveAt(s, i) = front \o back
  BY DEF RemoveAt
<1>. HIDE DEF front, back
<1>5. Len(front \o back) = Len(s) - 1 /\ front \o back \in Seq(S)
  BY <1>1, <1>2, <1>3
<1>6. ASSUME NEW j \in 1..(Len(s) - 1)
      PROVE  (front \o back)[j] = IF j < i THEN s[j] ELSE s[j + 1]
  <2>1. CASE j < i
    BY <2>1, <1>1, <1>2, <1>3
  <2>2. CASE ~(j < i)
    <3>1. (front \o back)[j] = back[j - (i - 1)]
      BY <2>2, <1>1, <1>2, <1>3
    <3>2. j - (i - 1) \in 1..(Len(s) - i) /\ i + (j - (i - 1)) = j + 1
      BY <2>2, <1>1
    <3>. QED BY <2>2, <3>1, <3>2, <1>3
  <2>. QED BY <2>1, <2>2
<1>. QED BY <1>4, <1>5, <1>6

\* Every entry but the one removed keeps a place, and no other is added.
LEMMA RemoveAtKeeps ==
  ASSUME NEW S, NEW s \in Seq(S), NEW i \in DOMAIN s
  PROVE  /\ \A j \in DOMAIN RemoveAt(s, i) :
              \E k \in DOMAIN s \ {i} :
                /\ RemoveAt(s, i)[j] = s[k]
                /\ k = IF j < i THEN j ELSE j + 1
         /\ \A k \in DOMAIN s \ {i} :
              \E j \in DOMAIN RemoveAt(s, i) : RemoveAt(s, i)[j] = s[k]
<1>. DEFINE t == RemoveAt(s, i)
<1>1. /\ t \in Seq(S) /\ Len(t) = Len(s) - 1
      /\ \A j \in 1..(Len(s) - 1) : t[j] = IF j < i THEN s[j] ELSE s[j + 1]
  BY RemoveAtFacts
<1>2. DOMAIN s = 1..Len(s) /\ DOMAIN t = 1..(Len(s) - 1) /\ Len(s) \in Nat
  BY <1>1
<1>. HIDE DEF t
<1>3. ASSUME NEW j \in DOMAIN t
      PROVE  \E k \in DOMAIN s \ {i} :
               t[j] = s[k] /\ k = IF j < i THEN j ELSE j + 1
  BY <1>1, <1>2
<1>4. ASSUME NEW k \in DOMAIN s \ {i}
      PROVE  \E j \in DOMAIN t : t[j] = s[k]
  <2>1. CASE k < i
    BY <2>1, <1>1, <1>2
  <2>2. CASE k > i
    <3>1. k - 1 \in DOMAIN t /\ t[k - 1] = s[k]
      BY <2>2, <1>1, <1>2
    <3>. QED BY <3>1
  <2>. QED BY <2>1, <2>2, <1>2
<1>. QED BY <1>3, <1>4 DEF t

-----------------------------------------------------------------------------
(* Types.                                                                   *)

(***************************************************************************)
(* There are two lanes, each the other's other.                            *)
(***************************************************************************)
LEMMA LaneFacts ==
  /\ NoLane \notin Lane
  /\ \A l \in Lane : Other(l) \in Lane /\ Other(l) # l
BY DEF Lane, NoLane, Other

(***************************************************************************)
(* A request is assigned exactly when its job has a lane.                  *)
(***************************************************************************)
LEMMA JobFacts ==
  ASSUME TypeOK, NEW r \in Requests
  PROVE  /\ r \in Assigned => job[r] \in Job
         /\ job[r].started => r \in Assigned
BY LaneFacts DEF TypeOK, Job, NoJob, Assigned

(***************************************************************************)
(* The route table always names a lane.                                    *)
(***************************************************************************)
LEMMA PickInLane ==
  ASSUME TypeOK, NEW now
  PROVE  Pick(now) \in Lane
<1>1. NormalRoute \in Lane
  BY DEF NormalRoute, Lane
<1>2. SuspectActive(now) => suspect.failed \in Lane
  BY DEF SuspectActive, TypeOK
<1>. QED BY <1>1, <1>2, LaneFacts DEF Pick

(***************************************************************************)
(* A time a handler read is a number.                                      *)
(***************************************************************************)
LEMMA NowIsNat ==
  ASSUME TypeOK, NEW now \in Now
  PROVE  now \in Nat
BY DEF TypeOK, Now

(***************************************************************************)
(* One heartbeat: the counters stay in their range and only one of them    *)
(* counts.                                                                 *)
(***************************************************************************)
LEMMA BeatFacts ==
  ASSUME NEW st \in LaneState, NEW ok \in BOOLEAN
  PROVE  /\ Beat(st, ok) \in LaneState
         /\ Beat(st, ok).hits = 0 \/ Beat(st, ok).misses = 0
         /\ (st.online => st.misses < OfflineMisses) =>
              (Beat(st, ok).online => Beat(st, ok).misses < OfflineMisses)
         /\ (~st.online => st.hits < OnlineHits) =>
              (~Beat(st, ok).online => Beat(st, ok).hits < OnlineHits)
<1>1. /\ Saturated(st.hits) \in 0..CountMax
      /\ Saturated(st.misses) \in 0..CountMax
  BY DEF Saturated, LaneState
<1>2. CASE ok /\ (st.online \/ Saturated(st.hits) >= OnlineHits)
  <2>1. Beat(st, ok) = [hits |-> Saturated(st.hits), misses |-> 0, online |-> TRUE]
    BY <1>2 DEF Beat
  <2>. QED BY <1>1, <2>1 DEF LaneState
<1>4. CASE ok /\ ~st.online /\ ~(Saturated(st.hits) >= OnlineHits)
  <2>1. Beat(st, ok) = [hits |-> Saturated(st.hits), misses |-> 0, online |-> FALSE]
    BY <1>4 DEF Beat
  <2>2. Saturated(st.hits) < OnlineHits
    BY <1>1, <1>4
  <2>3. Beat(st, ok) \in LaneState
    BY <1>1, <2>1 DEF LaneState
  <2>. QED BY <2>1, <2>2, <2>3
<1>3. CASE ~ok
  BY <1>1, <1>3 DEF Beat, LaneState
<1>. QED BY <1>2, <1>3, <1>4

(***************************************************************************)
(* What an entry of a queue holds.                                         *)
(***************************************************************************)
LEMMA EntryFacts ==
  ASSUME NEW q \in Seq(QueueEntry), NEW i \in DOMAIN q
  PROVE  /\ q[i] \in QueueEntry
         /\ q[i].request \in Requests
         /\ q[i].account \in Accounts
<1>1. q[i] \in QueueEntry
  OBVIOUS
<1>. QED BY <1>1 DEF QueueEntry

(***************************************************************************)
(* One entry more, and the counts for it.                                  *)
(***************************************************************************)
LEMMA PushType ==
  ASSUME TypeOK, NEW r \in Requests, NEW a \in Accounts, NEW now \in Now
  PROVE  /\ Entry(r, a, now) \in QueueEntry
         /\ Append(items, Entry(r, a, now)) \in Seq(QueueEntry)
         /\ [perAccount EXCEPT ![a] = @ + 1] \in [Accounts -> Nat]
<1>1. Entry(r, a, now) \in QueueEntry
  BY NowIsNat DEF Entry, QueueEntry
<1>. QED BY <1>1 DEF TypeOK

(***************************************************************************)
(* One entry less, and the counts for it.                                  *)
(***************************************************************************)
LEMMA RemoveType ==
  ASSUME NEW q \in Seq(QueueEntry), NEW n \in [Accounts -> Nat], NEW i \in DOMAIN q
  PROVE  /\ RemoveAt(q, i) \in Seq(QueueEntry)
         /\ RemoveAccount(n, q[i].account) \in [Accounts -> Nat]
<1>1. q[i].account \in Accounts
  BY EntryFacts
<1>2. Monus(n[q[i].account], 1) \in Nat
  BY <1>1 DEF Monus
<1>3. RemoveAccount(n, q[i].account) \in [Accounts -> Nat]
  BY <1>1, <1>2 DEF RemoveAccount
<1>. QED BY <1>3, RemoveAtFacts

(***************************************************************************)
(* The first place of a queue that was just pushed to.                     *)
(***************************************************************************)
LEMMA FirstFacts ==
  ASSUME TypeOK, NEW r \in Requests, NEW a \in Accounts, NEW now \in Now
  PROVE  /\ 1 \in DOMAIN Append(items, Entry(r, a, now))
         /\ FirstAfterPush(r, a, now) = Append(items, Entry(r, a, now))[1]
BY PushType DEF TypeOK, FirstAfterPush

(***************************************************************************)
(* The queue and the lanes start well typed.                               *)
(***************************************************************************)
LEMMA InitType == Init => TypeOK
<1>. SUFFICES ASSUME Init PROVE TypeOK
  OBVIOUS
<1>1. items \in Seq(QueueEntry) /\ perAccount \in [Accounts -> Nat]
  BY DEF Init
<1>2. lanes \in [Lane -> LaneState]
  BY DEF Init, LaneState
<1>3. suspect \in [failed : Lane \cup {NoLane}, until : Nat]
  BY DEF Init
<1>4. job \in [Requests -> Job \cup {NoJob}] /\ clock \in Nat
  BY DEF Init
<1>. QED BY <1>1, <1>2, <1>3, <1>4 DEF TypeOK

(***************************************************************************)
(* The broker's handler keeps the types.                                   *)
(***************************************************************************)
LEMMA HandleType ==
  ASSUME TypeOK, NEW r \in Requests, NEW a \in Accounts, NEW now \in Now,
         Handle(r, a, now)
  PROVE  TypeOK'
<1>1. items' \in Seq(QueueEntry) /\ perAccount' \in [Accounts -> Nat]
  <2>. DEFINE q == Append(items, Entry(r, a, now))
              n == [perAccount EXCEPT ![a] = @ + 1]
  <2>1. q \in Seq(QueueEntry) /\ n \in [Accounts -> Nat] /\ 1 \in DOMAIN q
    BY PushType, FirstFacts
  <2>2. items' = RemoveAt(q, 1) /\ perAccount' = RemoveAccount(n, q[1].account)
    BY FirstFacts DEF Handle
  <2>. HIDE DEF q, n
  <2>. QED BY <2>1, <2>2, RemoveType
<1>2. [lane |-> Pick(now), started |-> Pick(now) = "Home"] \in Job
  BY PickInLane DEF Job
<1>3. job' \in [Requests -> Job \cup {NoJob}]
  BY <1>2 DEF Handle, TypeOK
<1>. QED BY <1>1, <1>3 DEF Handle, TypeOK, routeVars

(***************************************************************************)
(* Every step keeps the types.                                             *)
(***************************************************************************)
LEMMA NextType == TypeOK /\ [Next]_vars => TypeOK'
<1>. SUFFICES ASSUME TypeOK, [Next]_vars PROVE TypeOK'
  OBVIOUS
<1>1. ASSUME NEW r \in Requests, NEW a \in Accounts, NEW now \in Now,
             Handle(r, a, now)
      PROVE  TypeOK'
  BY <1>1, HandleType
<1>2. ASSUME NEW r \in Requests, NEW a \in Accounts, NEW now \in Now,
             Push(r, a, now)
      PROVE  TypeOK'
  BY <1>2, PushType DEF Push, TypeOK, routeVars
<1>3. ASSUME NEW i \in DOMAIN items, TakeOut(i) PROVE TypeOK'
  BY <1>3, RemoveType DEF TakeOut, TypeOK, routeVars
<1>4. ASSUME NEW l \in Lane, NEW ok \in BOOLEAN, Heartbeat(l, ok) PROVE TypeOK'
  <2>1. lanes' \in [Lane -> LaneState]
    BY <1>4, BeatFacts DEF Heartbeat, TypeOK
  <2>2. suspect' \in [failed : Lane \cup {NoLane}, until : Nat]
    BY <1>4 DEF Heartbeat, TypeOK
  <2>. QED BY <1>4, <2>1, <2>2 DEF Heartbeat, TypeOK, queueVars
<1>5. ASSUME NEW r \in Requests, NEW now \in Now, Assign(r, now) PROVE TypeOK'
  <2>1. [lane |-> Pick(now), started |-> FALSE] \in Job
    BY PickInLane DEF Job
  <2>. QED BY <1>5, <2>1 DEF Assign, TypeOK, queueVars, routeVars
<1>6. ASSUME NEW r \in Requests, NEW now \in Now, AssignTimeout(r, now)
      PROVE  TypeOK'
  <2>1. job[r] \in Job
    BY <1>6, JobFacts DEF AssignTimeout
  <2>2. [job[r] EXCEPT !.lane = Other(@)] \in Job
    BY <2>1, LaneFacts DEF Job
  <2>3. job' \in [Requests -> Job \cup {NoJob}]
    BY <1>6, <2>2 DEF AssignTimeout, TypeOK
  <2>4. suspect' \in [failed : Lane \cup {NoLane}, until : Nat]
    BY <1>6, <2>1, NowIsNat DEF AssignTimeout, NoteAssignFailure, Job
  <2>. QED BY <1>6, <2>3, <2>4 DEF AssignTimeout, TypeOK, queueVars
<1>7. ASSUME NEW r \in Requests, BeginInference(r) PROVE TypeOK'
  <2>1. [job[r] EXCEPT !.started = TRUE] \in Job
    BY <1>7, JobFacts DEF BeginInference, Job
  <2>2. job' \in [Requests -> Job \cup {NoJob}]
    BY <1>7, <2>1 DEF BeginInference, TypeOK
  <2>. QED BY <1>7, <2>2 DEF BeginInference, TypeOK, queueVars, routeVars
<1>8. CASE Tick
  BY <1>8 DEF Tick, TypeOK, queueVars, routeVars
<1>9. CASE UNCHANGED vars
  BY <1>9 DEF vars, TypeOK
<1>. QED
  BY <1>1, <1>2, <1>3, <1>4, <1>5, <1>6, <1>7, <1>8, <1>9
     DEF Next, HandlerNext, Cancel, Pop

\* Type correctness of the queue and the table.
THEOREM TypeCorrect == Spec => []TypeOK
<1>1. Init => TypeOK
  BY InitType
<1>2. TypeOK /\ [Next]_vars => TypeOK'
  BY NextType
<1>. QED BY <1>1, <1>2, PTL DEF Spec

-----------------------------------------------------------------------------
(* The queue.                                                               *)

\* The requests of queue q.
Ids(q) == {q[i].request : i \in DOMAIN q}

\* What a queue q and its counts n say of each other.
Fits(q, n) ==
  /\ \A a \in Accounts : IsFiniteSet(Waiting(q, a))
  /\ \A a \in Accounts : n[a] = Cardinality(Waiting(q, a))
  /\ \A a \in Accounts : n[a] <= PerAccountMax
  /\ Len(q) <= MaxDepth
  /\ \A i, j \in DOMAIN q : q[i].request = q[j].request => i = j

(***************************************************************************)
(* An entry that joins is counted.                                         *)
(***************************************************************************)
LEMMA PushFits ==
  ASSUME NEW q \in Seq(QueueEntry), NEW n \in [Accounts -> Nat], Fits(q, n),
         NEW r \in Requests, NEW a \in Accounts, NEW t \in Nat,
         r \notin Ids(q), n[a] < PerAccountMax, Len(q) < MaxDepth
  PROVE  Fits(Append(q, Entry(r, a, t)), [n EXCEPT ![a] = @ + 1])
<1>. DEFINE e == Entry(r, a, t)
            s == Append(q, e)
            m == [n EXCEPT ![a] = @ + 1]
            len == Len(q)
<1>1. len \in Nat /\ DOMAIN q = 1..len
  OBVIOUS
<1>2. e \in QueueEntry /\ e.request = r /\ e.account = a
  BY DEF Entry, QueueEntry
<1>3. /\ DOMAIN s = 1..(len + 1) /\ Len(s) = len + 1
      /\ s[len + 1] = e
      /\ \A i \in 1..len : s[i] = q[i]
  BY <1>1, <1>2
<1>4. \A i \in 1..len : q[i].request # r
  BY <1>1 DEF Ids
<1>5. m[a] = n[a] + 1 /\ \A b \in Accounts : b # a => m[b] = n[b]
  OBVIOUS
<1>. HIDE DEF e, s, m
<1>6. \A i, j \in DOMAIN s : s[i].request = s[j].request => i = j
  BY <1>1, <1>2, <1>3, <1>4 DEF Fits
<1>7. \A b \in Accounts :
        Waiting(s, b) = IF b = a THEN Waiting(q, b) \cup {r} ELSE Waiting(q, b)
  <2>. TAKE b \in Accounts
  <2>1. CASE b = a
    BY <2>1, <1>1, <1>2, <1>3 DEF Waiting
  <2>2. CASE b # a
    BY <2>2, <1>1, <1>2, <1>3 DEF Waiting
  <2>. QED BY <2>1, <2>2
<1>8. r \notin Waiting(q, a)
  BY <1>1, <1>4 DEF Waiting
<1>9. /\ IsFiniteSet(Waiting(q, a) \cup {r})
      /\ Cardinality(Waiting(q, a) \cup {r}) = Cardinality(Waiting(q, a)) + 1
  BY <1>8, FS_AddElement DEF Fits
<1>10. \A b \in Accounts : IsFiniteSet(Waiting(s, b))
  BY <1>7, <1>9 DEF Fits
<1>11. \A b \in Accounts : m[b] = Cardinality(Waiting(s, b))
  BY <1>5, <1>7, <1>9 DEF Fits
<1>12. \A b \in Accounts : m[b] <= PerAccountMax
  BY <1>5 DEF Fits
<1>13. Len(s) <= MaxDepth
  BY <1>1, <1>3
<1>14. Fits(s, m)
  BY <1>6, <1>10, <1>11, <1>12, <1>13 DEF Fits
<1>. QED BY <1>14 DEF s, e, m

(***************************************************************************)
(* An entry that leaves is counted out.                                    *)
(***************************************************************************)
LEMMA RemoveFits ==
  ASSUME NEW q \in Seq(QueueEntry), NEW n \in [Accounts -> Nat], Fits(q, n),
         NEW i \in DOMAIN q
  PROVE  Fits(RemoveAt(q, i), RemoveAccount(n, q[i].account))
<1>. DEFINE r == q[i].request
            a == q[i].account
            s == RemoveAt(q, i)
            m == RemoveAccount(n, a)
<1>1. r \in Requests /\ a \in Accounts
  BY EntryFacts
<1>2. /\ \A j \in DOMAIN s :
           \E k \in DOMAIN q \ {i} :
             s[j] = q[k] /\ k = IF j < i THEN j ELSE j + 1
      /\ \A k \in DOMAIN q \ {i} : \E j \in DOMAIN s : s[j] = q[k]
  BY RemoveAtKeeps
<1>3. /\ s \in Seq(QueueEntry) /\ Len(s) = Len(q) - 1 /\ Len(q) \in Nat
      /\ DOMAIN q = 1..Len(q)
  BY RemoveAtFacts
<1>4. \A k \in DOMAIN q \ {i} : q[k].request # r
  BY DEF Fits
<1>5. m = [n EXCEPT ![a] = Monus(@, 1)]
  BY DEF RemoveAccount
<1>. HIDE DEF r, a, s, m
<1>6. \A j, k \in DOMAIN s : s[j].request = s[k].request => j = k
  <2>. SUFFICES ASSUME NEW j \in DOMAIN s, NEW k \in DOMAIN s,
                       s[j].request = s[k].request
                PROVE  j = k
    OBVIOUS
  <2>1. PICK x \in DOMAIN q \ {i} :
          s[j] = q[x] /\ x = IF j < i THEN j ELSE j + 1
    BY <1>2
  <2>2. PICK y \in DOMAIN q \ {i} :
          s[k] = q[y] /\ y = IF k < i THEN k ELSE k + 1
    BY <1>2
  <2>3. x = y
    BY <2>1, <2>2 DEF Fits
  <2>4. j \in Nat /\ k \in Nat /\ i \in Nat
    BY <1>3
  <2>. QED BY <2>1, <2>2, <2>3, <2>4
<1>7. \A b \in Accounts : Waiting(s, b) = Waiting(q, b) \ {r}
  BY <1>2, <1>4 DEF Waiting, r
<1>8. r \in Waiting(q, a)
  BY DEF Waiting, r, a
<1>9. \A b \in Accounts : b # a => r \notin Waiting(q, b)
  BY <1>4 DEF Waiting, r, a
<1>10. /\ IsFiniteSet(Waiting(q, a) \ {r})
       /\ Cardinality(Waiting(q, a) \ {r}) = Cardinality(Waiting(q, a)) - 1
  BY <1>1, <1>8, FS_RemoveElement DEF Fits
<1>11. Cardinality(Waiting(q, a)) \in Nat /\ Cardinality(Waiting(q, a) \ {r}) \in Nat
  BY <1>1, <1>10, FS_CardinalityType DEF Fits
<1>12. m[a] = n[a] - 1 /\ \A b \in Accounts : b # a => m[b] = n[b]
  BY <1>1, <1>5, <1>10, <1>11 DEF Monus, Fits
<1>13. \A b \in Accounts : IsFiniteSet(Waiting(s, b))
  BY <1>7, FS_RemoveElement DEF Fits
<1>14. \A b \in Accounts : b # a => Waiting(s, b) = Waiting(q, b)
  BY <1>7, <1>9
<1>15. \A b \in Accounts : m[b] = Cardinality(Waiting(s, b))
  BY <1>1, <1>7, <1>10, <1>12, <1>14 DEF Fits
<1>16. \A b \in Accounts : m[b] <= PerAccountMax
  BY <1>1, <1>12 DEF Fits
<1>17. Len(s) <= MaxDepth
  BY <1>3 DEF Fits
<1>18. Fits(s, m)
  BY <1>6, <1>13, <1>15, <1>16, <1>17 DEF Fits
<1>. QED BY <1>18 DEF s, m, a

\* The counters are right and no request is in the queue twice.
QueueInv == Fits(items, perAccount)

(***************************************************************************)
(* Nothing waits at the start.                                             *)
(***************************************************************************)
LEMMA QueueInvInit == Init => QueueInv
<1>. SUFFICES ASSUME Init PROVE QueueInv
  OBVIOUS
<1>1. DOMAIN items = {} /\ Len(items) = 0
  BY DEF Init
<1>2. \A a \in Accounts : Waiting(items, a) = {} /\ perAccount[a] = 0
  BY <1>1 DEF Init, Waiting
<1>3. \A a \in Accounts :
        IsFiniteSet(Waiting(items, a)) /\ Cardinality(Waiting(items, a)) = 0
  BY <1>2, FS_EmptySet
<1>. QED BY <1>1, <1>2, <1>3 DEF QueueInv, Fits

(***************************************************************************)
(* Every step keeps the counters right.                                    *)
(***************************************************************************)
LEMMA QueueInvNext == TypeOK /\ QueueInv /\ [Next]_vars => QueueInv'
<1>. SUFFICES ASSUME TypeOK, QueueInv, [Next]_vars PROVE QueueInv'
  OBVIOUS
<1>a. items \in Seq(QueueEntry) /\ perAccount \in [Accounts -> Nat]
  BY DEF TypeOK
<1>b. ASSUME UNCHANGED queueVars PROVE QueueInv'
  BY <1>b DEF queueVars, QueueInv
<1>c. ASSUME NEW r \in Requests, NEW a \in Accounts, NEW now \in Now,
             r \notin Queued, CanPush(a)
      PROVE  Fits(Append(items, Entry(r, a, now)), [perAccount EXCEPT ![a] = @ + 1])
  <2>1. now \in Nat
    BY NowIsNat
  <2>2. r \notin Ids(items)
    BY <1>c DEF Queued, Ids
  <2>. QED BY <1>a, <1>c, <2>1, <2>2, PushFits DEF QueueInv, CanPush
<1>1. ASSUME NEW r \in Requests, NEW a \in Accounts, NEW now \in Now,
             Handle(r, a, now)
      PROVE  QueueInv'
  <2>. DEFINE q == Append(items, Entry(r, a, now))
              n == [perAccount EXCEPT ![a] = @ + 1]
  <2>1. Fits(q, n)
    BY <1>1, <1>c DEF Handle
  <2>2. q \in Seq(QueueEntry) /\ n \in [Accounts -> Nat] /\ 1 \in DOMAIN q
    BY PushType, FirstFacts
  <2>3. items' = RemoveAt(q, 1) /\ perAccount' = RemoveAccount(n, q[1].account)
    BY <1>1, FirstFacts DEF Handle
  <2>. HIDE DEF q, n
  <2>4. Fits(RemoveAt(q, 1), RemoveAccount(n, q[1].account))
    BY <2>1, <2>2, RemoveFits
  <2>. QED BY <2>3, <2>4 DEF QueueInv
<1>2. ASSUME NEW r \in Requests, NEW a \in Accounts, NEW now \in Now,
             Push(r, a, now)
      PROVE  QueueInv'
  BY <1>2, <1>c DEF Push, QueueInv
<1>3. ASSUME NEW i \in DOMAIN items, TakeOut(i) PROVE QueueInv'
  BY <1>3, <1>a, RemoveFits DEF TakeOut, QueueInv
<1>. QED
  BY <1>1, <1>2, <1>3, <1>b
     DEF Next, HandlerNext, Tick, Cancel, Pop, Heartbeat, Assign, AssignTimeout,
         BeginInference, vars, queueVars

\* The member's count in the queue is the number of the member's entries,
\* and the limits hold.
THEOREM QueueCountedAlways == Spec => []QueueCounted
<1>1. Init => TypeOK /\ QueueInv
  BY InitType, QueueInvInit
<1>2. TypeOK /\ QueueInv /\ [Next]_vars => (TypeOK /\ QueueInv)'
  BY NextType, QueueInvNext
<1>3. QueueInv => QueueCounted
  BY DEF QueueInv, Fits, QueueCounted
<1>. QED BY <1>1, <1>2, <1>3, PTL DEF Spec

-----------------------------------------------------------------------------
(* Lanes.                                                                   *)

(***************************************************************************)
(* Every step keeps the verdict on a lane to its own heartbeats.           *)
(***************************************************************************)
LEMMA RunsNext == TypeOK /\ JudgedByRuns /\ [Next]_vars => JudgedByRuns'
<1>. SUFFICES ASSUME TypeOK, JudgedByRuns, [Next]_vars PROVE JudgedByRuns'
  OBVIOUS
<1>a. ASSUME UNCHANGED lanes PROVE JudgedByRuns'
  BY <1>a DEF JudgedByRuns
<1>1. ASSUME NEW l \in Lane, NEW ok \in BOOLEAN, Heartbeat(l, ok)
      PROVE  JudgedByRuns'
  <2>1. lanes' = [lanes EXCEPT ![l] = Beat(lanes[l], ok)]
    BY <1>1 DEF Heartbeat
  <2>2. lanes \in [Lane -> LaneState]
    BY DEF TypeOK
  <2>3. lanes'[l] = Beat(lanes[l], ok)
        /\ \A m \in Lane \ {l} : lanes'[m] = lanes[m]
    BY <2>1, <2>2
  <2>4. /\ lanes'[l].hits = 0 \/ lanes'[l].misses = 0
        /\ lanes'[l].online => lanes'[l].misses < OfflineMisses
        /\ ~lanes'[l].online => lanes'[l].hits < OnlineHits
    BY <2>2, <2>3, BeatFacts DEF JudgedByRuns
  <2>. QED BY <2>3, <2>4 DEF JudgedByRuns
<1>. QED
  BY <1>1, <1>a
     DEF Next, HandlerNext, Handle, Tick, Push, Cancel, Pop, TakeOut, Assign,
         AssignTimeout, BeginInference, routeVars, vars

\* A lane goes offline only at the end of offline_misses misses in a row and
\* comes back only at the end of online_hits good beats in a row.
THEOREM JudgedByRunsAlways == Spec => []JudgedByRuns
<1>1. Init => TypeOK /\ JudgedByRuns
  BY InitType DEF Init, JudgedByRuns
<1>2. TypeOK /\ JudgedByRuns /\ [Next]_vars => (TypeOK /\ JudgedByRuns)'
  BY NextType, RunsNext
<1>. QED BY <1>1, <1>2, PTL DEF Spec

\* Once a request has begun nobody's step moves it or starts it again.
SealedLane == \A r \in Requests : job[r].started => job'[r] = job[r]

(***************************************************************************)
(* A request that has started keeps its lane: assign_timeout refuses, and  *)
(* no other operation touches its assignment.                              *)
(***************************************************************************)
THEOREM LaneIsSealed == Spec => [][SealedLane]_vars
<1>1. TypeOK /\ [Next]_vars => [SealedLane]_vars
  <2>. SUFFICES ASSUME TypeOK, Next, NEW r \in Requests, job[r].started
                PROVE  job'[r] = job[r]
    BY DEF SealedLane
  <2>a. r \in Assigned
    BY JobFacts
  <2>1. ASSUME NEW s \in Requests, NEW a \in Accounts, NEW now \in Now,
               Handle(s, a, now)
        PROVE  job'[r] = job[r]
    BY <2>a, <2>1 DEF Handle, TypeOK
  <2>2. ASSUME NEW s \in Requests, NEW now \in Now, Assign(s, now)
        PROVE  job'[r] = job[r]
    BY <2>a, <2>2 DEF Assign, TypeOK
  <2>3. ASSUME NEW s \in Requests, NEW now \in Now, AssignTimeout(s, now)
        PROVE  job'[r] = job[r]
    BY <2>3 DEF AssignTimeout, TypeOK
  <2>4. ASSUME NEW s \in Requests, BeginInference(s) PROVE job'[r] = job[r]
    <3>1. CASE s = r
      <4>1. job[r] \in Job
        BY <2>a, JobFacts
      <4>2. [job[r] EXCEPT !.started = TRUE] = job[r]
        BY <4>1 DEF Job
      <4>. QED BY <2>4, <3>1, <4>2 DEF BeginInference, TypeOK
    <3>2. CASE s # r
      BY <2>4, <3>2 DEF BeginInference, TypeOK
    <3>. QED BY <3>1, <3>2
  <2>. QED
    BY <2>1, <2>2, <2>3, <2>4
       DEF Next, HandlerNext, Tick, Push, Cancel, Pop, TakeOut, Heartbeat
<1>2. Init => TypeOK
  BY InitType
<1>3. TypeOK /\ [Next]_vars => TypeOK'
  BY NextType
<1>. QED BY <1>1, <1>2, <1>3, PTL DEF Spec

-----------------------------------------------------------------------------
(* The broker.                                                              *)

\* Between two handlers nothing is left in the queue, and nobody has told
\* the route table anything.
Untouched ==
  /\ items = <<>>
  /\ \A a \in Accounts : perAccount[a] = 0
  /\ lanes["Home"].online
  /\ suspect.failed = NoLane

(***************************************************************************)
(* The handler takes out what it put in.                                   *)
(***************************************************************************)
LEMMA HandleUntouched ==
  ASSUME TypeOK, Untouched, NEW r \in Requests, NEW a \in Accounts, NEW now \in Now,
         Handle(r, a, now)
  PROVE  Untouched'
<1>. DEFINE e == Entry(r, a, now)
<1>1. e \in QueueEntry /\ e.account = a
  BY PushType DEF Entry
<1>2. FirstAfterPush(r, a, now) = e /\ Append(items, e) = <<e>>
  BY <1>1 DEF FirstAfterPush, Untouched
<1>. HIDE DEF e
<1>. DEFINE s == <<e>>
<1>3. s \in Seq(QueueEntry) /\ Len(s) = 1 /\ 1 \in DOMAIN s
  BY <1>1
<1>. HIDE DEF s
<1>4. RemoveAt(s, 1) \in Seq(QueueEntry) /\ Len(RemoveAt(s, 1)) = 0
  <2>1. RemoveAt(s, 1) \in Seq(QueueEntry) /\ Len(RemoveAt(s, 1)) = Len(s) - 1
    BY <1>3, RemoveAtFacts
  <2>. QED BY <1>3, <2>1
<1>5. items' = <<>>
  <2>1. items' = RemoveAt(s, 1)
    BY <1>2 DEF Handle, e, s
  <2>. QED BY <1>4, <2>1
<1>6. perAccount' = RemoveAccount([perAccount EXCEPT ![a] = @ + 1], a)
  BY <1>1, <1>2 DEF Handle, e
<1>7. \A b \in Accounts : perAccount'[b] = 0
  BY <1>6 DEF RemoveAccount, Monus, TypeOK, Untouched
<1>. QED BY <1>7, <1>5 DEF Untouched, Handle, routeVars

\* With queues of a length at all (QueueConfig::default: 64 in all, 3 per
\* member) the broker serves every request the moment it arrives, at home:
\* its answers queue_full, queue_wait_timeout and, after the fee is held,
\* "fallback kapali" are unreachable (BrokerState::transcribe_inner).
THEOREM ServedAtOnceAlways ==
  ASSUME MaxDepth > 0, PerAccountMax > 0
  PROVE  HandlerSpec => []ServedAtOnce
<1>1. Init => TypeOK /\ Untouched
  BY InitType DEF Init, Untouched, Lane
<1>2. TypeOK /\ Untouched /\ [HandlerNext]_vars => (TypeOK /\ Untouched)'
  <2>. SUFFICES ASSUME TypeOK, Untouched, [HandlerNext]_vars
                PROVE  (TypeOK /\ Untouched)'
    OBVIOUS
  <2>1. TypeOK'
    BY NextType DEF Next
  <2>2. ASSUME NEW r \in Requests, NEW a \in Accounts, NEW now \in Now,
               Handle(r, a, now)
        PROVE  Untouched'
    BY <2>2, HandleUntouched
  <2>3. ASSUME Tick \/ UNCHANGED vars PROVE Untouched'
    BY <2>3 DEF Tick, vars, queueVars, routeVars, Untouched
  <2>. QED BY <2>1, <2>2, <2>3 DEF HandlerNext
<1>3. TypeOK /\ Untouched => ServedAtOnce
  <2>. SUFFICES ASSUME TypeOK, Untouched, NEW r \in Requests, NEW a \in Accounts,
                       NEW now \in Now
                PROVE  /\ CanPush(a)
                       /\ FirstAfterPush(r, a, now) = Entry(r, a, now)
                       /\ ~Expired(FirstAfterPush(r, a, now), now)
                       /\ Pick(now) = "Home"
    BY DEF ServedAtOnce
  <2>1. CanPush(a)
    BY DEF CanPush, Untouched
  <2>2. FirstAfterPush(r, a, now) = Entry(r, a, now)
    BY DEF FirstAfterPush, Untouched
  <2>3. ~Expired(Entry(r, a, now), now)
    BY NowIsNat DEF Expired, Entry, Monus
  <2>4. Pick(now) = "Home"
    BY DEF Pick, SuspectActive, NormalRoute, Untouched
  <2>. QED BY <2>1, <2>2, <2>3, <2>4
<1>. QED BY <1>1, <1>2, <1>3, PTL DEF HandlerSpec
=============================================================================
