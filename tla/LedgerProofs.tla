---------------------------- MODULE LedgerProofs ----------------------------
(***************************************************************************)
(* TLAPS proofs about the ledger of Ledger.tla, for every set of accounts  *)
(* and amounts, every finite set of requests, every timeout and every      *)
(* bound.  The first part needs no sum: order, times and tariffs hold      *)
(* whatever balances and holds come out as.  The second part works out     *)
(* what one more line does to the sums over the log, and with it proves    *)
(* that the books are right, that a sweep leaves no stale hold and that    *)
(* the ledger implements the account book of AccountBook.tla.              *)
(***************************************************************************)
EXTENDS Ledger, Sums, TLAPS

\* The entries are a sequence (of what, the proofs need not know).
LogInv == \E S : entries \in Seq(S)

\* Known keys and times are what the types say.
TimeInv ==
  /\ DOMAIN lastTouch \subseteq Key
  /\ \A k \in DOMAIN lastTouch : lastTouch[k] \in Nat
  /\ clock \in Nat

\* The keys still to visit are idle for the timeout of the sweep under way.
SweepInv ==
  /\ sweep = [at |-> sweep.at, keys |-> sweep.keys]
  /\ sweep.at \in Nat
  /\ \A k \in sweep.keys : /\ k \in DOMAIN lastTouch
                           /\ Monus(sweep.at, lastTouch[k]) >= Timeout

\* An admin's line carries no tariff.
AdminInv ==
  \A i \in DOMAIN entries : entries[i].request = NoRequest => entries[i].version = 0

\* What the proofs about order and time rest on, without any sum.
IInv == LogInv /\ TimeInv /\ SweepInv /\ TouchIsLastEntry /\ AdminInv /\ TariffFrozen

(***************************************************************************)
(* Appending to a sequence.                                                *)
(***************************************************************************)
LEMMA AppendFacts ==
  ASSUME LogInv, NEW e
  PROVE  /\ Len(entries) \in Nat
         /\ DOMAIN entries = 1..Len(entries)
         /\ \E S : Append(entries, e) \in Seq(S)
         /\ Len(Append(entries, e)) = Len(entries) + 1
         /\ DOMAIN Append(entries, e) = 1..(Len(entries) + 1)
         /\ Append(entries, e)[Len(entries) + 1] = e
         /\ \A i \in DOMAIN entries : Append(entries, e)[i] = entries[i]
<1>1. PICK S : entries \in Seq(S)
  BY DEF LogInv
<1>2. Len(entries) \in Nat /\ DOMAIN entries = 1..Len(entries)
  BY <1>1
<1>3. entries \in Seq(S \cup {e})
  BY <1>1
<1>4. Append(entries, e) \in Seq(S \cup {e})
  BY <1>3
<1>5. /\ Len(Append(entries, e)) = Len(entries) + 1
      /\ DOMAIN Append(entries, e) = 1..(Len(entries) + 1)
      /\ Append(entries, e)[Len(entries) + 1] = e
      /\ \A i \in DOMAIN entries : Append(entries, e)[i] = entries[i]
  BY <1>2, <1>3
<1> QED
  BY <1>2, <1>4, <1>5

\* A line the ledger may append.
Line(e) ==
  /\ KeyOf(e) \in Key
  /\ e.at \in Nat
  /\ \/ e.kind = "Block" /\ e.request # NoRequest
     \/ e.kind # "Block" /\ e.request = NoRequest /\ e.version = 0
     \/ e.kind # "Block" /\ e.version = PrevVersion(entries, KeyOf(e))

(***************************************************************************)
(* A write of good data appends a line.                                    *)
(***************************************************************************)
LEMMA WriteIsALine ==
  ASSUME NEW a \in Accounts, NEW r \in Requests \cup {NoRequest}, NEW kind \in Kind,
         NEW x, NEW v, NEW now \in Nat, Write(a, r, kind, x, v, now),
         \/ kind = "Block" /\ r # NoRequest
         \/ kind # "Block" /\ r = NoRequest /\ v = 0
         \/ kind # "Block" /\ v = PrevVersion(entries, <<a, r>>)
  PROVE  \E e : Push(e) /\ Line(e) /\ KeyOf(e) = <<a, r>>
<1> DEFINE e == [account |-> a, request |-> r, kind |-> kind, amount |-> x,
                 version |-> v, at |-> now]
<1>1. KeyOf(e) = <<a, r>> /\ <<a, r>> \in Key
  BY DEF KeyOf, Key
<1>2. Push(e)
  BY DEF Write
<1>3. Line(e)
  BY <1>1 DEF Line
<1> QED
  BY <1>1, <1>2, <1>3

(***************************************************************************)
(* What a step does to the entries: a call appends a line while no sweep   *)
(* is under way, a sweep step appends a line of the key it visits.         *)
(***************************************************************************)
LEMMA StepsAppend ==
  ASSUME IInv, [Next]_vars
  PROVE  \/ UNCHANGED <<entries, lastTouch>>
         \/ /\ Idle /\ UNCHANGED <<sweep, clock>>
            /\ \E e : Push(e) /\ Line(e)
         \/ \E k \in sweep.keys :
              /\ sweep' = [sweep EXCEPT !.keys = @ \ {k}]
              /\ UNCHANGED clock
              /\ \E e : Push(e) /\ Line(e) /\ KeyOf(e) = k
<1> DEFINE Appends == /\ Idle /\ UNCHANGED <<sweep, clock>>
                      /\ \E e : Push(e) /\ Line(e)
<1>0. /\ NoRequest \notin Requests
      /\ \A now \in Now : now \in Nat
      /\ sweep.at \in Nat
  BY LedgerAssumption DEF Now, IInv, TimeInv, SweepInv
<1>1. ASSUME NEW now \in Now, NEW a \in Accounts, NEW x \in Amounts, Topup(a, x, now)
      PROVE Appends
  BY <1>0, <1>1, WriteIsALine DEF Topup, Call, Kind
<1>2. ASSUME NEW now \in Now, NEW a \in Accounts, NEW x \in Amounts, Deduct(a, x, now)
      PROVE Appends
  BY <1>0, <1>2, WriteIsALine DEF Deduct, Call, Kind
<1>3. ASSUME NEW now \in Now, NEW a \in Accounts, NEW r \in Requests, NEW x \in Amounts,
             NEW v \in Versions, Block(a, r, x, v, now)
      PROVE Appends
  BY <1>0, <1>3, WriteIsALine DEF Block, Call, Kind
<1>4. ASSUME NEW now \in Now, NEW a \in Accounts, NEW r \in Requests, NEW x \in Amounts,
             Settle(a, r, x, now)
      PROVE Appends
  BY <1>0, <1>4, WriteIsALine DEF Settle, Call, Kind
<1>5. ASSUME NEW now \in Now, NEW a \in Accounts, NEW r \in Requests, NEW x,
             WriteRelease(a, r, x, now), Call
      PROVE Appends
  BY <1>0, <1>5, WriteIsALine DEF WriteRelease, Call, Kind
<1>6. ASSUME NEW k \in sweep.keys, SweepKey(k)
      PROVE  \/ UNCHANGED <<entries, lastTouch>>
             \/ /\ sweep' = [sweep EXCEPT !.keys = @ \ {k}]
                /\ UNCHANGED clock
                /\ \E e : Push(e) /\ Line(e) /\ KeyOf(e) = k
  <2>1. k \in Key
    BY DEF IInv, SweepInv, TimeInv
  <2>2. k = <<k[1], k[2]>> /\ k[1] \in Accounts /\ k[2] \in Requests \cup {NoRequest}
    BY <2>1 DEF Key
  <2>3. ASSUME NEW x, WriteRelease(k[1], k[2], x, sweep.at)
        PROVE \E e : Push(e) /\ Line(e) /\ KeyOf(e) = k
    BY <1>0, <2>2, <2>3, WriteIsALine DEF WriteRelease, Kind
  <2> QED
    BY <1>6, <2>3 DEF SweepKey
<1>7. ASSUME NEW now \in Now, BeginSweep(now) PROVE UNCHANGED <<entries, lastTouch>>
  BY <1>7 DEF BeginSweep
<1>8. Tick \/ UNCHANGED vars => UNCHANGED <<entries, lastTouch>>
  BY DEF Tick, vars
<1>9. CASE CallNext
  <2>1. ASSUME NEW now \in Now, NEW a \in Accounts, NEW r \in Requests, NEW x \in Amounts,
               Release(a, r, x, now)
        PROVE Appends
    BY <1>5, <2>1 DEF Release
  <2>2. ASSUME NEW now \in Now, NEW a \in Accounts, NEW r \in Requests,
               FailRequest(a, r, now)
        PROVE Appends
    BY <1>5, <2>2 DEF FailRequest
  <2> QED
    BY <1>1, <1>2, <1>3, <1>4, <1>9, <2>1, <2>2 DEF CallNext
<1>10. CASE SweepNext
  BY <1>6, <1>7, <1>10 DEF SweepNext
<1> QED
  BY <1>8, <1>9, <1>10 DEF Next

-----------------------------------------------------------------------------
(* The invariant.                                                          *)

(***************************************************************************)
(* A new line becomes the last of its key, and no other key notices.       *)
(***************************************************************************)
LEMMA PushKeepsTouch ==
  ASSUME LogInv, TouchIsLastEntry, NEW e, Push(e)
  PROVE  TouchIsLastEntry'
<1> DEFINE n == Len(entries)
<1>1. /\ n \in Nat
      /\ DOMAIN entries = 1..n /\ DOMAIN entries' = 1..(n + 1)
      /\ entries'[n + 1] = e
      /\ \A i \in 1..n : entries'[i] = entries[i]
  BY AppendFacts DEF Push
<1>2. lastTouch' = [k \in DOMAIN lastTouch \cup {KeyOf(e)} |->
                      IF k = KeyOf(e) THEN e.at ELSE lastTouch[k]]
  BY DEF Push
<1>3. ASSUME NEW i \in DOMAIN entries' PROVE KeyOf(entries'[i]) \in DOMAIN lastTouch'
  <2>1. CASE i = n + 1
    BY <1>1, <1>2, <2>1
  <2>2. CASE i # n + 1
    <3>1. i \in 1..n /\ entries'[i] = entries[i]
      BY <1>1, <2>2
    <3> QED
      BY <1>1, <1>2, <3>1 DEF TouchIsLastEntry
  <2> QED
    BY <2>1, <2>2
<1>4. ASSUME NEW k \in DOMAIN lastTouch'
      PROVE \E i \in DOMAIN entries' : IsLast(i, k)' /\ lastTouch'[k] = entries'[i].at
  <2>1. CASE k = KeyOf(e)
    <3>1. n + 1 \in EntriesOf(entries', k) /\ \A j \in EntriesOf(entries', k) : j <= n + 1
      BY <1>1, <2>1 DEF EntriesOf
    <3> QED
      BY <1>1, <1>2, <2>1, <3>1 DEF IsLast
  <2>2. CASE k # KeyOf(e)
    <3>1. PICK i \in DOMAIN entries : IsLast(i, k) /\ lastTouch[k] = entries[i].at
      BY <1>2, <2>2 DEF TouchIsLastEntry
    <3>2. EntriesOf(entries', k) = EntriesOf(entries, k)
      BY <1>1, <2>2 DEF EntriesOf
    <3> QED
      BY <1>1, <1>2, <2>2, <3>1, <3>2 DEF IsLast
  <2> QED
    BY <2>1, <2>2
<1> QED
  BY <1>3, <1>4 DEF TouchIsLastEntry

(***************************************************************************)
(* The version the ledger looks up is that of the last line of the key.    *)
(***************************************************************************)
LEMMA PrevVersionIsLast ==
  ASSUME LogInv, NEW k, NEW i \in DOMAIN entries, IsLast(i, k)
  PROVE  PrevVersion(entries, k) = entries[i].version
<1> DEFINE last == CHOOSE j \in EntriesOf(entries, k) :
                     \A m \in EntriesOf(entries, k) : m <= j
<1>1. i \in EntriesOf(entries, k) /\ \A m \in EntriesOf(entries, k) : m <= i
  BY DEF IsLast
<1>2. last \in EntriesOf(entries, k) /\ \A m \in EntriesOf(entries, k) : m <= last
  BY <1>1
<1>3. \A m \in EntriesOf(entries, k) : m \in Int
  BY AppendFacts DEF EntriesOf
<1>4. last = i
  BY <1>1, <1>2, <1>3
<1> QED
  BY <1>1, <1>4 DEF PrevVersion

(***************************************************************************)
(* A new line that is no hold carries the version of its key's last line.  *)
(***************************************************************************)
LEMMA LineVersion ==
  ASSUME LogInv, TouchIsLastEntry, AdminInv, NEW e, Line(e), e.kind # "Block",
         NEW i \in DOMAIN entries, KeyOf(entries[i]) = KeyOf(e)
  PROVE  \E l \in DOMAIN entries :
           IsLast(l, KeyOf(e)) /\ i <= l /\ e.version = entries[l].version
<1>1. KeyOf(e) \in DOMAIN lastTouch
  BY DEF TouchIsLastEntry
<1>2. PICK l \in DOMAIN entries : IsLast(l, KeyOf(e))
  BY <1>1 DEF TouchIsLastEntry
<1>3. i <= l
  BY <1>2 DEF IsLast, EntriesOf
<1>4. PrevVersion(entries, KeyOf(e)) = entries[l].version
  BY <1>2, PrevVersionIsLast
<1>5. e.request = NoRequest => entries[l].version = 0
  BY <1>2 DEF IsLast, EntriesOf, KeyOf, AdminInv
<1> QED
  BY <1>2, <1>3, <1>4, <1>5 DEF Line

(***************************************************************************)
(* A new line keeps the tariff frozen.                                     *)
(***************************************************************************)
LEMMA PushKeepsTariff ==
  ASSUME LogInv, TouchIsLastEntry, AdminInv, TariffFrozen, NEW e, Push(e), Line(e)
  PROVE  TariffFrozen'
<1> DEFINE n == Len(entries)
<1>1. /\ n \in Nat
      /\ DOMAIN entries = 1..n /\ DOMAIN entries' = 1..(n + 1)
      /\ entries'[n + 1] = e
      /\ \A i \in 1..n : entries'[i] = entries[i]
  BY AppendFacts DEF Push
<1> SUFFICES ASSUME NEW i \in DOMAIN entries', NEW j \in DOMAIN entries', i < j,
                    KeyOf(entries'[i]) = KeyOf(entries'[j]),
                    \A m \in (i + 1)..j : entries'[m].kind = "Block" =>
                                           KeyOf(entries'[m]) # KeyOf(entries'[i])
             PROVE  entries'[i].version = entries'[j].version
  BY DEF TariffFrozen
<1>2. i \in 1..n /\ entries'[i] = entries[i]
  BY <1>1
<1>3. CASE j \in 1..n
  <2>1. \A m \in (i + 1)..j : entries'[m] = entries[m]
    BY <1>1, <1>2, <1>3
  <2> QED
    BY <1>1, <1>2, <1>3, <2>1 DEF TariffFrozen
<1>4. CASE j = n + 1
  <2>1. e.kind # "Block" /\ KeyOf(entries[i]) = KeyOf(e)
    BY <1>1, <1>2, <1>4
  <2>2. PICK l \in 1..n : IsLast(l, KeyOf(e)) /\ i <= l /\ e.version = entries[l].version
    BY <1>1, <1>2, <2>1, LineVersion
  <2>3. CASE l = i
    BY <1>1, <1>2, <1>4, <2>2, <2>3
  <2>4. CASE i < l
    <3>1. KeyOf(entries[l]) = KeyOf(entries[i])
      BY <2>1, <2>2 DEF IsLast, EntriesOf
    <3>2. \A m \in (i + 1)..l : entries'[m] = entries[m] /\ m \in (i + 1)..j
      BY <1>1, <1>2, <1>4
    <3>3. \A m \in (i + 1)..l : entries[m].kind = "Block" =>
                                  KeyOf(entries[m]) # KeyOf(entries[i])
      BY <1>2, <3>2
    <3>4. entries[i].version = entries[l].version
      BY <1>1, <1>2, <2>2, <2>4, <3>1, <3>3 DEF TariffFrozen
    <3> QED
      BY <1>1, <1>2, <1>4, <2>2, <3>4
  <2> QED
    BY <1>1, <1>2, <2>2, <2>3, <2>4
<1> QED
  BY <1>1, <1>3, <1>4

(***************************************************************************)
(* A new line keeps everything the invariant says of the entries.          *)
(***************************************************************************)
LEMMA PushKeepsLog ==
  ASSUME IInv, UNCHANGED clock, NEW e, Push(e), Line(e)
  PROVE  LogInv' /\ TimeInv' /\ TouchIsLastEntry' /\ AdminInv' /\ TariffFrozen'
<1> USE DEF IInv
<1> DEFINE n == Len(entries)
<1>1. /\ n \in Nat
      /\ DOMAIN entries = 1..n /\ DOMAIN entries' = 1..(n + 1)
      /\ entries'[n + 1] = e
      /\ \A i \in 1..n : entries'[i] = entries[i]
  BY AppendFacts DEF Push
<1>2. LogInv'
  BY AppendFacts DEF LogInv, Push
<1>3. TimeInv'
  BY DEF TimeInv, Push, Line
<1>4. TouchIsLastEntry'
  BY PushKeepsTouch
<1>5. TariffFrozen'
  BY PushKeepsTariff
<1>6. AdminInv'
  <2>1. e.request = NoRequest => e.version = 0
    <3> SUFFICES ASSUME e.request = NoRequest, e.version = PrevVersion(entries, KeyOf(e))
                 PROVE  e.version = 0
      BY DEF Line
    <3>1. CASE EntriesOf(entries, KeyOf(e)) = {}
      BY <3>1 DEF PrevVersion
    <3>2. ASSUME NEW i \in EntriesOf(entries, KeyOf(e)) PROVE e.version = 0
      <4>1. i \in DOMAIN entries /\ KeyOf(entries[i]) = KeyOf(e)
        BY <3>2 DEF EntriesOf
      <4>2. PICK l \in DOMAIN entries : IsLast(l, KeyOf(e))
        BY <4>1 DEF TouchIsLastEntry
      <4>3. e.version = entries[l].version
        BY <4>2, PrevVersionIsLast
      <4> QED
        BY <4>2, <4>3 DEF IsLast, EntriesOf, KeyOf, AdminInv
    <3> QED
      BY <3>1, <3>2
  <2> QED
    BY <1>1, <2>1 DEF AdminInv
<1> QED
  BY <1>2, <1>3, <1>4, <1>5, <1>6

(***************************************************************************)
(* Every step keeps the invariant.                                         *)
(***************************************************************************)
LEMMA NextIInv == IInv /\ [Next]_vars => IInv'
<1> SUFFICES ASSUME IInv, [Next]_vars PROVE IInv'
  OBVIOUS
<1>1. CASE Idle /\ UNCHANGED <<sweep, clock>> /\ \E e : Push(e) /\ Line(e)
  <2>1. SweepInv'
    BY <1>1 DEF IInv, SweepInv, Idle
  <2> QED
    BY <1>1, <2>1, PushKeepsLog DEF IInv
<1>2. ASSUME NEW k \in sweep.keys,
             sweep' = [sweep EXCEPT !.keys = @ \ {k}], UNCHANGED clock,
             NEW e, Push(e), Line(e), KeyOf(e) = k
      PROVE IInv'
  <2>1. sweep'.at = sweep.at /\ sweep'.keys = sweep.keys \ {k}
        /\ sweep' = [at |-> sweep'.at, keys |-> sweep'.keys]
    BY <1>2 DEF IInv, SweepInv
  <2>2. \A l \in sweep'.keys : l \in DOMAIN lastTouch' /\ lastTouch'[l] = lastTouch[l]
    BY <1>2, <2>1 DEF Push, IInv, SweepInv
  <2>3. SweepInv'
    BY <2>1, <2>2 DEF IInv, SweepInv
  <2> QED
    BY <1>2, <2>3, PushKeepsLog DEF IInv
<1>3. CASE UNCHANGED <<entries, lastTouch>>
  <2>1. LogInv' /\ TouchIsLastEntry' /\ AdminInv' /\ TariffFrozen'
    BY <1>3 DEF IInv, LogInv, TouchIsLastEntry, IsLast, AdminInv, TariffFrozen
  <2>2. TimeInv'
    <3>1. clock' = clock \/ clock' = clock + 1
      BY DEF Next, CallNext, SweepNext, Topup, Deduct, Block, Settle, Release, FailRequest,
         Call, BeginSweep, SweepKey, Tick, vars
    <3> QED
      BY <1>3, <3>1 DEF IInv, TimeInv
  <2>3. SweepInv'
    <3>1. ASSUME NEW now \in Now, BeginSweep(now) PROVE SweepInv'
      BY <3>1 DEF BeginSweep, StaleAt, SweepInv, IInv, TimeInv, Now
    <3>2. ASSUME NEW k \in sweep.keys, SweepKey(k) PROVE SweepInv'
      BY <1>3, <3>2 DEF SweepKey, SweepInv, IInv
    <3>3. UNCHANGED sweep => SweepInv'
      BY <1>3 DEF SweepInv, IInv
    <3> QED
      BY <3>1, <3>2, <3>3 DEF Next, CallNext, SweepNext, Topup, Deduct, Block, Settle,
         Release, FailRequest, Call, Tick, vars
  <2> QED
    BY <2>1, <2>2, <2>3 DEF IInv
<1> QED
  BY <1>1, <1>2, <1>3, StepsAppend

-----------------------------------------------------------------------------
(* The theorems.                                                           *)

(***************************************************************************)
(* The inductive invariant holds always.                                   *)
(***************************************************************************)
THEOREM Invariance == Spec => []IInv
<1>1. Init => IInv
  <2> SUFFICES ASSUME Init PROVE IInv
    OBVIOUS
  <2>1. entries \in Seq({}) /\ DOMAIN entries = {}
    BY DEF Init
  <2> QED
    BY <2>1 DEF Init, IInv, LogInv, TimeInv, SweepInv, TouchIsLastEntry, AdminInv,
       TariffFrozen
<1>2. IInv /\ [Next]_vars => IInv'
  BY NextIInv
<1> QED
  BY <1>1, <1>2, PTL DEF Spec

(***************************************************************************)
(* The last-movement map is the time of the last line of every key.        *)
(***************************************************************************)
THEOREM TouchIsLast == Spec => []TouchIsLastEntry
<1>1. IInv => TouchIsLastEntry
  BY DEF IInv
<1> QED
  BY <1>1, Invariance, PTL

(***************************************************************************)
(* The tariff of a request is frozen when its hold is written.             *)
(***************************************************************************)
THEOREM TariffIsFrozen == Spec => []TariffFrozen
<1>1. IInv => TariffFrozen
  BY DEF IInv
<1> QED
  BY <1>1, Invariance, PTL

(***************************************************************************)
(* The sweep writes only for requests that are idle when it writes.        *)
(***************************************************************************)
THEOREM SweepIsPatient == Spec => SweepSparesFreshHolds
<1>1. IInv /\ [Next]_vars =>
        [~Idle /\ entries' # entries =>
           \E k \in sweep.keys, i \in DOMAIN entries :
             /\ IsLast(i, k)
             /\ KeyOf(entries'[Len(entries')]) = k
             /\ sweep.at - entries[i].at >= Timeout]_vars
  <2> SUFFICES ASSUME IInv, [Next]_vars, ~Idle, entries' # entries
               PROVE  \E k \in sweep.keys, i \in DOMAIN entries :
                        /\ IsLast(i, k)
                        /\ KeyOf(entries'[Len(entries')]) = k
                        /\ sweep.at - entries[i].at >= Timeout
    OBVIOUS
  <2>1. PICK k \in sweep.keys : \E e : Push(e) /\ KeyOf(e) = k
    BY StepsAppend
  <2>2. PICK e : Push(e) /\ KeyOf(e) = k
    BY <2>1
  <2>3. KeyOf(entries'[Len(entries')]) = k
    BY <2>2, AppendFacts DEF Push, IInv
  <2>4. PICK i \in DOMAIN entries : IsLast(i, k) /\ lastTouch[k] = entries[i].at
    BY DEF IInv, SweepInv, TouchIsLastEntry
  <2>5. sweep.at - entries[i].at >= Timeout
    BY <2>4, LedgerAssumption DEF IInv, SweepInv, TimeInv, Monus
  <2> QED
    BY <2>3, <2>4, <2>5
<1> QED
  BY <1>1, Invariance, PTL DEF Spec, SweepSparesFreshHolds

-----------------------------------------------------------------------------
(* What a line adds to the derived sums.                                   *)

(***************************************************************************)
(* A sum over one line more is the sum so far and the new line's share.    *)
(***************************************************************************)
LEMMA SumAppend ==
  ASSUME NEW n \in Nat, NEW f, NEW g, DOMAIN f = 1..n, DOMAIN g = 1..(n + 1),
         \A i \in 1..n : f[i] \in Int /\ g[i] = f[i],
         g[n + 1] \in Int
  PROVE  SumFunction(g) = SumFunction(f) + g[n + 1]
<1>1. IsFiniteSet(1..n)
  BY FS_Interval
<1>2. n + 1 \notin 1..n /\ 1..(n + 1) = (1..n) \cup {n + 1}
  OBVIOUS
<1>3. SumFunctionOnSet(g, (1..n) \cup {n + 1}) = SumFunctionOnSet(g, 1..n) + g[n + 1]
  BY <1>1, <1>2, SumInsert
<1>4. SumFunctionOnSet(f, 1..n) = SumFunctionOnSet(g, 1..n)
  BY <1>1, SumCong
<1> QED
  BY <1>2, <1>3, <1>4 DEF SumFunction

(***************************************************************************)
(* The sum over a sequence of lines, by the type of the lines.             *)
(***************************************************************************)
LEMMA SumOfLines ==
  ASSUME NEW n \in Nat, NEW f, DOMAIN f = 1..n
  PROVE  /\ (\A i \in 1..n : f[i] \in Int) => SumFunction(f) \in Int
         /\ (\A i \in 1..n : f[i] \in Nat) => SumFunction(f) \in Nat
         /\ (\A i \in 1..n : f[i] = 0) => SumFunction(f) = 0
<1>1. IsFiniteSet(1..n)
  BY FS_Interval
<1> QED
  BY <1>1, SumType, SumNat, SumZero DEF SumFunction

\* What line e adds to Total(log, kind, a, requests).
Share(e, kind, a, requests) ==
  IF e.kind = kind /\ e.account = a /\ e.request \in requests THEN e.amount ELSE 0

(***************************************************************************)
(* The sums are numbers, and appending a line adds its share to each.      *)
(***************************************************************************)
LEMMA TotalIsNat ==
  ASSUME NEW log \in Seq(Entry), NEW kind, NEW a, NEW requests
  PROVE  Total(log, kind, a, requests) \in Nat
<1> DEFINE f == [i \in DOMAIN log |-> Share(log[i], kind, a, requests)]
<1>1. Len(log) \in Nat /\ DOMAIN log = 1..Len(log) /\ DOMAIN f = 1..Len(log)
  OBVIOUS
<1>0. \A i \in 1..Len(log) : log[i] \in Entry
  OBVIOUS
<1>2. \A i \in 1..Len(log) : f[i] \in Nat
  BY <1>0, <1>1 DEF Entry, Share
<1>3. Total(log, kind, a, requests) = SumFunction(f)
  BY DEF Total, Share
<1> HIDE DEF f
<1> QED
  BY <1>1, <1>2, <1>3, SumOfLines

(***************************************************************************)
(* A balance is an integer.                                                *)
(***************************************************************************)
LEMMA BalanceIsInt ==
  ASSUME NEW log \in Seq(Entry), NEW a
  PROVE  Balance(log, a) \in Int
<1> DEFINE f == [i \in DOMAIN log |-> IF log[i].account = a THEN Delta(log[i]) ELSE 0]
<1>1. Len(log) \in Nat /\ DOMAIN log = 1..Len(log) /\ DOMAIN f = 1..Len(log)
  OBVIOUS
<1>0. \A i \in 1..Len(log) : log[i] \in Entry
  OBVIOUS
<1>2. \A i \in 1..Len(log) : f[i] \in Int
  BY <1>0, <1>1 DEF Entry, Kind, Delta
<1>3. Balance(log, a) = SumFunction(f)
  BY DEF Balance
<1> HIDE DEF f
<1> QED
  BY <1>1, <1>2, <1>3, SumOfLines

(***************************************************************************)
(* A new line moves a total by its share.                                  *)
(***************************************************************************)
LEMMA AppendTotal ==
  ASSUME NEW log \in Seq(Entry), NEW e \in Entry, NEW kind, NEW a, NEW requests
  PROVE  Total(Append(log, e), kind, a, requests)
           = Total(log, kind, a, requests) + Share(e, kind, a, requests)
<1> DEFINE n == Len(log)
           f == [i \in DOMAIN log |-> Share(log[i], kind, a, requests)]
           g == [i \in DOMAIN Append(log, e) |-> Share(Append(log, e)[i], kind, a, requests)]
<1>1. n \in Nat /\ DOMAIN log = 1..n /\ DOMAIN Append(log, e) = 1..(n + 1)
  OBVIOUS
<1>0. /\ \A i \in 1..n : log[i] \in Entry /\ Append(log, e)[i] = log[i]
      /\ Append(log, e)[n + 1] = e
  OBVIOUS
<1>2. DOMAIN f = 1..n /\ DOMAIN g = 1..(n + 1)
  BY <1>1
<1>3. \A i \in 1..n : f[i] \in Int /\ g[i] = f[i]
  BY <1>0, <1>1 DEF Entry, Share
<1>4. g[n + 1] = Share(e, kind, a, requests) /\ g[n + 1] \in Int
  BY <1>0, <1>1 DEF Entry, Share
<1>5. Total(log, kind, a, requests) = SumFunction(f)
  BY DEF Total, Share
<1>6. Total(Append(log, e), kind, a, requests) = SumFunction(g)
  BY DEF Total, Share
<1> HIDE DEF f, g, n
<1> QED
  BY <1>1, <1>2, <1>3, <1>4, <1>5, <1>6, SumAppend

(***************************************************************************)
(* A new line moves the balance of its own account only.                   *)
(***************************************************************************)
LEMMA AppendBalance ==
  ASSUME NEW log \in Seq(Entry), NEW e \in Entry, NEW a
  PROVE  Balance(Append(log, e), a)
           = Balance(log, a) + (IF e.account = a THEN Delta(e) ELSE 0)
<1> DEFINE n == Len(log)
           w(x) == IF x.account = a THEN Delta(x) ELSE 0
           f == [i \in DOMAIN log |-> w(log[i])]
           g == [i \in DOMAIN Append(log, e) |-> w(Append(log, e)[i])]
<1>1. n \in Nat /\ DOMAIN log = 1..n /\ DOMAIN Append(log, e) = 1..(n + 1)
  OBVIOUS
<1>0. /\ \A i \in 1..n : log[i] \in Entry /\ Append(log, e)[i] = log[i]
      /\ Append(log, e)[n + 1] = e
  OBVIOUS
<1>2. DOMAIN f = 1..n /\ DOMAIN g = 1..(n + 1)
  BY <1>1
<1>3. \A i \in 1..n : f[i] \in Int /\ g[i] = f[i]
  BY <1>0, <1>1 DEF Entry, Kind, Delta
<1>4. g[n + 1] = w(e) /\ g[n + 1] \in Int
  BY <1>1 DEF Entry, Kind, Delta
<1>5. Balance(log, a) = SumFunction(f)
  BY DEF Balance
<1>6. Balance(Append(log, e), a) = SumFunction(g)
  BY DEF Balance
<1> HIDE DEF f, g, n
<1> QED
  BY <1>1, <1>2, <1>3, <1>4, <1>5, <1>6, SumAppend

(***************************************************************************)
(* An open hold is never negative: the code subtracts with saturation.     *)
(***************************************************************************)
LEMMA OutstandingIsNat ==
  ASSUME NEW log \in Seq(Entry), NEW a, NEW r
  PROVE  Outstanding(log, a, r) \in Nat
BY TotalIsNat DEF Outstanding, Monus

(***************************************************************************)
(* The version of the last line of a key, when the key has one.            *)
(***************************************************************************)
LEMMA PrevVersionIsNat ==
  ASSUME NEW log \in Seq(Entry), NEW k, NEW i \in DOMAIN log, 
         i \in EntriesOf(log, k), \A j \in EntriesOf(log, k) : j <= i
  PROVE  PrevVersion(log, k) \in Nat
<1> DEFINE last == CHOOSE l \in EntriesOf(log, k) : \A j \in EntriesOf(log, k) : j <= l
<1>1. last \in EntriesOf(log, k)
  OBVIOUS
<1>2. last \in DOMAIN log
  BY <1>1 DEF EntriesOf
<1>3. log[last].version \in Nat
  <2>1. log[last] \in Entry
    BY <1>2
  <2> QED
    BY <2>1 DEF Entry
<1> QED
  BY <1>3 DEF PrevVersion

-----------------------------------------------------------------------------
(* The type invariant.                                                     *)

(***************************************************************************)
(* A write of good data keeps the type of the entries and of the times.    *)
(***************************************************************************)
LEMMA WriteKeepsType ==
  ASSUME TypeOK, NEW a \in Accounts, NEW r \in Requests \cup {NoRequest},
         NEW kind \in Kind, NEW x \in Nat, NEW v \in Nat, NEW now \in Nat,
         Write(a, r, kind, x, v, now)
  PROVE  /\ entries' \in Seq(Entry)
         /\ DOMAIN lastTouch \subseteq DOMAIN lastTouch'
         /\ DOMAIN lastTouch' \subseteq Key
         /\ \A k \in DOMAIN lastTouch' : lastTouch'[k] \in Nat
<1> DEFINE e == [account |-> a, request |-> r, kind |-> kind, amount |-> x,
                 version |-> v, at |-> now]
<1>1. e \in Entry /\ KeyOf(e) \in Key /\ e.at \in Nat
  BY DEF Entry, KeyOf, Key
<1>2. Push(e)
  BY DEF Write
<1> HIDE DEF e
<1> QED
  BY <1>1, <1>2 DEF Push, TypeOK

(***************************************************************************)
(* The version a new line of a key takes over.                             *)
(***************************************************************************)
LEMMA PrevVersionType ==
  ASSUME TypeOK, TouchIsLastEntry, NEW k
  PROVE  PrevVersion(entries, k) \in Nat
<1>1. CASE EntriesOf(entries, k) = {}
  BY <1>1 DEF PrevVersion
<1>2. ASSUME NEW i \in EntriesOf(entries, k) PROVE PrevVersion(entries, k) \in Nat
  <2>1. k \in DOMAIN lastTouch
    BY <1>2 DEF EntriesOf, TouchIsLastEntry
  <2>2. PICK l \in DOMAIN entries : IsLast(l, k)
    BY <2>1 DEF TouchIsLastEntry
  <2> QED
    BY <2>2, PrevVersionIsNat DEF IsLast, TypeOK
<1> QED
  BY <1>1, <1>2

(***************************************************************************)
(* Every call and every sweep step keeps the types.                        *)
(***************************************************************************)
LEMMA NextTypeOK ==
  ASSUME TypeOK, TouchIsLastEntry, [Next]_vars
  PROVE  TypeOK'
<1>0. /\ \A now \in Now : now \in Nat
      /\ Amounts \subseteq Nat /\ Versions \subseteq Nat
      /\ sweep.at \in Nat /\ clock \in Nat
      /\ \A a, r : Outstanding(entries, a, r) \in Nat
      /\ \A k : PrevVersion(entries, k) \in Nat
      /\ {"Topup", "Deduct", "Block", "Settle", "Release"} \subseteq Kind
  BY LedgerAssumption, OutstandingIsNat, PrevVersionType DEF TypeOK, Now, Kind
<1>1. ASSUME NEW a \in Accounts, NEW r \in Requests \cup {NoRequest}, NEW kind \in Kind,
             NEW x \in Nat, NEW v \in Nat, NEW now \in Nat,
             Write(a, r, kind, x, v, now), UNCHANGED <<sweep, clock>>
      PROVE TypeOK'
  BY <1>1, WriteKeepsType DEF TypeOK
<1>2. ASSUME NEW now \in Now, NEW a \in Accounts, NEW x \in Amounts,
             Topup(a, x, now) \/ Deduct(a, x, now)
      PROVE TypeOK'
  BY <1>0, <1>1, <1>2 DEF Topup, Deduct, Call
<1>3. ASSUME NEW now \in Now, NEW a \in Accounts, NEW r \in Requests, NEW x \in Amounts,
             NEW v \in Versions, Block(a, r, x, v, now)
      PROVE TypeOK'
  BY <1>0, <1>1, <1>3 DEF Block, Call
<1>4. ASSUME NEW now \in Now, NEW a \in Accounts, NEW r \in Requests, NEW x \in Amounts,
             Settle(a, r, x, now) \/ Release(a, r, x, now)
      PROVE TypeOK'
  BY <1>0, <1>1, <1>4 DEF Settle, Release, WriteRelease, Call
<1>5. ASSUME NEW now \in Now, NEW a \in Accounts, NEW r \in Requests, FailRequest(a, r, now)
      PROVE TypeOK'
  BY <1>0, <1>1, <1>5 DEF FailRequest, WriteRelease, Call
<1>6. ASSUME NEW now \in Now, BeginSweep(now) PROVE TypeOK'
  BY <1>0, <1>6 DEF BeginSweep, StaleAt, TypeOK
<1>7. ASSUME NEW k \in sweep.keys, SweepKey(k) PROVE TypeOK'
  <2>1. k[1] \in Accounts /\ k[2] \in Requests \cup {NoRequest}
    BY DEF TypeOK, Key
  <2>2. sweep' \in [at : Nat, keys : SUBSET DOMAIN lastTouch] /\ UNCHANGED clock
    BY <1>7 DEF SweepKey, TypeOK
  <2>3. CASE UNCHANGED <<entries, lastTouch>>
    BY <2>2, <2>3 DEF TypeOK
  <2>4. CASE WriteRelease(k[1], k[2], Outstanding(entries, k[1], k[2]), sweep.at)
    <3>1. /\ entries' \in Seq(Entry)
          /\ DOMAIN lastTouch \subseteq DOMAIN lastTouch'
          /\ DOMAIN lastTouch' \subseteq Key
          /\ \A l \in DOMAIN lastTouch' : lastTouch'[l] \in Nat
      BY <1>0, <2>1, <2>4, WriteKeepsType DEF WriteRelease
    <3> QED
      BY <2>2, <3>1 DEF TypeOK
  <2> QED
    BY <1>7, <2>3, <2>4 DEF SweepKey
<1>8. CASE Tick
  BY <1>8 DEF Tick, TypeOK
<1>9. CASE UNCHANGED vars
  BY <1>9 DEF vars, TypeOK
<1> QED
  BY <1>2, <1>3, <1>4, <1>5, <1>6, <1>7, <1>8, <1>9 DEF Next, CallNext, SweepNext

(***************************************************************************)
(* Every reachable state is well typed.                                    *)
(***************************************************************************)
THEOREM TypeCorrect == Spec => []TypeOK
<1>1. Init => TypeOK
  BY DEF Init, TypeOK
<1>2. TypeOK /\ IInv /\ [Next]_vars => TypeOK'
  BY NextTypeOK DEF IInv
<1> QED
  BY <1>1, <1>2, Invariance, PTL DEF Spec

-----------------------------------------------------------------------------
(* The books.                                                              *)

\* Only an admin's line is without a request.
KindInv ==
  \A i \in DOMAIN entries :
    entries[i].kind \in {"Topup", "Deduct"} <=> entries[i].request = NoRequest

\* No request is charged or given back more than was blocked for it: the
\* saturating subtraction of Outstanding never saturates.
HoldsCovered ==
  \A a \in Accounts, r \in Requests :
    Total(entries, "Settle", a, {r}) + Total(entries, "Release", a, {r})
      <= Total(entries, "Block", a, {r})

\* What the proofs about money rest on.
MoneyInv == KindInv /\ HoldsCovered /\ DerivedSumsAgree

\* A line some call or the sweep may append: what each of them has checked.
Legal(e) ==
  \/ e.kind = "Topup" /\ e.request = NoRequest /\ e.amount > 0
  \/ /\ e.kind = "Deduct" /\ e.request = NoRequest /\ e.amount > 0
     /\ e.amount <= Balance(entries, e.account)
  \/ /\ e.kind = "Block" /\ e.request \in Requests /\ e.amount > 0
     /\ Outstanding(entries, e.account, e.request) = 0
     /\ e.amount <= Balance(entries, e.account)
  \/ /\ e.kind = "Settle" /\ e.request \in Requests
     /\ e.amount <= Outstanding(entries, e.account, e.request)
  \/ /\ e.kind = "Release" /\ e.request \in Requests /\ e.amount > 0
     /\ e.amount <= Outstanding(entries, e.account, e.request)

\* What a caller asks for is one of the amounts; only what the ledger works
\* out itself, a settle or a release, may be another.
Asked(e) == e.kind \in {"Topup", "Deduct", "Block"} => e.amount \in Amounts

(***************************************************************************)
(* An admin's key holds nothing.                                           *)
(***************************************************************************)
LEMMA NoAdminHold ==
  ASSUME TypeOK, KindInv, NEW a
  PROVE  Outstanding(entries, a, NoRequest) = 0
<1> DEFINE f == [i \in DOMAIN entries |-> Share(entries[i], "Block", a, {NoRequest})]
<1>1. Len(entries) \in Nat /\ DOMAIN entries = 1..Len(entries) /\ DOMAIN f = 1..Len(entries)
  BY DEF TypeOK
<1>2. \A i \in 1..Len(entries) : f[i] = 0
  BY <1>1 DEF KindInv, Share
<1>3. Total(entries, "Block", a, {NoRequest}) = SumFunction(f)
  BY DEF Total, Share
<1>4. Total(entries, "Block", a, {NoRequest}) = 0
  <2> HIDE DEF f
  <2> QED
    BY <1>1, <1>2, <1>3, SumOfLines
<1> QED
  BY <1>4, TotalIsNat DEF Outstanding, Monus, TypeOK

(***************************************************************************)
(* Every step leaves the entries alone or appends one legal line; a step   *)
(* of the sweep takes back all its key holds.                              *)
(***************************************************************************)
LEMMA WriteAppends ==
  ASSUME TypeOK, NEW a \in Accounts, NEW r \in Requests \cup {NoRequest},
         NEW kind \in Kind, NEW x \in Nat, NEW v \in Nat, NEW now \in Nat,
         Write(a, r, kind, x, v, now)
  PROVE  \E e \in Entry : /\ entries' = Append(entries, e)
                          /\ e.account = a /\ e.request = r /\ e.kind = kind
                          /\ e.amount = x
<1> DEFINE e == [account |-> a, request |-> r, kind |-> kind, amount |-> x,
                 version |-> v, at |-> now]
<1>1. e \in Entry
  BY DEF Entry
<1>2. entries' = Append(entries, e)
  BY DEF Write, Push
<1> QED
  BY <1>1, <1>2

(***************************************************************************)
(* A call appends one legal line.                                          *)
(***************************************************************************)
LEMMA CallPosts ==
  ASSUME TypeOK, TouchIsLastEntry, CallNext
  PROVE  \E e \in Entry : entries' = Append(entries, e) /\ Legal(e) /\ Asked(e)
<1> DEFINE Posts == \E e \in Entry : entries' = Append(entries, e) /\ Legal(e) /\ Asked(e)
<1>0. /\ \A now \in Now : now \in Nat
      /\ Amounts \subseteq Nat /\ Versions \subseteq Nat
      /\ \A a, r : Outstanding(entries, a, r) \in Nat
      /\ \A k : PrevVersion(entries, k) \in Nat
      /\ {"Topup", "Deduct", "Block", "Settle", "Release"} \subseteq Kind
      /\ \A a : Balance(entries, a) \in Int
  BY LedgerAssumption, OutstandingIsNat, PrevVersionType, BalanceIsInt DEF TypeOK, Now, Kind
<1>1. ASSUME NEW now \in Now, NEW a \in Accounts, NEW x \in Amounts, Topup(a, x, now)
      PROVE Posts
  <2>1. PICK e \in Entry : /\ entries' = Append(entries, e)
                           /\ e.account = a /\ e.request = NoRequest
                           /\ e.kind = "Topup" /\ e.amount = x
    <3>1. Write(a, NoRequest, "Topup", x, 0, now)
      BY <1>1 DEF Topup
    <3>2. x \in Nat /\ now \in Nat /\ NoRequest \in Requests \cup {NoRequest}
          /\ "Topup" \in Kind /\ 0 \in Nat
      BY <1>0
    <3> QED
      BY <3>1, <3>2, WriteAppends
  <2> QED
    BY <1>1, <2>1 DEF Topup, Legal, Asked
<1>2. ASSUME NEW now \in Now, NEW a \in Accounts, NEW x \in Amounts, Deduct(a, x, now)
      PROVE Posts
  <2>1. PICK e \in Entry : /\ entries' = Append(entries, e)
                           /\ e.account = a /\ e.request = NoRequest
                           /\ e.kind = "Deduct" /\ e.amount = x
    <3>1. Write(a, NoRequest, "Deduct", x, 0, now)
      BY <1>2 DEF Deduct
    <3>2. x \in Nat /\ now \in Nat /\ NoRequest \in Requests \cup {NoRequest}
          /\ "Deduct" \in Kind /\ 0 \in Nat
      BY <1>0
    <3> QED
      BY <3>1, <3>2, WriteAppends
  <2> QED
    BY <1>0, <1>2, <2>1 DEF Deduct, Legal, Asked
<1>3. ASSUME NEW now \in Now, NEW a \in Accounts, NEW r \in Requests, NEW x \in Amounts,
             NEW v \in Versions, Block(a, r, x, v, now)
      PROVE Posts
  <2>1. PICK e \in Entry : /\ entries' = Append(entries, e)
                           /\ e.account = a /\ e.request = r
                           /\ e.kind = "Block" /\ e.amount = x
    BY <1>0, <1>3, WriteAppends DEF Block
  <2> QED
    BY <1>0, <1>3, <2>1 DEF Block, Legal, Asked
<1>4. ASSUME NEW now \in Now, NEW a \in Accounts, NEW r \in Requests, NEW x \in Amounts,
             Settle(a, r, x, now)
      PROVE Posts
  <2>1. PICK e \in Entry : /\ entries' = Append(entries, e)
                           /\ e.account = a /\ e.request = r
                           /\ e.kind = "Settle" /\ e.amount = x
    BY <1>0, <1>4, WriteAppends DEF Settle
  <2> QED
    BY <1>4, <2>1 DEF Settle, Legal, Asked
<1>5. ASSUME NEW now \in Now, NEW a \in Accounts, NEW r \in Requests, NEW x \in Nat,
             WriteRelease(a, r, x, now)
      PROVE Posts
  <2>1. PICK e \in Entry : /\ entries' = Append(entries, e)
                           /\ e.account = a /\ e.request = r
                           /\ e.kind = "Release" /\ e.amount = x
    BY <1>0, <1>5, WriteAppends DEF WriteRelease
  <2> QED
    BY <1>5, <2>1 DEF WriteRelease, Legal, Asked
<1>6. ASSUME NEW now \in Now, NEW a \in Accounts, NEW r \in Requests, NEW x \in Amounts,
             Release(a, r, x, now)
      PROVE Posts
  BY <1>0, <1>5, <1>6 DEF Release
<1>7. ASSUME NEW now \in Now, NEW a \in Accounts, NEW r \in Requests, FailRequest(a, r, now)
      PROVE Posts
  BY <1>0, <1>5, <1>7 DEF FailRequest
<1> HIDE DEF Posts
<1>8. Posts
  BY <1>1, <1>2, <1>3, <1>4, <1>6, <1>7 DEF CallNext
<1> QED
  BY <1>8 DEF Posts

(***************************************************************************)
(* A sweep step releases all of the hold of its key, or has none.          *)
(***************************************************************************)
LEMMA SweepPosts ==
  ASSUME TypeOK, TouchIsLastEntry, KindInv, NEW k \in sweep.keys, SweepKey(k)
  PROVE  \/ UNCHANGED entries /\ Outstanding(entries, k[1], k[2]) = 0
         \/ \E e \in Entry :
              /\ entries' = Append(entries, e)
              /\ Legal(e) /\ Asked(e)
              /\ k = <<e.account, e.request>>
              /\ e.kind = "Release"
              /\ e.amount = Outstanding(entries, k[1], k[2])
<1>0. /\ sweep.at \in Nat
      /\ \A a, r : Outstanding(entries, a, r) \in Nat
      /\ \A l : PrevVersion(entries, l) \in Nat
      /\ "Release" \in Kind
  BY OutstandingIsNat, PrevVersionType DEF TypeOK, Kind
<1>1. k[1] \in Accounts /\ k[2] \in Requests \cup {NoRequest} /\ k = <<k[1], k[2]>>
  BY DEF TypeOK, Key
<1>2. CASE ~(Outstanding(entries, k[1], k[2]) > 0)
  BY <1>0, <1>2 DEF SweepKey
<1>3. CASE Outstanding(entries, k[1], k[2]) > 0
  <2>1. WriteRelease(k[1], k[2], Outstanding(entries, k[1], k[2]), sweep.at)
    BY <1>3 DEF SweepKey
  <2>2. PICK e \in Entry : /\ entries' = Append(entries, e)
                           /\ e.account = k[1] /\ e.request = k[2] /\ e.kind = "Release"
                           /\ e.amount = Outstanding(entries, k[1], k[2])
    <3> DEFINE x == Outstanding(entries, k[1], k[2])
               v == PrevVersion(entries, <<k[1], k[2]>>)
    <3>1. Write(k[1], k[2], "Release", x, v, sweep.at)
      BY <2>1 DEF WriteRelease
    <3>2. x \in Nat /\ v \in Nat
      BY <1>0
    <3> HIDE DEF x, v
    <3>3. \E e \in Entry : /\ entries' = Append(entries, e)
                          /\ e.account = k[1] /\ e.request = k[2] /\ e.kind = "Release"
                          /\ e.amount = x
      BY <1>0, <1>1, <3>1, <3>2, WriteAppends
    <3> QED
      BY <3>3 DEF x
  <2>3. k[2] # NoRequest
    BY <1>3, NoAdminHold
  <2>4. Legal(e) /\ Asked(e)
    BY <1>1, <2>1, <2>2, <2>3 DEF Legal, Asked, WriteRelease
  <2> QED
    BY <1>1, <2>2, <2>4
<1> QED
  BY <1>2, <1>3

(***************************************************************************)
(* Every step appends one legal line or none.                              *)
(***************************************************************************)
LEMMA StepsPost ==
  ASSUME TypeOK, TouchIsLastEntry, KindInv, [Next]_vars
  PROVE  \/ UNCHANGED entries
         \/ \E e \in Entry : entries' = Append(entries, e) /\ Legal(e) /\ Asked(e)
<1>1. ASSUME NEW k \in sweep.keys, SweepKey(k)
      PROVE  \/ UNCHANGED entries
             \/ \E e \in Entry : entries' = Append(entries, e) /\ Legal(e) /\ Asked(e)
  BY <1>1, SweepPosts
<1>2. ASSUME NEW now \in Now, BeginSweep(now) PROVE UNCHANGED entries
  BY <1>2 DEF BeginSweep
<1>3. Tick \/ UNCHANGED vars => UNCHANGED entries
  BY DEF Tick, vars
<1> QED
  BY <1>1, <1>2, <1>3, CallPosts DEF Next, SweepNext

(***************************************************************************)
(* What a legal line does to a hold, to the open holds and to the charges  *)
(* of an account.                                                          *)
(***************************************************************************)
HoldShare(e, a, r) ==
  Share(e, "Block", a, {r}) - Share(e, "Settle", a, {r}) - Share(e, "Release", a, {r})

(***************************************************************************)
(* Shares are natural numbers.                                             *)
(***************************************************************************)
LEMMA ShareIsNat ==
  ASSUME NEW e \in Entry, NEW kind, NEW a, NEW requests
  PROVE  Share(e, kind, a, requests) \in Nat
BY DEF Share, Entry

(***************************************************************************)
(* A legal line moves the hold of one request by its share and never takes *)
(* more out of it than was put in.                                         *)
(***************************************************************************)
LEMMA HoldMoves ==
  ASSUME TypeOK, HoldsCovered, NEW e \in Entry, Legal(e), NEW a \in Accounts, NEW r \in Requests
  PROVE  /\ Total(Append(entries, e), "Settle", a, {r})
              + Total(Append(entries, e), "Release", a, {r})
              <= Total(Append(entries, e), "Block", a, {r})
         /\ Outstanding(Append(entries, e), a, r)
              = Outstanding(entries, a, r) + HoldShare(e, a, r)
<1> DEFINE B == Total(entries, "Block", a, {r})
           S == Total(entries, "Settle", a, {r})
           R == Total(entries, "Release", a, {r})
           b == Share(e, "Block", a, {r})
           s == Share(e, "Settle", a, {r})
           l == Share(e, "Release", a, {r})
<1>1. B \in Nat /\ S \in Nat /\ R \in Nat /\ S + R <= B
  BY TotalIsNat DEF TypeOK, HoldsCovered
<1>2. b \in Nat /\ s \in Nat /\ l \in Nat
  BY ShareIsNat
<1>3. /\ Total(Append(entries, e), "Block", a, {r}) = B + b
      /\ Total(Append(entries, e), "Settle", a, {r}) = S + s
      /\ Total(Append(entries, e), "Release", a, {r}) = R + l
  BY AppendTotal DEF TypeOK
<1>4. Outstanding(entries, a, r) = Monus(Monus(B, S), R)
  BY DEF Outstanding
<1>5. Outstanding(Append(entries, e), a, r) = Monus(Monus(B + b, S + s), R + l)
  BY <1>3 DEF Outstanding
<1>6. Outstanding(entries, a, r) = B - S - R
  <2> HIDE DEF B, S, R
  <2> QED
    BY <1>1, <1>4 DEF Monus
<1>7. S + s + R + l <= B + b
  <2>1. CASE e.account = a /\ e.request = r
    <3>1. \/ e.kind = "Block" /\ s = 0 /\ l = 0
          \/ e.kind = "Settle" /\ l = 0 /\ b = 0 /\ s <= Outstanding(entries, a, r)
          \/ e.kind = "Release" /\ s = 0 /\ b = 0 /\ l <= Outstanding(entries, a, r)
          \/ s = 0 /\ l = 0
      BY <2>1 DEF Legal, Share
    <3> HIDE DEF B, S, R, b, s, l
    <3> QED
      BY <1>1, <1>2, <1>6, <3>1
  <2>2. CASE ~(e.account = a /\ e.request = r)
    <3>1. b = 0 /\ s = 0 /\ l = 0
      BY <2>2 DEF Share
    <3> HIDE DEF B, S, R, b, s, l
    <3> QED
      BY <1>1, <3>1
  <2> QED
    BY <2>1, <2>2
<1>8. HoldShare(e, a, r) = b - s - l
  BY DEF HoldShare
<1> HIDE DEF B, S, R, b, s, l
<1> QED
  BY <1>1, <1>2, <1>3, <1>5, <1>6, <1>7, <1>8 DEF Monus

(***************************************************************************)
(* The open holds of an account, summed over all its requests, move with   *)
(* the shares of the new line.                                             *)
(***************************************************************************)
LEMMA OpenHoldsMove ==
  ASSUME TypeOK, HoldsCovered, NEW e \in Entry, Legal(e), NEW a \in Accounts
  PROVE  /\ OpenHolds(entries, a) \in Nat
         /\ OpenHolds(Append(entries, e), a)
              = OpenHolds(entries, a)
                  + Share(e, "Block", a, Requests)
                  - Share(e, "Settle", a, Requests) - Share(e, "Release", a, Requests)
<1> DEFINE f == [r \in Requests |-> Outstanding(entries, a, r)]
           g == [r \in Requests |-> Outstanding(Append(entries, e), a, r)]
<1>1. /\ OpenHolds(entries, a) = SumFunctionOnSet(f, Requests)
      /\ OpenHolds(Append(entries, e), a) = SumFunctionOnSet(g, Requests)
  BY DEF OpenHolds, SumFunction
<1>2. IsFiniteSet(Requests)
  BY LedgerAssumption
<1>3. \A r \in Requests : f[r] \in Nat /\ g[r] = f[r] + HoldShare(e, a, r)
  BY OutstandingIsNat, HoldMoves DEF TypeOK
<1>4. \A r \in Requests : HoldShare(e, a, r) \in Int
  BY ShareIsNat DEF HoldShare
<1>5. OpenHolds(entries, a) \in Nat
  <2> HIDE DEF f
  <2> QED
    BY <1>1, <1>2, <1>3, SumNat
<1>6. CASE e.account = a /\ e.request \in Requests
  <2> DEFINE q == e.request
  <2>1. \A r \in Requests : r # q => HoldShare(e, a, r) = 0
    BY DEF HoldShare, Share
  <2>2. HoldShare(e, a, q) = Share(e, "Block", a, Requests)
          - Share(e, "Settle", a, Requests) - Share(e, "Release", a, Requests)
    BY <1>6 DEF HoldShare, Share
  <2>3. SumFunctionOnSet(g, Requests) = SumFunctionOnSet(f, Requests) - f[q] + g[q]
    <3>1. \A r \in Requests : r # q => g[r] = f[r]
      <4> HIDE DEF f, g, q
      <4> QED
        BY <1>3, <2>1
    <3>2. \A r \in Requests : f[r] \in Int /\ g[r] \in Int
      <4> HIDE DEF f, g
      <4> QED
        BY <1>3, <1>4
    <3> HIDE DEF f, g
    <3> QED
      BY <1>2, <1>6, <3>1, <3>2, SumChange
  <2>4. g[q] = f[q] + HoldShare(e, a, q) /\ f[q] \in Nat /\ HoldShare(e, a, q) \in Int
    BY <1>3, <1>4, <1>6
  <2> HIDE DEF f, g, q
  <2>5. SumFunctionOnSet(g, Requests) = SumFunctionOnSet(f, Requests) + HoldShare(e, a, q)
    BY <1>1, <1>5, <2>3, <2>4
  <2>6. /\ Share(e, "Block", a, Requests) \in Nat
        /\ Share(e, "Settle", a, Requests) \in Nat
        /\ Share(e, "Release", a, Requests) \in Nat
    BY ShareIsNat
  <2> QED
    BY <1>1, <1>5, <2>2, <2>5, <2>6
<1>7. CASE ~(e.account = a /\ e.request \in Requests)
  <2>1. \A r \in Requests : HoldShare(e, a, r) = 0
    BY <1>7 DEF HoldShare, Share
  <2>2. SumFunctionOnSet(g, Requests) = SumFunctionOnSet(f, Requests)
    <3>1. \A r \in Requests : f[r] \in Int /\ f[r] = g[r]
      <4> HIDE DEF f, g
      <4> QED
        BY <1>3, <2>1
    <3> HIDE DEF f, g
    <3> QED
      BY <1>2, <3>1, SumCong
  <2>3. /\ Share(e, "Block", a, Requests) = 0
        /\ Share(e, "Settle", a, Requests) = 0
        /\ Share(e, "Release", a, Requests) = 0
    BY <1>7 DEF Share
  <2> QED
    BY <1>1, <1>5, <2>2, <2>3
<1> QED
  BY <1>5, <1>6, <1>7

(***************************************************************************)
(* The charges of an account move with the settles.                        *)
(***************************************************************************)
LEMMA ChargesMove ==
  ASSUME TypeOK, NEW e \in Entry, NEW a \in Accounts
  PROVE  /\ Charges(entries, a) \in Nat
         /\ Charges(Append(entries, e), a)
              = Charges(entries, a) + Share(e, "Settle", a, Requests)
<1> DEFINE f == [r \in Requests |-> SettledTotal(entries, a, r)]
           g == [r \in Requests |-> SettledTotal(Append(entries, e), a, r)]
           c(r) == Share(e, "Settle", a, {r})
<1>1. /\ Charges(entries, a) = SumFunctionOnSet(f, Requests)
      /\ Charges(Append(entries, e), a) = SumFunctionOnSet(g, Requests)
  BY DEF Charges, SumFunction
<1>2. IsFiniteSet(Requests)
  BY LedgerAssumption
<1>3. \A r \in Requests : f[r] \in Nat /\ g[r] = f[r] + c(r)
  BY TotalIsNat, AppendTotal DEF TypeOK, SettledTotal
<1>4. \A r \in Requests : c(r) \in Nat
  BY ShareIsNat
<1>5. Charges(entries, a) \in Nat
  <2> HIDE DEF f
  <2> QED
    BY <1>1, <1>2, <1>3, SumNat
<1>6. CASE e.account = a /\ e.request \in Requests
  <2> DEFINE q == e.request
  <2>1. \A r \in Requests : r # q => c(r) = 0
    BY DEF Share
  <2>2. c(q) = Share(e, "Settle", a, Requests)
    BY <1>6 DEF Share
  <2>3. SumFunctionOnSet(g, Requests) = SumFunctionOnSet(f, Requests) - f[q] + g[q]
    <3>1. \A r \in Requests : r # q => g[r] = f[r]
      <4> HIDE DEF c, f, g, q
      <4> QED
        BY <1>3, <2>1
    <3>2. \A r \in Requests : f[r] \in Int /\ g[r] \in Int
      <4> HIDE DEF c, f, g
      <4> QED
        BY <1>3, <1>4
    <3> HIDE DEF c, f, g
    <3> QED
      BY <1>2, <1>6, <3>1, <3>2, SumChange
  <2>4. g[q] = f[q] + c(q) /\ f[q] \in Nat
        /\ c(q) \in Nat
    BY <1>3, <1>4, <1>6
  <2> HIDE DEF c, f, g, q
  <2> QED
    BY <1>1, <1>5, <2>2, <2>3, <2>4
<1>7. CASE ~(e.account = a /\ e.request \in Requests)
  <2>1. \A r \in Requests : c(r) = 0
    BY <1>7 DEF Share
  <2>2. SumFunctionOnSet(g, Requests) = SumFunctionOnSet(f, Requests)
    <3>1. \A r \in Requests : f[r] \in Int /\ f[r] = g[r]
      <4> HIDE DEF c, f, g
      <4> QED
        BY <1>3, <2>1
    <3> HIDE DEF c, f, g
    <3> QED
      BY <1>2, <3>1, SumCong
  <2>3. Share(e, "Settle", a, Requests) = 0
    BY <1>7 DEF Share
  <2> QED
    BY <1>1, <1>5, <2>2, <2>3
<1> QED
  BY <1>5, <1>6, <1>7

(***************************************************************************)
(* A legal line keeps the books.                                           *)
(***************************************************************************)
LEMMA LegalKeepsBooks ==
  ASSUME TypeOK, MoneyInv, NEW e \in Entry, Legal(e), entries' = Append(entries, e)
  PROVE  MoneyInv'
<1> USE DEF MoneyInv
<1>1. KindInv'
  <2>1. /\ DOMAIN entries' = 1..(Len(entries) + 1)
        /\ DOMAIN entries = 1..Len(entries) /\ Len(entries) \in Nat
        /\ entries'[Len(entries) + 1] = e
        /\ \A i \in 1..Len(entries) : entries'[i] = entries[i]
    BY DEF TypeOK
  <2>2. e.kind \in {"Topup", "Deduct"} <=> e.request = NoRequest
    BY LedgerAssumption DEF Legal
  <2> QED
    BY <2>1, <2>2 DEF KindInv
<1>2. HoldsCovered'
  BY HoldMoves DEF HoldsCovered
<1>3. ASSUME NEW a \in Accounts
      PROVE  /\ Balance(entries', a) >= 0
             /\ Balance(entries', a) + OpenHolds(entries', a) + Charges(entries', a)
                  = Total(entries', "Topup", a, {NoRequest})
                      - Total(entries', "Deduct", a, {NoRequest})
  <2> DEFINE B == Balance(entries, a)
             O == OpenHolds(entries, a)
             C == Charges(entries, a)
             U == Total(entries, "Topup", a, {NoRequest})
             D == Total(entries, "Deduct", a, {NoRequest})
             d == IF e.account = a THEN Delta(e) ELSE 0
             b == Share(e, "Block", a, Requests)
             s == Share(e, "Settle", a, Requests)
             l == Share(e, "Release", a, Requests)
             u == Share(e, "Topup", a, {NoRequest})
             w == Share(e, "Deduct", a, {NoRequest})
  <2>1. B \in Int /\ O \in Nat /\ C \in Nat /\ U \in Nat /\ D \in Nat
    BY BalanceIsInt, OpenHoldsMove, ChargesMove, TotalIsNat DEF TypeOK
  <2>2. B >= 0 /\ B + O + C = U - D
    BY DEF DerivedSumsAgree
  <2>3. /\ Balance(entries', a) = B + d
        /\ OpenHolds(entries', a) = O + b - s - l
        /\ Charges(entries', a) = C + s
        /\ Total(entries', "Topup", a, {NoRequest}) = U + u
        /\ Total(entries', "Deduct", a, {NoRequest}) = D + w
    BY AppendBalance, OpenHoldsMove, ChargesMove, AppendTotal DEF TypeOK
  <2>4. e.amount \in Nat /\ d \in Int /\ b \in Nat /\ s \in Nat /\ l \in Nat
        /\ u \in Nat /\ w \in Nat
    BY ShareIsNat DEF Entry, Kind, Delta
  <2>5. d = l + u - b - w /\ B + d >= 0
    <3>1. CASE e.account # a
      <4>1. d = 0 /\ b = 0 /\ l = 0 /\ u = 0 /\ w = 0
        BY <3>1 DEF Share
      <4> HIDE DEF B, O, C, U, D, d, b, s, l, u, w
      <4> QED
        BY <2>1, <2>2, <4>1
    <3>2. CASE e.account = a
      <4>0. NoRequest \notin Requests
        BY LedgerAssumption
      <4>1. \/ d = e.amount /\ u = e.amount /\ w = 0 /\ b = 0 /\ l = 0
            \/ d = 0 - e.amount /\ u = 0 /\ w = e.amount /\ b = 0 /\ l = 0 /\ e.amount <= B
            \/ d = 0 - e.amount /\ u = 0 /\ w = 0 /\ b = e.amount /\ l = 0 /\ e.amount <= B
            \/ d = 0 /\ u = 0 /\ w = 0 /\ b = 0 /\ l = 0
            \/ d = e.amount /\ u = 0 /\ w = 0 /\ b = 0 /\ l = e.amount
        BY <3>2, <4>0 DEF Legal, Delta, Share
      <4> HIDE DEF B, O, C, U, D, d, b, s, l, u, w
      <4> QED
        BY <2>1, <2>2, <2>4, <4>1
    <3> QED
      BY <3>1, <3>2
  <2> HIDE DEF B, O, C, U, D, d, b, s, l, u, w
  <2> QED
    BY <2>1, <2>2, <2>3, <2>4, <2>5
<1>4. DerivedSumsAgree'
  BY <1>3 DEF DerivedSumsAgree
<1> QED
  BY <1>1, <1>2, <1>4

(***************************************************************************)
(* Without lines there is nothing to sum.                                  *)
(***************************************************************************)
LEMMA EmptyLog ==
  ASSUME NEW a
  PROVE  /\ \A kind, requests : Total(<< >>, kind, a, requests) = 0
         /\ Balance(<< >>, a) = 0
         /\ \A r : Outstanding(<< >>, a, r) = 0
         /\ OpenHolds(<< >>, a) = 0
         /\ Charges(<< >>, a) = 0
<1>1. ASSUME NEW f, DOMAIN f = {} PROVE SumFunction(f) = 0
  BY <1>1, SumEmpty DEF SumFunction
<1>2. ASSUME NEW kind, NEW requests PROVE Total(<< >>, kind, a, requests) = 0
  <2> DEFINE f == [i \in DOMAIN << >> |-> Share(<< >>[i], kind, a, requests)]
  <2>1. DOMAIN f = {} /\ Total(<< >>, kind, a, requests) = SumFunction(f)
    BY DEF Total, Share
  <2> HIDE DEF f
  <2> QED
    BY <1>1, <2>1
<1>3. Balance(<< >>, a) = 0
  <2> DEFINE f == [i \in DOMAIN << >> |->
                     IF << >>[i].account = a THEN Delta(<< >>[i]) ELSE 0]
  <2>1. DOMAIN f = {} /\ Balance(<< >>, a) = SumFunction(f)
    BY DEF Balance
  <2> HIDE DEF f
  <2> QED
    BY <1>1, <2>1
<1>4. \A r : Outstanding(<< >>, a, r) = 0
  BY <1>2 DEF Outstanding, Monus
<1>5. IsFiniteSet(Requests)
  BY LedgerAssumption
<1>6. OpenHolds(<< >>, a) = 0
  <2> DEFINE f == [r \in Requests |-> Outstanding(<< >>, a, r)]
  <2>1. /\ \A r \in Requests : f[r] = 0
        /\ OpenHolds(<< >>, a) = SumFunctionOnSet(f, Requests)
    BY <1>4 DEF OpenHolds, SumFunction
  <2> HIDE DEF f
  <2> QED
    BY <1>5, <2>1, SumZero
<1>7. Charges(<< >>, a) = 0
  <2> DEFINE f == [r \in Requests |-> SettledTotal(<< >>, a, r)]
  <2>1. /\ \A r \in Requests : f[r] = 0
        /\ Charges(<< >>, a) = SumFunctionOnSet(f, Requests)
    BY <1>2 DEF Charges, SumFunction, SettledTotal
  <2> HIDE DEF f
  <2> QED
    BY <1>5, <2>1, SumZero
<1> QED
  BY <1>2, <1>3, <1>4, <1>6, <1>7

(***************************************************************************)
(* The books are right in every reachable state.                           *)
(***************************************************************************)
THEOREM BooksAreRight == Spec => []MoneyInv
<1>1. Init => MoneyInv
  <2> SUFFICES ASSUME Init PROVE MoneyInv
    OBVIOUS
  <2>1. entries = << >>
    BY DEF Init
  <2> QED
    BY <2>1, EmptyLog DEF MoneyInv, KindInv, HoldsCovered, DerivedSumsAgree
<1>2. TypeOK /\ IInv /\ MoneyInv /\ [Next]_vars => MoneyInv'
  <2> SUFFICES ASSUME TypeOK, IInv, MoneyInv, [Next]_vars PROVE MoneyInv'
    OBVIOUS
  <2>1. CASE UNCHANGED entries
    BY <2>1 DEF MoneyInv, KindInv, HoldsCovered, DerivedSumsAgree
  <2>2. ASSUME NEW e \in Entry, entries' = Append(entries, e), Legal(e) PROVE MoneyInv'
    BY <2>2, LegalKeepsBooks
  <2> QED
    BY <2>1, <2>2, StepsPost DEF IInv, MoneyInv
<1> QED
  BY <1>1, <1>2, TypeCorrect, Invariance, PTL DEF Spec

(***************************************************************************)
(* An account never owes, and balance, open holds and charges add up to    *)
(* what was loaded less what was deducted.                                 *)
(***************************************************************************)
THEOREM SumsAgree == Spec => []DerivedSumsAgree
<1>1. MoneyInv => DerivedSumsAgree
  BY DEF MoneyInv
<1> QED
  BY <1>1, BooksAreRight, PTL

-----------------------------------------------------------------------------
(* The sweep.                                                              *)

\* What the sweep has visited, and what was fresh when it began, needs no
\* visit any more: a key that is idle and not on the list holds nothing.
SweptClear ==
  ~Idle => \A k \in DOMAIN lastTouch \ sweep.keys :
              Monus(sweep.at, lastTouch[k]) >= Timeout => Outstanding(entries, k[1], k[2]) = 0

(***************************************************************************)
(* A visit empties its key and touches no other.                           *)
(***************************************************************************)
LEMMA VisitEmptiesItsKey ==
  ASSUME TypeOK, TypeOK', TouchIsLastEntry, MoneyInv, MoneyInv',
         NEW k \in sweep.keys, SweepKey(k)
  PROVE  /\ Outstanding(entries', k[1], k[2]) = 0
         /\ \A a \in Accounts, r \in Requests \cup {NoRequest} : <<a, r>> # k =>
              Outstanding(entries', a, r) = Outstanding(entries, a, r)
<1>0. \A a : /\ Outstanding(entries, a, NoRequest) = 0
             /\ Outstanding(entries', a, NoRequest) = 0
  <2>1. ASSUME NEW a PROVE Outstanding(entries, a, NoRequest) = 0
    BY NoAdminHold DEF MoneyInv
  <2>2. ASSUME NEW a PROVE Outstanding(entries', a, NoRequest) = 0
    <3>2. TypeOK' /\ KindInv'
      BY DEF MoneyInv
    <3> DEFINE f == [i \in DOMAIN entries' |-> Share(entries'[i], "Block", a, {NoRequest})]
    <3>3. Len(entries') \in Nat /\ DOMAIN entries' = 1..Len(entries')
          /\ DOMAIN f = 1..Len(entries')
      BY <3>2 DEF TypeOK
    <3>4. \A i \in 1..Len(entries') : f[i] = 0
      BY <3>2, <3>3 DEF KindInv, Share
    <3>5. Total(entries', "Block", a, {NoRequest}) = SumFunction(f)
      BY DEF Total, Share
    <3>6. Total(entries', "Block", a, {NoRequest}) = 0
      <4> HIDE DEF f
      <4> QED
        BY <3>3, <3>4, <3>5, SumOfLines
    <3>7. entries' \in Seq(Entry)
      BY <3>2 DEF TypeOK
    <3> QED
      BY <3>6, <3>7, TotalIsNat DEF Outstanding, Monus
  <2> QED
    BY <2>1, <2>2
<1>1. CASE UNCHANGED entries /\ Outstanding(entries, k[1], k[2]) = 0
  BY <1>1
<1>2. ASSUME NEW e \in Entry, entries' = Append(entries, e), Legal(e),
             k = <<e.account, e.request>>, e.kind = "Release",
             e.amount = Outstanding(entries, k[1], k[2])
      PROVE  /\ Outstanding(entries', k[1], k[2]) = 0
             /\ \A a \in Accounts, r \in Requests \cup {NoRequest} : <<a, r>> # k =>
                  Outstanding(entries', a, r) = Outstanding(entries, a, r)
  <2>1. e.account \in Accounts /\ e.request \in Requests /\ e.amount \in Nat
    BY <1>2 DEF Legal, Entry
  <2>2. Outstanding(entries', k[1], k[2]) = 0
    <3>1. HoldShare(e, e.account, e.request) = 0 - e.amount
      BY <1>2, <2>1 DEF HoldShare, Share
    <3>2. Outstanding(entries', e.account, e.request) = e.amount + (0 - e.amount)
      BY <1>2, <2>1, <3>1, HoldMoves DEF MoneyInv
    <3> QED
      BY <1>2, <2>1, <3>2
  <2>3. ASSUME NEW a \in Accounts, NEW r \in Requests, <<a, r>> # k
        PROVE  Outstanding(entries', a, r) = Outstanding(entries, a, r)
    <3>1. HoldShare(e, a, r) = 0
      BY <1>2, <2>3 DEF HoldShare, Share
    <3>2. Outstanding(entries', a, r) = Outstanding(entries, a, r) + 0
      BY <1>2, <3>1, HoldMoves DEF MoneyInv
    <3>3. Outstanding(entries, a, r) \in Nat
      BY OutstandingIsNat DEF TypeOK
    <3> QED
      BY <3>2, <3>3
  <2> QED
    BY <1>0, <2>2, <2>3
<1> QED
  BY <1>1, <1>2, SweepPosts DEF MoneyInv

(***************************************************************************)
(* Keys the sweep has visited have no open hold, also while other calls    *)
(* wait for its end.                                                       *)
(***************************************************************************)
LEMMA NextSweptClear ==
  ASSUME TypeOK, TypeOK', IInv, MoneyInv, MoneyInv', SweptClear, [Next]_vars
  PROVE  SweptClear'
<1>1. CASE Idle /\ UNCHANGED sweep
  BY <1>1 DEF SweptClear, Idle
<1>2. ASSUME NEW now \in Now, BeginSweep(now) PROVE SweptClear'
  BY <1>2 DEF BeginSweep, StaleAt, SweptClear
<1>3. ASSUME NEW k \in sweep.keys, SweepKey(k) PROVE SweptClear'
  <2> SUFFICES ASSUME NEW l \in DOMAIN lastTouch' \ sweep'.keys,
                      Monus(sweep'.at, lastTouch'[l]) >= Timeout
               PROVE  Outstanding(entries', l[1], l[2]) = 0
    BY DEF SweptClear
  <2>1. /\ Outstanding(entries', k[1], k[2]) = 0
        /\ \A a \in Accounts, r \in Requests \cup {NoRequest} : <<a, r>> # k =>
             Outstanding(entries', a, r) = Outstanding(entries, a, r)
    BY <1>3, VisitEmptiesItsKey DEF IInv
  <2>2. CASE l = k
    BY <2>1, <2>2
  <2>3. CASE l # k
    <3>1. sweep'.keys = sweep.keys \ {k} /\ sweep'.at = sweep.at
      BY <1>3 DEF SweepKey, TypeOK
    <3>2. l \in DOMAIN lastTouch /\ lastTouch'[l] = lastTouch[l]
      <4>1. k = <<k[1], k[2]>>
        BY DEF TypeOK, Key
      <4> QED
        BY <1>3, <2>3, <4>1 DEF SweepKey, WriteRelease, Write, Push, KeyOf
    <3>3. Outstanding(entries, l[1], l[2]) = 0
      BY <2>3, <3>1, <3>2 DEF SweptClear, Idle
    <3>4. l = <<l[1], l[2]>> /\ l[1] \in Accounts /\ l[2] \in Requests \cup {NoRequest}
      BY <3>2 DEF TypeOK, Key
    <3> QED
      BY <2>1, <2>3, <3>3, <3>4
  <2> QED
    BY <2>2, <2>3
<1>4. CASE UNCHANGED vars
  BY <1>4 DEF vars, SweptClear, Idle
<1> QED
  BY <1>1, <1>2, <1>3, <1>4 DEF Next, CallNext, SweepNext, Topup, Deduct, Block, Settle,
     Release, FailRequest, Call, Tick

(***************************************************************************)
(* A request that holds money has a line.                                  *)
(***************************************************************************)
LEMMA HoldHasLine ==
  ASSUME TypeOK, NEW a, NEW r, Outstanding(entries, a, r) > 0
  PROVE  \E i \in DOMAIN entries : KeyOf(entries[i]) = <<a, r>>
<1> SUFFICES ASSUME \A i \in DOMAIN entries : KeyOf(entries[i]) # <<a, r>>
             PROVE  Outstanding(entries, a, r) = 0
  OBVIOUS
<1> DEFINE f == [i \in DOMAIN entries |-> Share(entries[i], "Block", a, {r})]
<1>1. Len(entries) \in Nat /\ DOMAIN entries = 1..Len(entries) /\ DOMAIN f = 1..Len(entries)
  BY DEF TypeOK
<1>2. \A i \in 1..Len(entries) : f[i] = 0
  BY <1>1 DEF KeyOf, Share
<1>3. Total(entries, "Block", a, {r}) = SumFunction(f)
  BY DEF Total, Share
<1>4. Total(entries, "Block", a, {r}) = 0
  <2> HIDE DEF f
  <2> QED
    BY <1>1, <1>2, <1>3, SumOfLines
<1> QED
  BY <1>4, TotalIsNat DEF Outstanding, Monus, TypeOK

(***************************************************************************)
(* When the sweep has visited its last key, what still holds money is      *)
(* fresh.                                                                  *)
(***************************************************************************)
THEOREM SweepIsThorough == Spec => SweepLeavesNoStaleHold
<1>1. Init => SweptClear
  BY DEF Init, SweptClear, Idle
<1>2. /\ TypeOK /\ TypeOK' /\ IInv /\ MoneyInv /\ MoneyInv' /\ SweptClear /\ [Next]_vars
      => SweptClear'
  BY NextSweptClear
<1>3. /\ TypeOK /\ TypeOK' /\ IInv /\ MoneyInv /\ MoneyInv' /\ SweptClear /\ [Next]_vars
      => [~Idle /\ sweep'.keys = {} =>
            \A a \in Accounts, r \in Requests :
              Outstanding(entries', a, r) > 0 =>
                \E i \in DOMAIN entries :
                  /\ IsLast(i, <<a, r>>)
                  /\ Monus(sweep.at, entries[i].at) < Timeout]_vars
  <2> SUFFICES ASSUME TypeOK, TypeOK', IInv, MoneyInv, MoneyInv', SweptClear, Next,
                      ~Idle, sweep'.keys = {},
                      NEW a \in Accounts, NEW r \in Requests, Outstanding(entries', a, r) > 0
               PROVE  \E i \in DOMAIN entries :
                        /\ IsLast(i, <<a, r>>)
                        /\ Monus(sweep.at, entries[i].at) < Timeout
    BY DEF Idle
  <2>1. PICK k \in sweep.keys : SweepKey(k)
    BY DEF Next, CallNext, SweepNext, Topup, Deduct, Block, Settle, Release, FailRequest,
       Call, Tick, BeginSweep
  <2>2. /\ Outstanding(entries', k[1], k[2]) = 0
        /\ \A b \in Accounts, q \in Requests \cup {NoRequest} : <<b, q>> # k =>
             Outstanding(entries', b, q) = Outstanding(entries, b, q)
    BY <2>1, VisitEmptiesItsKey DEF IInv
  <2>3. <<a, r>> # k /\ Outstanding(entries, a, r) > 0
    BY <2>2
  <2>4. <<a, r>> \notin sweep.keys
    <3>1. sweep'.keys = sweep.keys \ {k}
      BY <2>1 DEF SweepKey, TypeOK
    <3> QED
      BY <2>3, <3>1
  <2>5. <<a, r>> \in DOMAIN lastTouch
    BY <2>3, HoldHasLine DEF IInv, TouchIsLastEntry
  <2>6. ~(Monus(sweep.at, lastTouch[<<a, r>>]) >= Timeout)
    BY <2>3, <2>4, <2>5 DEF SweptClear
  <2>7. PICK i \in DOMAIN entries : IsLast(i, <<a, r>>) /\ lastTouch[<<a, r>>] = entries[i].at
    BY <2>5 DEF IInv, TouchIsLastEntry
  <2>8. Monus(sweep.at, lastTouch[<<a, r>>]) \in Nat /\ Timeout \in Nat
    BY <2>5, LedgerAssumption DEF TypeOK, Monus
  <2> QED
    BY <2>6, <2>7, <2>8
<1> QED
  BY <1>1, <1>2, <1>3, TypeCorrect, Invariance, BooksAreRight, PTL
     DEF Spec, SweepLeavesNoStaleHold

-----------------------------------------------------------------------------
(* The refinement of the account book.                                     *)

\* The refinement mapping: the account book read from the log, as totals.
Funded(log) == [a \in Accounts |-> Total(log, "Topup", a, {NoRequest})]
\* Deductions of the admin.
Withdrawn(log) == [a \in Accounts |-> Total(log, "Deduct", a, {NoRequest})]
\* What every account has.
Balances(log) == [a \in Accounts |-> Balance(log, a)]
\* Open holds, by request.
Held(log) == [a \in Accounts |-> [r \in Requests |-> Outstanding(log, a, r)]]
\* Open holds, by account.
OnHold(log) == [a \in Accounts |->
                  Total(log, "Block", a, Requests)
                    - Total(log, "Settle", a, Requests)
                    - Total(log, "Release", a, Requests)]
\* Charges, by account.
Charged(log) == [a \in Accounts |-> Total(log, "Settle", a, Requests)]

(***************************************************************************)
(* What a legal line does to the six derived sums of the book.             *)
(***************************************************************************)
LEMMA BookMoves ==
  ASSUME TypeOK, HoldsCovered, NEW e \in Entry, Legal(e)
  PROVE  LET log == Append(entries, e)
             a == e.account
             x == e.amount
             b == Share(e, "Block", a, Requests)
             s == Share(e, "Settle", a, Requests)
             l == Share(e, "Release", a, Requests)
         IN /\ Funded(log) = [Funded(entries) EXCEPT ![a] =
                                @ + Share(e, "Topup", a, {NoRequest})]
            /\ Withdrawn(log) = [Withdrawn(entries) EXCEPT ![a] =
                                   @ + Share(e, "Deduct", a, {NoRequest})]
            /\ Balances(log) = [Balances(entries) EXCEPT ![a] = @ + Delta(e)]
            /\ OnHold(log) = [OnHold(entries) EXCEPT ![a] = @ + b - s - l]
            /\ Charged(log) = [Charged(entries) EXCEPT ![a] = @ + s]
            /\ e.request \in Requests =>
                 Held(log) = [Held(entries) EXCEPT ![a][e.request] =
                                @ + HoldShare(e, a, e.request)]
            /\ e.request \notin Requests => Held(log) = Held(entries)
<1> DEFINE log == Append(entries, e)
           a == e.account
<1>0. e.account \in Accounts
  BY DEF Entry
<1>1. ASSUME NEW kind, NEW requests, NEW c \in Accounts
      PROVE  /\ Total(log, kind, c, requests)
                  = Total(entries, kind, c, requests) + Share(e, kind, c, requests)
             /\ c # a => Total(log, kind, c, requests) = Total(entries, kind, c, requests)
             /\ Total(entries, kind, c, requests) \in Nat
             /\ Share(e, kind, c, requests) \in Nat
  <2>1. Total(log, kind, c, requests)
          = Total(entries, kind, c, requests) + Share(e, kind, c, requests)
    BY AppendTotal DEF TypeOK
  <2>2. Total(entries, kind, c, requests) \in Nat /\ Share(e, kind, c, requests) \in Nat
    BY TotalIsNat, ShareIsNat DEF TypeOK
  <2>3. c # a => Share(e, kind, c, requests) = 0
    BY DEF Share
  <2> QED
    BY <2>1, <2>2, <2>3
<1>2. ASSUME NEW c \in Accounts
      PROVE  /\ Balance(log, c) = Balance(entries, c) + (IF c = a THEN Delta(e) ELSE 0)
             /\ Balance(entries, c) \in Int
  BY AppendBalance, BalanceIsInt DEF TypeOK
<1>3. ASSUME NEW c \in Accounts, NEW r \in Requests
      PROVE  /\ Outstanding(log, c, r) = Outstanding(entries, c, r) + HoldShare(e, c, r)
             /\ ~(c = a /\ r = e.request) => Outstanding(log, c, r) = Outstanding(entries, c, r)
  <2>1. Outstanding(log, c, r) = Outstanding(entries, c, r) + HoldShare(e, c, r)
    BY HoldMoves
  <2>2. ~(c = a /\ r = e.request) => HoldShare(e, c, r) = 0
    BY DEF HoldShare, Share
  <2>3. Outstanding(entries, c, r) \in Nat
    BY OutstandingIsNat DEF TypeOK
  <2> QED
    BY <2>1, <2>2, <2>3
<1> HIDE DEF log, a
<1>4. Funded(log) = [Funded(entries) EXCEPT ![a] = @ + Share(e, "Topup", a, {NoRequest})]
  BY <1>0, <1>1 DEF Funded
<1>5. Withdrawn(log) = [Withdrawn(entries) EXCEPT ![a] = @ + Share(e, "Deduct", a, {NoRequest})]
  BY <1>0, <1>1 DEF Withdrawn
<1>6. Balances(log) = [Balances(entries) EXCEPT ![a] = @ + Delta(e)]
  BY <1>0, <1>2 DEF Balances
<1>7. Charged(log) = [Charged(entries) EXCEPT ![a] = @ + Share(e, "Settle", a, Requests)]
  BY <1>0, <1>1 DEF Charged
<1>8. OnHold(log) = [OnHold(entries) EXCEPT ![a] =
                       @ + Share(e, "Block", a, Requests) - Share(e, "Settle", a, Requests)
                         - Share(e, "Release", a, Requests)]
  <2> DEFINE h(g, c) == Total(g, "Block", c, Requests) - Total(g, "Settle", c, Requests)
                          - Total(g, "Release", c, Requests)
  <2>1. ASSUME NEW c \in Accounts
        PROVE  /\ h(log, c) = h(entries, c)
                    + Share(e, "Block", c, Requests) - Share(e, "Settle", c, Requests)
                    - Share(e, "Release", c, Requests)
               /\ c # a => h(log, c) = h(entries, c)
    BY <1>1
  <2>2. OnHold(log) = [c \in Accounts |-> h(log, c)]
        /\ OnHold(entries) = [c \in Accounts |-> h(entries, c)]
    BY DEF OnHold
  <2> HIDE DEF h
  <2> QED
    BY <1>0, <2>1, <2>2 DEF a
<1>9. e.request \in Requests =>
        Held(log) = [Held(entries) EXCEPT ![a][e.request] = @ + HoldShare(e, a, e.request)]
  BY <1>0, <1>3 DEF Held
<1>10. e.request \notin Requests => Held(log) = Held(entries)
  BY <1>3 DEF Held
<1> QED
  BY <1>4, <1>5, <1>6, <1>7, <1>8, <1>9, <1>10 DEF log, a

(***************************************************************************)
(* A legal line is one operation of the book.                              *)
(***************************************************************************)
LEMMA BookStep ==
  ASSUME TypeOK, MoneyInv, NEW e \in Entry, Legal(e), Asked(e), entries' = Append(entries, e)
  PROVE  Book!BookNext
<1> DEFINE a == e.account
           x == e.amount
           r == e.request
           b == Share(e, "Block", a, Requests)
           s == Share(e, "Settle", a, Requests)
           l == Share(e, "Release", a, Requests)
<1>0. a \in Accounts /\ x \in Nat /\ NoRequest \notin Requests
  BY LedgerAssumption DEF Entry
<1>1. /\ Funded(entries') = [Funded(entries) EXCEPT ![a] =
                               @ + Share(e, "Topup", a, {NoRequest})]
      /\ Withdrawn(entries') = [Withdrawn(entries) EXCEPT ![a] =
                                  @ + Share(e, "Deduct", a, {NoRequest})]
      /\ Balances(entries') = [Balances(entries) EXCEPT ![a] = @ + Delta(e)]
      /\ OnHold(entries') = [OnHold(entries) EXCEPT ![a] = @ + b - s - l]
      /\ Charged(entries') = [Charged(entries) EXCEPT ![a] = @ + s]
      /\ r \in Requests =>
           Held(entries') = [Held(entries) EXCEPT ![a][r] = @ + HoldShare(e, a, r)]
      /\ r \notin Requests => Held(entries') = Held(entries)
  BY BookMoves DEF MoneyInv
<1>2. /\ Funded(entries) \in [Accounts -> Nat]
      /\ Withdrawn(entries) \in [Accounts -> Nat]
      /\ Balances(entries) \in [Accounts -> Int]
      /\ OnHold(entries) \in [Accounts -> Int]
      /\ Charged(entries) \in [Accounts -> Nat]
      /\ Held(entries) \in [Accounts -> [Requests -> Nat]]
  <2>1. \A c \in Accounts : /\ \A kind, requests : Total(entries, kind, c, requests) \in Nat
                            /\ Balance(entries, c) \in Int
                            /\ \A q \in Requests : Outstanding(entries, c, q) \in Nat
    BY TotalIsNat, BalanceIsInt, OutstandingIsNat DEF TypeOK
  <2> QED
    BY <2>1 DEF Funded, Withdrawn, Balances, OnHold, Charged, Held
<1>3. Balances(entries)[a] = Balance(entries, a)
  BY <1>0 DEF Balances
<1>4. r \in Requests => Held(entries)[a][r] = Outstanding(entries, a, r)
  BY <1>0 DEF Held
<1>5. CASE e.kind = "Topup"
  <2>1. /\ r \notin Requests /\ x > 0 /\ x \in Amounts
        /\ Share(e, "Topup", a, {NoRequest}) = x /\ Share(e, "Deduct", a, {NoRequest}) = 0
        /\ b = 0 /\ s = 0 /\ l = 0 /\ Delta(e) = x
    BY <1>0, <1>5 DEF Legal, Asked, Share, Delta
  <2> HIDE DEF a, x, r, b, s, l
  <2>2. /\ Funded(entries') = [Funded(entries) EXCEPT ![a] = @ + x]
        /\ Balances(entries') = [Balances(entries) EXCEPT ![a] = @ + x]
        /\ Withdrawn(entries') = Withdrawn(entries)
        /\ Held(entries') = Held(entries)
        /\ OnHold(entries') = OnHold(entries)
        /\ Charged(entries') = Charged(entries)
    <3>1. Funded(entries') = [Funded(entries) EXCEPT ![a] = @ + x]
      BY <1>0, <1>1, <1>2, <2>1
    <3>2. Balances(entries') = [Balances(entries) EXCEPT ![a] = @ + x]
      <4>1. Balances(entries)[a] \in Int
        BY <1>0, <1>2
      <4>2. Balances(entries)[a] + Delta(e) = Balances(entries)[a] + x
        BY <1>0, <2>1, <4>1
      <4> QED
        BY <1>1, <4>2
    <3>3. Withdrawn(entries') = Withdrawn(entries)
      BY <1>0, <1>1, <1>2, <2>1
    <3>4. Held(entries') = Held(entries)
      BY <1>0, <1>1, <1>2, <2>1
    <3>5. OnHold(entries') = OnHold(entries)
      BY <1>0, <1>1, <1>2, <2>1
    <3>6. Charged(entries') = Charged(entries)
      BY <1>0, <1>1, <1>2, <2>1
    <3> QED
      BY <3>1, <3>2, <3>3, <3>4, <3>5, <3>6
  <2>3. Book!Fund(a, x)
    BY <2>1, <2>2 DEF Book!Fund, Funded, Withdrawn, Balances, Held, OnHold, Charged
  <2> QED
    BY <1>0, <2>1, <2>3 DEF Book!BookNext
<1>6. CASE e.kind = "Deduct"
  <2>1. /\ r \notin Requests /\ x > 0 /\ x \in Amounts /\ x <= Balance(entries, a)
        /\ Share(e, "Topup", a, {NoRequest}) = 0 /\ Share(e, "Deduct", a, {NoRequest}) = x
        /\ b = 0 /\ s = 0 /\ l = 0 /\ Delta(e) = 0 - x
    BY <1>0, <1>6 DEF Legal, Asked, Share, Delta
  <2> HIDE DEF a, x, r, b, s, l
  <2>2. /\ Withdrawn(entries') = [Withdrawn(entries) EXCEPT ![a] = @ + x]
        /\ Balances(entries') = [Balances(entries) EXCEPT ![a] = @ - x]
        /\ Funded(entries') = Funded(entries)
        /\ Held(entries') = Held(entries)
        /\ OnHold(entries') = OnHold(entries)
        /\ Charged(entries') = Charged(entries)
    <3>1. Withdrawn(entries') = [Withdrawn(entries) EXCEPT ![a] = @ + x]
      BY <1>0, <1>1, <1>2, <2>1
    <3>2. Balances(entries') = [Balances(entries) EXCEPT ![a] = @ - x]
      <4>1. Balances(entries)[a] \in Int
        BY <1>0, <1>2
      <4>2. Balances(entries)[a] + Delta(e) = Balances(entries)[a] - x
        BY <1>0, <2>1, <4>1
      <4> QED
        BY <1>1, <4>2
    <3>3. Funded(entries') = Funded(entries)
      BY <1>0, <1>1, <1>2, <2>1
    <3>4. Held(entries') = Held(entries)
      BY <1>0, <1>1, <1>2, <2>1
    <3>5. OnHold(entries') = OnHold(entries)
      BY <1>0, <1>1, <1>2, <2>1
    <3>6. Charged(entries') = Charged(entries)
      BY <1>0, <1>1, <1>2, <2>1
    <3> QED
      BY <3>1, <3>2, <3>3, <3>4, <3>5, <3>6
  <2>3. Book!Withdraw(a, x)
    BY <1>3, <2>1, <2>2
       DEF Book!Withdraw, Funded, Withdrawn, Balances, Held, OnHold, Charged
  <2> QED
    BY <1>0, <2>1, <2>3 DEF Book!BookNext
<1>7. CASE e.kind = "Block"
  <2>1. /\ r \in Requests /\ x > 0 /\ x \in Amounts /\ x <= Balance(entries, a)
        /\ Outstanding(entries, a, r) = 0
        /\ Share(e, "Topup", a, {NoRequest}) = 0 /\ Share(e, "Deduct", a, {NoRequest}) = 0
        /\ b = x /\ s = 0 /\ l = 0 /\ Delta(e) = 0 - x /\ HoldShare(e, a, r) = x
    BY <1>0, <1>7 DEF Legal, Asked, Share, Delta, HoldShare
  <2> HIDE DEF a, x, r, b, s, l
  <2>2. /\ Balances(entries') = [Balances(entries) EXCEPT ![a] = @ - x]
        /\ OnHold(entries') = [OnHold(entries) EXCEPT ![a] = @ + x]
        /\ Funded(entries') = Funded(entries)
        /\ Withdrawn(entries') = Withdrawn(entries)
        /\ Charged(entries') = Charged(entries)
    <3>1. Balances(entries') = [Balances(entries) EXCEPT ![a] = @ - x]
      <4>1. Balances(entries)[a] \in Int
        BY <1>0, <1>2
      <4>2. Balances(entries)[a] + Delta(e) = Balances(entries)[a] - x
        BY <1>0, <2>1, <4>1
      <4> QED
        BY <1>1, <4>2
    <3>2. OnHold(entries') = [OnHold(entries) EXCEPT ![a] = @ + x]
      <4>1. OnHold(entries)[a] \in Int
        BY <1>0, <1>2
      <4>2. OnHold(entries)[a] + b - s - l = OnHold(entries)[a] + x
        BY <1>0, <2>1, <4>1
      <4> QED
        BY <1>1, <4>2
    <3>3. Funded(entries') = Funded(entries)
      BY <1>0, <1>1, <1>2, <2>1
    <3>4. Withdrawn(entries') = Withdrawn(entries)
      BY <1>0, <1>1, <1>2, <2>1
    <3>5. Charged(entries') = Charged(entries)
      BY <1>0, <1>1, <1>2, <2>1
    <3> QED
      BY <3>1, <3>2, <3>3, <3>4, <3>5
  <2>3. Held(entries') = [Held(entries) EXCEPT ![a][r] = x]
    BY <1>0, <1>1, <1>2, <1>4, <2>1
  <2>4. Book!Hold(a, r, x)
    BY <1>3, <1>4, <2>1, <2>2, <2>3
       DEF Book!Hold, Funded, Withdrawn, Balances, Held, OnHold, Charged
  <2> QED
    BY <1>0, <2>1, <2>4 DEF Book!BookNext
<1>8. CASE e.kind = "Settle"
  <2>1. /\ r \in Requests /\ x <= Outstanding(entries, a, r)
        /\ Share(e, "Topup", a, {NoRequest}) = 0 /\ Share(e, "Deduct", a, {NoRequest}) = 0
        /\ b = 0 /\ s = x /\ l = 0 /\ Delta(e) = 0 /\ HoldShare(e, a, r) = 0 - x
    BY <1>0, <1>8 DEF Legal, Share, Delta, HoldShare
  <2> HIDE DEF a, x, r, b, s, l
  <2>2. /\ OnHold(entries') = [OnHold(entries) EXCEPT ![a] = @ - x]
        /\ Charged(entries') = [Charged(entries) EXCEPT ![a] = @ + x]
        /\ Funded(entries') = Funded(entries)
        /\ Withdrawn(entries') = Withdrawn(entries)
        /\ Balances(entries') = Balances(entries)
    <3>1. OnHold(entries') = [OnHold(entries) EXCEPT ![a] = @ - x]
      <4>1. OnHold(entries)[a] \in Int
        BY <1>0, <1>2
      <4>2. OnHold(entries)[a] + b - s - l = OnHold(entries)[a] - x
        BY <1>0, <2>1, <4>1
      <4> QED
        BY <1>1, <4>2
    <3>2. Charged(entries') = [Charged(entries) EXCEPT ![a] = @ + x]
      BY <1>0, <1>1, <1>2, <2>1
    <3>3. Funded(entries') = Funded(entries)
      BY <1>0, <1>1, <1>2, <2>1
    <3>4. Withdrawn(entries') = Withdrawn(entries)
      BY <1>0, <1>1, <1>2, <2>1
    <3>5. Balances(entries') = Balances(entries)
      BY <1>0, <1>1, <1>2, <2>1
    <3> QED
      BY <3>1, <3>2, <3>3, <3>4, <3>5
  <2>3. Held(entries') = [Held(entries) EXCEPT ![a][r] = @ - x]
    BY <1>0, <1>1, <1>2, <1>4, <2>1
  <2>4. Book!Charge(a, r, x)
    BY <1>4, <2>1, <2>2, <2>3
       DEF Book!Charge, Funded, Withdrawn, Balances, Held, OnHold, Charged
  <2>5. x \in 0..Held(entries)[a][r]
    BY <1>0, <1>2, <1>4, <2>1
  <2> QED
    BY <1>0, <2>1, <2>4, <2>5 DEF Book!BookNext, Held
<1>9. CASE e.kind = "Release"
  <2>1. /\ r \in Requests /\ x > 0 /\ x <= Outstanding(entries, a, r)
        /\ Share(e, "Topup", a, {NoRequest}) = 0 /\ Share(e, "Deduct", a, {NoRequest}) = 0
        /\ b = 0 /\ s = 0 /\ l = x /\ Delta(e) = x /\ HoldShare(e, a, r) = 0 - x
    BY <1>0, <1>9 DEF Legal, Share, Delta, HoldShare
  <2> HIDE DEF a, x, r, b, s, l
  <2>2. /\ OnHold(entries') = [OnHold(entries) EXCEPT ![a] = @ - x]
        /\ Balances(entries') = [Balances(entries) EXCEPT ![a] = @ + x]
        /\ Funded(entries') = Funded(entries)
        /\ Withdrawn(entries') = Withdrawn(entries)
        /\ Charged(entries') = Charged(entries)
    <3>1. OnHold(entries') = [OnHold(entries) EXCEPT ![a] = @ - x]
      <4>1. OnHold(entries)[a] \in Int
        BY <1>0, <1>2
      <4>2. OnHold(entries)[a] + b - s - l = OnHold(entries)[a] - x
        BY <1>0, <2>1, <4>1
      <4> QED
        BY <1>1, <4>2
    <3>2. Balances(entries') = [Balances(entries) EXCEPT ![a] = @ + x]
      <4>1. Balances(entries)[a] \in Int
        BY <1>0, <1>2
      <4>2. Balances(entries)[a] + Delta(e) = Balances(entries)[a] + x
        BY <1>0, <2>1, <4>1
      <4> QED
        BY <1>1, <4>2
    <3>3. Funded(entries') = Funded(entries)
      BY <1>0, <1>1, <1>2, <2>1
    <3>4. Withdrawn(entries') = Withdrawn(entries)
      BY <1>0, <1>1, <1>2, <2>1
    <3>5. Charged(entries') = Charged(entries)
      BY <1>0, <1>1, <1>2, <2>1
    <3> QED
      BY <3>1, <3>2, <3>3, <3>4, <3>5
  <2>3. Held(entries') = [Held(entries) EXCEPT ![a][r] = @ - x]
    BY <1>0, <1>1, <1>2, <1>4, <2>1
  <2>4. Book!Return(a, r, x)
    BY <1>4, <2>1, <2>2, <2>3
       DEF Book!Return, Funded, Withdrawn, Balances, Held, OnHold, Charged
  <2>5. x \in 0..Held(entries)[a][r]
    BY <1>0, <1>2, <1>4, <2>1
  <2> QED
    BY <1>0, <2>1, <2>4, <2>5 DEF Book!BookNext, Held
<1> QED
  BY <1>5, <1>6, <1>7, <1>8, <1>9 DEF Entry, Kind

(***************************************************************************)
(* Every call, and every visit of the sweep, is one operation of the       *)
(* account book on the derived sums, or leaves them alone.                 *)
(***************************************************************************)
THEOREM LedgerImplementsBook == Spec => ImplementsBook
<1>1. Init => Book!BookInit
  <2> SUFFICES ASSUME Init PROVE Book!BookInit
    OBVIOUS
  <2>1. entries = << >>
    BY DEF Init
  <2>2. ASSUME NEW a \in Accounts
        PROVE  /\ \A kind, requests : Total(entries, kind, a, requests) = 0
               /\ Balance(entries, a) = 0
               /\ \A r : Outstanding(entries, a, r) = 0
    BY <2>1, EmptyLog
  <2>3. /\ Funded(entries) = [a \in Accounts |-> 0]
        /\ Withdrawn(entries) = [a \in Accounts |-> 0]
        /\ Balances(entries) = [a \in Accounts |-> 0]
        /\ Held(entries) = [a \in Accounts |-> [r \in Requests |-> 0]]
        /\ Charged(entries) = [a \in Accounts |-> 0]
    BY <2>2 DEF Funded, Withdrawn, Balances, Held, Charged
  <2>4. OnHold(entries) = [a \in Accounts |-> 0]
    BY <2>2 DEF OnHold
  <2> QED
    BY <2>3, <2>4 DEF Book!BookInit, Funded, Withdrawn, Balances, Held, OnHold, Charged
<1>2. TypeOK /\ IInv /\ MoneyInv /\ [Next]_vars => [Book!BookNext]_(Book!bookVars)
  <2> SUFFICES ASSUME TypeOK, IInv, MoneyInv, [Next]_vars
               PROVE  Book!BookNext \/ UNCHANGED Book!bookVars
    OBVIOUS
  <2>1. CASE UNCHANGED entries
    BY <2>1 DEF Book!bookVars
  <2>2. ASSUME NEW e \in Entry, entries' = Append(entries, e), Legal(e), Asked(e)
        PROVE  Book!BookNext
    BY <2>2, BookStep
  <2> QED
    BY <2>1, <2>2, StepsPost DEF IInv, MoneyInv
<1> QED
  BY <1>1, <1>2, TypeCorrect, Invariance, BooksAreRight, PTL
     DEF Spec, ImplementsBook, Book!BookSpec
=============================================================================
