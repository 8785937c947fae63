------------------------------- MODULE Ledger -------------------------------
(***************************************************************************)
(* The append-only ledger of crates/ledger/src/lib.rs.  Nothing but the    *)
(* entries and the time of the last movement of each request is stored:    *)
(* balances, holds and charges are derived from the entries on every call. *)
(*                                                                         *)
(* A call runs to its end under the broker's mutex, so it is one step; the *)
(* stale-hold sweep releases its requests one by one, in the order of a    *)
(* hash map, and is one step per request with every other call shut out.   *)
(* A caller reads the wall clock before it gets the mutex, so the time it  *)
(* writes may lag behind the clock and behind earlier entries.             *)
(***************************************************************************)
EXTENDS Integers, Sequences, FiniteSets, Functions

CONSTANTS Accounts,   \* account names
          Requests,   \* request ids
          NoRequest,  \* the empty request id of an admin entry
          Amounts,    \* the amounts callers ask for, in kurus
          Versions,   \* tariff versions
          Timeout,    \* BLOCK_TIMEOUT_SECS, the sweep's idle time
          MaxLag,     \* how old the time a caller read may be
          MaxClock,   \* bound: last instant modelled
          MaxEntries  \* bound: entries appended by callers

ASSUME LedgerAssumption ==
  /\ Amounts \subseteq Nat
  /\ Versions \subseteq Nat
  /\ IsFiniteSet(Requests)
  /\ NoRequest \notin Requests
  /\ Timeout \in Nat \ {0}
  /\ MaxLag \in Nat
  /\ MaxClock \in Nat
  /\ MaxEntries \in Nat

VARIABLES entries,    \* the Vec<Entry>; the index is the entry's seq
          lastTouch,  \* (account, request) -> time of its last movement
          sweep,      \* the sweep under way: its time, the keys it still visits
          clock       \* the wall clock

vars == <<entries, lastTouch, sweep, clock>>

Kind == {"Topup", "Deduct", "Block", "Settle", "Release"}
Key == Accounts \X (Requests \cup {NoRequest})
Entry == [account : Accounts, request : Requests \cup {NoRequest},
          kind : Kind, amount : Nat, version : Nat, at : Nat]

KeyOf(e) == <<e.account, e.request>>

\* The times a handler may have read before it got the mutex.
Now == {t \in 0..clock : clock - t <= MaxLag}

Monus(x, y) == IF x > y THEN x - y ELSE 0

-----------------------------------------------------------------------------
(* What the entries say.                                                   *)

Delta(e) == CASE e.kind \in {"Topup", "Release"} -> e.amount
              [] e.kind \in {"Deduct", "Block"}  -> 0 - e.amount
              [] e.kind = "Settle"               -> 0

Balance(log, a) ==
  SumFunction([i \in DOMAIN log |-> IF log[i].account = a THEN Delta(log[i]) ELSE 0])

Total(log, kind, a, requests) ==
  SumFunction([i \in DOMAIN log |->
                 IF /\ log[i].kind = kind
                    /\ log[i].account = a
                    /\ log[i].request \in requests
                 THEN log[i].amount ELSE 0])

Outstanding(log, a, r) ==
  Monus(Monus(Total(log, "Block", a, {r}), Total(log, "Settle", a, {r})),
        Total(log, "Release", a, {r}))

SettledTotal(log, a, r) == Total(log, "Settle", a, {r})

\* The tariff version of the last entry of the request: what a settle or a
\* release is written with, and 0 when there is none.
EntriesOf(log, k) == {i \in DOMAIN log : KeyOf(log[i]) = k}

\* Mutant: the version of the first entry.
FirstVersion(log, k) ==
  IF EntriesOf(log, k) = {} THEN 0
  ELSE log[CHOOSE i \in EntriesOf(log, k) : \A j \in EntriesOf(log, k) : i <= j].version

PrevVersion(log, k) ==
  IF EntriesOf(log, k) = {} THEN 0
  ELSE log[CHOOSE i \in EntriesOf(log, k) : \A j \in EntriesOf(log, k) : j <= i].version

-----------------------------------------------------------------------------
(* The calls.                                                              *)

Idle == sweep.keys = {}

\* Ledger::push
Push(e) ==
  /\ entries' = Append(entries, e)
  /\ lastTouch' = [k \in DOMAIN lastTouch \cup {KeyOf(e)} |->
                     IF k = KeyOf(e) THEN e.at ELSE lastTouch[k]]

Write(a, r, kind, x, v, now) ==
  Push([account |-> a, request |-> r, kind |-> kind, amount |-> x,
        version |-> v, at |-> now])

\* A caller's turn: no sweep is under way.
Call == Idle /\ Len(entries) < MaxEntries /\ UNCHANGED <<sweep, clock>>

Topup(a, x, now) ==
  /\ Call
  /\ x > 0
  /\ Write(a, NoRequest, "Topup", x, 0, now)

\* Mutant: the amount is written with its sign.
DeductSigned(a, x, now) ==
  /\ Call
  /\ x > 0
  /\ Balance(entries, a) >= x
  /\ Write(a, NoRequest, "Deduct", 0 - x, 0, now)

Deduct(a, x, now) ==
  /\ Call
  /\ x > 0
  /\ Balance(entries, a) >= x
  /\ Write(a, NoRequest, "Deduct", x, 0, now)

\* Mutant: a second hold for the same request.
BlockTwice(a, r, x, v, now) ==
  /\ Call
  /\ x > 0
  /\ Balance(entries, a) >= x
  /\ Write(a, r, "Block", x, v, now)

Block(a, r, x, v, now) ==
  /\ Call
  /\ x > 0
  /\ Outstanding(entries, a, r) = 0
  /\ Balance(entries, a) >= x
  /\ Write(a, r, "Block", x, v, now)

\* Mutant: a charge beyond the hold.
SettleUnbounded(a, r, x, now) ==
  /\ Call
  /\ Write(a, r, "Settle", x, PrevVersion(entries, <<a, r>>), now)

\* A settlement of nothing is accepted, and is written even for a request
\* that holds nothing.
Settle(a, r, x, now) ==
  /\ Call
  /\ x <= Outstanding(entries, a, r)
  /\ Write(a, r, "Settle", x, PrevVersion(entries, <<a, r>>), now)

WriteRelease(a, r, x, now) ==
  /\ x > 0
  /\ x <= Outstanding(entries, a, r)
  /\ Write(a, r, "Release", x, PrevVersion(entries, <<a, r>>), now)

Release(a, r, x, now) == Call /\ WriteRelease(a, r, x, now)

FailRequest(a, r, now) ==
  /\ Call
  /\ Outstanding(entries, a, r) > 0
  /\ WriteRelease(a, r, Outstanding(entries, a, r), now)

\* Mutant: idle one second less.
StaleEarly(now) ==
  {k \in DOMAIN lastTouch : Monus(now, lastTouch[k]) + 1 >= Timeout}

\* Ledger::expire_stale_blocks first collects the idle keys ...
StaleAt(now) ==
  {k \in DOMAIN lastTouch : Monus(now, lastTouch[k]) >= Timeout}

BeginSweep(now) ==
  /\ Idle
  /\ StaleAt(now) # {}
  /\ sweep' = [at |-> now, keys |-> StaleAt(now)]
  /\ UNCHANGED <<entries, lastTouch, clock>>

\* Mutant: the first key that holds nothing ends the sweep.
SweepKeyOrStop(k) ==
  /\ k \in sweep.keys
  /\ UNCHANGED clock
  /\ IF Outstanding(entries, k[1], k[2]) > 0
     THEN /\ WriteRelease(k[1], k[2], Outstanding(entries, k[1], k[2]), sweep.at)
          /\ sweep' = [sweep EXCEPT !.keys = @ \ {k}]
     ELSE /\ sweep' = [sweep EXCEPT !.keys = {}]
          /\ UNCHANGED <<entries, lastTouch>>

\* ... and then visits them in no particular order.
SweepKey(k) ==
  /\ k \in sweep.keys
  /\ sweep' = [sweep EXCEPT !.keys = @ \ {k}]
  /\ UNCHANGED clock
  /\ IF Outstanding(entries, k[1], k[2]) > 0
     THEN WriteRelease(k[1], k[2], Outstanding(entries, k[1], k[2]), sweep.at)
     ELSE UNCHANGED <<entries, lastTouch>>

Tick ==
  /\ Idle
  /\ clock < MaxClock
  /\ clock' = clock + 1
  /\ UNCHANGED <<entries, lastTouch, sweep>>

Init ==
  /\ entries = << >>
  /\ lastTouch = [k \in {} |-> 0]
  /\ sweep = [at |-> 0, keys |-> {}]
  /\ clock = 0

CallNext ==
  \E now \in Now, a \in Accounts :
    \/ \E x \in Amounts : Topup(a, x, now) \/ Deduct(a, x, now)
    \/ \E r \in Requests, x \in Amounts, v \in Versions : Block(a, r, x, v, now)
    \/ \E r \in Requests, x \in Amounts : Settle(a, r, x, now) \/ Release(a, r, x, now)
    \/ \E r \in Requests : FailRequest(a, r, now)

SweepNext == (\E now \in Now : BeginSweep(now)) \/ (\E k \in sweep.keys : SweepKey(k))

Next == CallNext \/ SweepNext \/ Tick

Spec == Init /\ [][Next]_vars

-----------------------------------------------------------------------------
(* Properties.                                                             *)

TypeOK ==
  /\ entries \in Seq(Entry)
  /\ DOMAIN lastTouch \subseteq Key
  /\ \A k \in DOMAIN lastTouch : lastTouch[k] \in Nat
  /\ sweep \in [at : Nat, keys : SUBSET DOMAIN lastTouch]
  /\ clock \in Nat

(***************************************************************************)
(* The derived sums never disagree, whatever was written in between: an    *)
(* account never owes, and its balance, its open holds and its charges add *)
(* up to what was loaded less what was deducted.  (The code derives the    *)
(* three by three different loops, one of them with saturation.)           *)
(***************************************************************************)
OpenHolds(log, a) == SumFunction([r \in Requests |-> Outstanding(log, a, r)])
Charges(log, a) == SumFunction([r \in Requests |-> SettledTotal(log, a, r)])

DerivedSumsAgree ==
  \A a \in Accounts :
    /\ Balance(entries, a) >= 0
    /\ Balance(entries, a) + OpenHolds(entries, a) + Charges(entries, a)
         = Total(entries, "Topup", a, {NoRequest})
             - Total(entries, "Deduct", a, {NoRequest})

(***************************************************************************)
(* The tariff is frozen when the hold is written: between one hold of a    *)
(* request and its next one every line of the request carries the same     *)
(* tariff version, so a line that draws on a hold carries the hold's.      *)
(***************************************************************************)
TariffFrozen ==
  \A i, j \in DOMAIN entries :
    (/\ i < j
     /\ KeyOf(entries[i]) = KeyOf(entries[j])
     /\ \A m \in (i + 1)..j :
          entries[m].kind = "Block" => KeyOf(entries[m]) # KeyOf(entries[i]))
    => entries[i].version = entries[j].version

(***************************************************************************)
(* The last-movement map is the time of the last entry of every key, the   *)
(* entries the sweep itself writes included: the fact the timeout needs.   *)
(***************************************************************************)
IsLast(i, k) ==
  /\ i \in EntriesOf(entries, k)
  /\ \A j \in EntriesOf(entries, k) : j <= i

TouchIsLastEntry ==
  /\ \A i \in DOMAIN entries : KeyOf(entries[i]) \in DOMAIN lastTouch
  /\ \A k \in DOMAIN lastTouch :
       \E i \in DOMAIN entries : IsLast(i, k) /\ lastTouch[k] = entries[i].at

(***************************************************************************)
(* The sweep takes back only holds whose request has been idle for the     *)
(* whole timeout, judged by the request's last entry when it is written,   *)
(* and not when the sweep began to collect.                                *)
(***************************************************************************)
SweepSparesFreshHolds ==
  [][~Idle /\ entries' # entries =>
       \E k \in sweep.keys, i \in DOMAIN entries :
         /\ IsLast(i, k)
         /\ KeyOf(entries'[Len(entries')]) = k
         /\ sweep.at - entries[i].at >= Timeout]_vars

(***************************************************************************)
(* The sweep leaves nothing behind: when its last key is done no request   *)
(* idle for the timeout still holds money.                                 *)
(***************************************************************************)
SweepLeavesNoStaleHold ==
  [][~Idle /\ sweep'.keys = {} =>
       \A a \in Accounts, r \in Requests :
         Outstanding(entries', a, r) > 0 =>
           \E i \in DOMAIN entries :
             /\ IsLast(i, <<a, r>>)
             /\ Monus(sweep.at, entries[i].at) < Timeout]_vars

-----------------------------------------------------------------------------
(* The entries implement the account book.                                 *)

Book == INSTANCE AccountBook WITH
  funded    <- [a \in Accounts |-> Total(entries, "Topup", a, {NoRequest})],
  withdrawn <- [a \in Accounts |-> Total(entries, "Deduct", a, {NoRequest})],
  balance   <- [a \in Accounts |-> Balance(entries, a)],
  held      <- [a \in Accounts |-> [r \in Requests |-> Outstanding(entries, a, r)]],
  onHold    <- [a \in Accounts |->
                  Total(entries, "Block", a, Requests)
                    - Total(entries, "Settle", a, Requests)
                    - Total(entries, "Release", a, Requests)],
  charged   <- [a \in Accounts |-> Total(entries, "Settle", a, Requests)]

(***************************************************************************)
(* Every call, and every iteration of the sweep, is one operation of the   *)
(* account book on the derived sums, or leaves them alone.                 *)
(***************************************************************************)
ImplementsBook == Book!BookSpec
=============================================================================
