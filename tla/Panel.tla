------------------------------- MODULE Panel -------------------------------
(***************************************************************************)
(* Prices and spending caps: the tariff table, the switch, the limits and  *)
(* the spend log of crates/panel, the handlers of the broker that change   *)
(* them, and what panel and ledger each make of a recording's length.      *)
(*                                                                         *)
(* A home transcription is admitted, held and booked in one handler.  The  *)
(* fallback line is closed in this broker; the panel offers admit and      *)
(* finalize for it to a caller that does other things in between, as its   *)
(* comments and tests do, and Admit and Finalize are that caller.          *)
(*                                                                         *)
(* Left out: balances and suspensions (Broker.tla), the provider keys      *)
(* (stored, read by no call), overflow of prices beyond 64 bits.           *)
(***************************************************************************)
EXTENDS Integers, Sequences, FiniteSets, Functions

CONSTANTS Accounts,
          Minute,        \* 60: a rate is the price of this many seconds
          MinSecs,       \* HOME_QUANTUM_SECS, also the floor of the fallback
          MaxSecs,       \* GateConfig::max_secs and the ledger's MAX_SECONDS
          Unit,          \* 10000: the multiplier that means "as at home"
          UpstreamMin,   \* FallbackVendor::default_upstream_min
          HomeRates,     \* what the admin may enter as home price,
          Prices,        \*   as fallback price,
          UpstreamSecs,  \*   as upstream minimum,
          LimitChoices,  \*   as limits of a member
          Recordings,    \* lengths in started seconds
          Day, Month,    \* DAY_SECS, MONTH_WINDOW_SECS
          MaxLag,        \* how old the time a handler read may be
          MaxVersion,    \* bound: tariff versions
          MaxSpend,      \* bound: charges
          MaxClock       \* bound: last instant modelled

Line == {"Home", "Fallback"}
Vendor == {"Groq", "OpenAi", "Local"}
Price == [kind : {"multiple", "fixed"}, value : Nat]
Config == [price : Price, min : Nat]

\* An Option is a set with one element or none.
Cap == {c \in SUBSET Nat : \A m, n \in c : m = n}
Limits == [day : [Line -> Cap], month : [Line -> Cap], fallbackDay : Cap]

ASSUME PanelAssumption ==
  /\ Minute \in Nat \ {0} /\ Unit \in Nat \ {0}
  /\ MinSecs \in Nat \ {0} /\ MaxSecs \in Nat /\ MinSecs <= MaxSecs
  /\ UpstreamMin \in [Vendor -> Nat]
  /\ \A v \in Vendor : UpstreamMin[v] >= MinSecs
  /\ HomeRates \subseteq Nat /\ HomeRates # {}
  /\ Prices \subseteq Price /\ Prices # {}
  /\ UpstreamSecs \subseteq Nat
  /\ LimitChoices \subseteq Limits
  /\ Recordings \subseteq Nat \ {0}
  /\ {Day, Month, MaxLag, MaxVersion, MaxSpend, MaxClock} \subseteq Nat

VARIABLES tariff,   \* TariffTable.current
          vendor,   \* TariffTable.vendor
          configs,  \* TariffTable.groq, openai, local
          open,     \* FallbackSwitch.open
          limits,   \* the caps of each account
          homeOnly, \* the accounts that are kept off the paid fallback
          job,      \* the quotes of admitted fallback requests that still run
          spend,    \* PanelState.spend; the fields after amount are history
          archive,  \* history: every tariff that was in force, in order
          clock     \* the wall clock

tableVars == <<tariff, vendor, configs, archive>>
modeVars == <<open, homeOnly>>
vars == <<tableVars, modeVars, limits, job, spend, clock>>

Max2(x, y) == IF x > y THEN x ELSE y
Min2(x, y) == IF x < y THEN x ELSE y
Monus(x, y) == IF x > y THEN x - y ELSE 0
CeilDiv(x, y) == (x + y - 1) \div y

Now == {t \in 0..clock : clock - t <= MaxLag}

-----------------------------------------------------------------------------
(* Quotes.                                                                 *)

Free == [kind |-> "fixed", value |-> 0]

FallbackRate(t) ==
  IF t.fallback.kind = "fixed" THEN t.fallback.value
  ELSE CeilDiv(t.home * t.fallback.value, Unit)

Rate(t, line) == IF line = "Home" THEN t.home ELSE FallbackRate(t)

Quantum(t, line) == IF line = "Home" THEN MinSecs ELSE Max2(MinSecs, t.min)

\* Tariff::quote of the panel.
PanelQuote(t, line, secs) ==
  CeilDiv(Rate(t, line) * Max2(secs, Quantum(t, line)), Minute)

\* ledger_tariff: what the broker gives the ledger of a panel tariff.
LedgerTariff(t) == [home |-> t.home, rate |-> FallbackRate(t), min |-> t.min]

\* billable_seconds of the ledger.
BillableSeconds(lt, line, secs) ==
  Min2(MaxSecs, Max2(secs, IF line = "Home" THEN MinSecs ELSE Max2(MinSecs, lt.min)))

\* quote_kurus of the ledger, as block computes it.
LedgerQuote(lt, line, secs) ==
  LET perMin == IF line = "Home" THEN lt.home ELSE lt.rate
  IN (BillableSeconds(lt, line, secs) * perMin + (Minute - 1)) \div Minute

\* The provider's gate, as far as lengths go.
GatePasses(secs) == secs <= MaxSecs

-----------------------------------------------------------------------------
(* The tariff table.                                                       *)

\* TariffTable::apply
Apply(v, cfgs, home) ==
  /\ vendor' = v
  /\ configs' = cfgs
  /\ tariff' = [version |-> tariff.version + 1, home |-> home,
                fallback |-> cfgs[v].price, min |-> cfgs[v].min]
  /\ archive' = Append(archive, tariff')
  /\ UNCHANGED <<modeVars, limits, job, spend, clock>>

\* The bounds on versions and on charges, made or to come.
MoreVersions == tariff.version < MaxVersion
MoreCharges == Len(spend) + Cardinality({a \in Accounts : job[a] # {}}) < MaxSpend

\* BrokerState::tariffs_put, with or without a fallback price: the price of
\* the active vendor, unless that is Local, which stays free.
TariffsPut(home, given) ==
  LET price == IF given = {} THEN tariff.fallback ELSE CHOOSE p \in given : TRUE
  IN /\ MoreVersions
     /\ Apply(vendor,
              IF vendor = "Local" THEN configs
              ELSE [configs EXCEPT ![vendor].price = price],
              home)

\* Mutant: another vendor is another price under the same version.
VendorSetKeepingVersion(v) ==
  /\ vendor' = v
  /\ tariff' = [tariff EXCEPT !.fallback = configs[v].price, !.min = configs[v].min]
  /\ UNCHANGED <<configs, archive, modeVars, limits, job, spend, clock>>

\* BrokerState::vendor_set
VendorSet(v) == MoreVersions /\ Apply(v, configs, tariff.home)

\* BrokerState::vendor_price
VendorPrice(v, price) ==
  /\ MoreVersions
  /\ v = "Local" => price = Free
  /\ Apply(vendor, [configs EXCEPT ![v].price = price], tariff.home)

\* BrokerState::vendor_upstream: never below the floor.
VendorUpstream(v, secs) ==
  /\ MoreVersions
  /\ Apply(vendor, [configs EXCEPT ![v].min = Max2(secs, MinSecs)], tariff.home)

-----------------------------------------------------------------------------
(* Switch and limits.                                                      *)

SwitchSet(b) ==
  /\ open' = b
  /\ UNCHANGED <<tableVars, homeOnly, limits, job, spend, clock>>

\* PanelState::set_limits, where set_limits, set_fallback_cap and
\* set_home_only of the broker end; a mode that is not given stays.
SetLimits(a, l, mode) ==
  /\ limits' = [limits EXCEPT ![a] = l]
  /\ homeOnly' = IF TRUE \in mode THEN homeOnly \cup {a}
                 ELSE IF FALSE \in mode THEN homeOnly \ {a} ELSE homeOnly
  /\ UNCHANGED <<tableVars, open, job, spend, clock>>

LimitsPut(a, l, mode) == SetLimits(a, l, mode)
FallbackCap(a, cap) == SetLimits(a, [limits[a] EXCEPT !.fallbackDay = cap], {})
HomeOnly(a, b) == SetLimits(a, limits[a], {b})

-----------------------------------------------------------------------------
(* Admission and booking.                                                  *)

SumOver(I) == SumFunctionOnSet([i \in DOMAIN spend |-> spend[i].amount], I)

\* What the log, which does not say whose an entry is, holds for a window.
Used(line, now, window) ==
  SumOver({i \in DOMAIN spend :
             spend[i].line = line /\ Monus(now, spend[i].at) < window})

\* Mutant: only what was spent before counts.
FitsBeforehand(cap, used, cost) == \A n \in cap : used <= n

Fits(cap, used, cost) == \A n \in cap : used + cost <= n

WithinCaps(a, line, cost, now) ==
  /\ Fits(limits[a].day[line], Used(line, now, Day), cost)
  /\ Fits(limits[a].month[line], Used(line, now, Month), cost)
  /\ line = "Fallback" => Fits(limits[a].fallbackDay, Used(line, now, Day), cost)

\* routing::admit_with_vendor: Local needs neither the switch nor the mode.
Admitted(a, line, cost, now) ==
  /\ (line = "Fallback" /\ vendor # "Local") => (open /\ a \notin homeOnly)
  /\ WithinCaps(a, line, cost, now)

Charge(a, line, secs, cost, version, lim, now) ==
  spend' = Append(spend, [at |-> now, line |-> line, amount |-> cost, by |-> a,
                          secs |-> secs, version |-> version, limits |-> lim])

\* BrokerState::transcribe, from the gate to the booking: the ledger's hold
\* is refused when it is 0 and settled whole.
TranscribeHome(a, secs, now) ==
  LET cost == PanelQuote(tariff, "Home", secs)
  IN /\ MoreCharges
     /\ GatePasses(secs)
     /\ Admitted(a, "Home", cost, now)
     /\ LedgerQuote(LedgerTariff(tariff), "Home", secs) > 0
     /\ Charge(a, "Home", secs, cost, tariff.version, limits[a], now)
     /\ UNCHANGED <<tableVars, modeVars, limits, job, clock>>

\* PanelState::admit for the fallback line; the quote carries its version.
Admit(a, secs, now) ==
  LET cost == PanelQuote(tariff, "Fallback", secs)
  IN /\ job[a] = {}
     /\ MoreCharges
     /\ GatePasses(secs)
     /\ Admitted(a, "Fallback", cost, now)
     /\ job' = [job EXCEPT ![a] = {[secs |-> secs, cost |-> cost, since |-> now,
                                    version |-> tariff.version, limits |-> limits[a]]}]
     /\ UNCHANGED <<tableVars, modeVars, limits, spend, clock>>

\* PanelState::finalize: always allowed, whatever the admin has changed since.
Finalize(a, now) ==
  /\ \E q \in job[a] :
       now >= q.since /\ Charge(a, "Fallback", q.secs, q.cost, q.version, q.limits, now)
  /\ job' = [job EXCEPT ![a] = {}]
  /\ UNCHANGED <<tableVars, modeVars, limits, clock>>

\* The text was empty: nothing is booked.
Abandon(a) ==
  /\ job[a] # {}
  /\ job' = [job EXCEPT ![a] = {}]
  /\ UNCHANGED <<tableVars, modeVars, limits, spend, clock>>

Tick ==
  /\ clock < MaxClock
  /\ clock' = clock + 1
  /\ UNCHANGED <<tableVars, modeVars, limits, job, spend>>

NoLimits == [day |-> [l \in Line |-> {}], month |-> [l \in Line |-> {}],
             fallbackDay |-> {}]

\* PanelState::new: both paid vendors start with the same price, and Groq is
\* the one in use.
Init ==
  /\ \E home \in HomeRates, price \in Prices :
       /\ configs = [v \in Vendor |-> [price |-> IF v = "Local" THEN Free ELSE price,
                                       min |-> UpstreamMin[v]]]
       /\ tariff = [version |-> 1, home |-> home, fallback |-> price,
                    min |-> UpstreamMin["Groq"]]
  /\ vendor = "Groq"
  /\ open = TRUE
  /\ homeOnly = {}
  /\ limits = [a \in Accounts |-> NoLimits]
  /\ job = [a \in Accounts |-> {}]
  /\ spend = <<>>
  /\ archive = <<tariff>>
  /\ clock = 0

TableStep ==
  \/ \E home \in HomeRates, given \in {{}} \cup {{p} : p \in Prices} : TariffsPut(home, given)
  \/ \E v \in Vendor : VendorSet(v)
  \/ \E v \in Vendor, price \in Prices \cup {Free} : VendorPrice(v, price)
  \/ \E v \in Vendor, secs \in UpstreamSecs : VendorUpstream(v, secs)

LimitStep ==
  \/ \E b \in BOOLEAN : SwitchSet(b)
  \/ \E a \in Accounts, l \in LimitChoices :
       \/ \E mode \in {{}, {TRUE}, {FALSE}} : LimitsPut(a, l, mode)
       \/ FallbackCap(a, l.fallbackDay)
  \/ \E a \in Accounts, b \in BOOLEAN : HomeOnly(a, b)

RequestStep ==
  \/ \E a \in Accounts, secs \in Recordings, now \in Now :
       TranscribeHome(a, secs, now) \/ Admit(a, secs, now)
  \/ \E a \in Accounts, now \in Now : Finalize(a, now)
  \/ \E a \in Accounts : Abandon(a)

Next == TableStep \/ LimitStep \/ RequestStep \/ Tick

Spec == Init /\ [][Next]_vars

-----------------------------------------------------------------------------
(* Properties.                                                             *)

Tariff == [version : Nat \ {0}, home : Nat, fallback : Price, min : Nat]
Quote == [secs : Recordings, cost : Nat, since : Nat, version : Nat, limits : Limits]
Entry == [at : Nat, line : Line, amount : Nat, by : Accounts, secs : Recordings,
          version : Nat, limits : Limits]

\* The types of the variables; no vendor's minimum is below the floor that
\* home has too.
TypeOK ==
  /\ tariff \in Tariff
  /\ vendor \in Vendor
  /\ configs \in [Vendor -> Config]
  /\ \A v \in Vendor : configs[v].min >= MinSecs
  /\ open \in BOOLEAN /\ homeOnly \subseteq Accounts
  /\ limits \in [Accounts -> Limits]
  /\ job \in [Accounts -> SUBSET Quote]
  /\ spend \in Seq(Entry)
  /\ archive \in Seq(Tariff)
  /\ clock \in Nat

\* The table is what the admin's changes make it: the tariff in force is the
\* newest version and has the active vendor's price, and Local stays free.
TableConsistent ==
  /\ Len(archive) = tariff.version /\ archive[tariff.version] = tariff
  /\ tariff.fallback = configs[vendor].price /\ tariff.min = configs[vendor].min
  /\ configs["Local"].price = Free

\* What a fee of that version for that line and length is, in the panel and,
\* unless the upstream minimum is beyond the ledger's ceiling, in the ledger.
IsPriceOf(amount, version, line, secs) ==
  /\ version \in DOMAIN archive
  /\ amount = PanelQuote(archive[version], line, secs)
  /\ (line = "Home" \/ archive[version].min <= MaxSecs) =>
       amount = LedgerQuote(LedgerTariff(archive[version]), line, secs)

\* Every fee can be recomputed from what a ledger line records, the version
\* of the tariff and the seconds, by the panel's arithmetic and by the
\* ledger's, however often prices and vendors were changed while the request
\* was running.  An upstream minimum above MaxSecs is the exception for the
\* fallback line: the panel bills all of it, the ledger stops at MaxSecs.
PricedByVersion ==
  /\ TableConsistent
  /\ \A i \in DOMAIN spend :
       IsPriceOf(spend[i].amount, spend[i].version, spend[i].line, spend[i].secs)
  /\ \A a \in Accounts : \A q \in job[a] :
       IsPriceOf(q.cost, q.version, "Fallback", q.secs)

\* What the member of charge i had spent on its line, with it, in the window
\* that ends with it.
OwnSpending(i, window) ==
  SumOver({j \in 1..i : /\ spend[j].by = spend[i].by
                        /\ spend[j].line = spend[i].line
                        /\ Monus(spend[i].at, spend[j].at) < window})

\* No charge takes a member's spending on a line, in any day or month, above
\* the caps that were in force when it was admitted, although requests of
\* others are booked between admission and booking, times are read late, and
\* the log is one for all members.
SpendingStaysUnderCaps ==
  \A i \in DOMAIN spend :
    LET e == spend[i]
    IN /\ \A n \in e.limits.day[e.line] : OwnSpending(i, Day) <= n
       /\ \A n \in e.limits.month[e.line] : OwnSpending(i, Month) <= n
       /\ e.line = "Fallback" =>
            \A n \in e.limits.fallbackDay : OwnSpending(i, Day) <= n
=============================================================================
