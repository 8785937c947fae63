---------------------------- MODULE PanelProofs ----------------------------
(***************************************************************************)
(* Proofs about prices and caps: for all tariffs, vendors, lengths, limits *)
(* and orders of changes, what a fee is follows from its version and its   *)
(* seconds, and what the members spend on the fallback line stays under    *)
(* the caps it was admitted with.                                          *)
(***************************************************************************)
EXTENDS Panel, Sums, TLAPS

USE PanelAssumption

-----------------------------------------------------------------------------
(* Arithmetic.                                                             *)

(***************************************************************************)
(* Rounding up keeps natural numbers.                                      *)
(***************************************************************************)
LEMMA CeilDivNat ==
  ASSUME NEW x \in Nat, NEW y \in Nat \ {0}
  PROVE  CeilDiv(x, y) \in Nat
<1>1. x + y - 1 \in Nat
  OBVIOUS
<1>. QED BY <1>1 DEF CeilDiv

(***************************************************************************)
(* Rates are natural numbers.                                              *)
(***************************************************************************)
LEMMA RateNat ==
  ASSUME NEW t \in Tariff, NEW line \in Line
  PROVE  FallbackRate(t) \in Nat /\ Rate(t, line) \in Nat
<1>1. t.home \in Nat /\ t.fallback.value \in Nat
  BY DEF Tariff, Price
<1>2. t.home * t.fallback.value \in Nat
  BY <1>1
<1>3. FallbackRate(t) \in Nat
  BY <1>1, <1>2, CeilDivNat DEF FallbackRate
<1>. QED BY <1>1, <1>3 DEF Rate

(***************************************************************************)
(* So is the billing quantum.                                              *)
(***************************************************************************)
LEMMA QuantumNat ==
  ASSUME NEW t \in Tariff, NEW line \in Line
  PROVE  Quantum(t, line) \in Nat
  BY DEF Quantum, Max2, Tariff

(***************************************************************************)
(* And so is a quote.                                                      *)
(***************************************************************************)
LEMMA PanelQuoteNat ==
  ASSUME NEW t \in Tariff, NEW line \in Line, NEW secs \in Nat
  PROVE  PanelQuote(t, line, secs) \in Nat
<1>. DEFINE b == Max2(secs, Quantum(t, line))
<1>1. b \in Nat
  BY QuantumNat DEF Max2
<1>. HIDE DEF b
<1>2. Rate(t, line) * b \in Nat
  BY <1>1, RateNat
<1>3. PanelQuote(t, line, secs) = CeilDiv(Rate(t, line) * b, Minute)
  BY DEF PanelQuote, b
<1>. QED BY <1>2, <1>3, CeilDivNat

\* Panel and ledger bill the same seconds as long as no minimum is beyond
\* the ceiling, and round the price up alike.
LEMMA QuotesAgree ==
  ASSUME NEW t \in Tariff, NEW line \in Line, NEW secs \in Recordings,
         GatePasses(secs), line = "Home" \/ t.min <= MaxSecs
  PROVE  PanelQuote(t, line, secs) = LedgerQuote(LedgerTariff(t), line, secs)
<1>. DEFINE b == Max2(secs, Quantum(t, line))
            r == Rate(t, line)
<1>1. t.min \in Nat /\ secs \in Nat
  BY DEF Tariff
<1>2. b \in Nat /\ b <= MaxSecs
  BY <1>1 DEF Quantum, Max2, GatePasses
<1>3. BillableSeconds(LedgerTariff(t), line, secs) = b
  BY <1>1, <1>2 DEF BillableSeconds, LedgerTariff, Quantum, Max2, Min2
<1>4. (IF line = "Home" THEN LedgerTariff(t).home ELSE LedgerTariff(t).rate) = r
  BY DEF LedgerTariff, Rate
<1>5. r \in Nat
  BY RateNat
<1>. HIDE DEF b, r
<1>6. b * r + (Minute - 1) = r * b + Minute - 1
  BY <1>2, <1>5
<1>7. LedgerQuote(LedgerTariff(t), line, secs) = (b * r + (Minute - 1)) \div Minute
  BY <1>3, <1>4 DEF LedgerQuote
<1>8. PanelQuote(t, line, secs) = (r * b + Minute - 1) \div Minute
  BY DEF PanelQuote, CeilDiv, b, r
<1>. QED BY <1>6, <1>7, <1>8

\* What admission writes down is the price of the version in force.
LEMMA QuoteIsPrice ==
  ASSUME TypeOK, TableConsistent, NEW line \in Line, NEW secs \in Recordings,
         GatePasses(secs)
  PROVE  IsPriceOf(PanelQuote(tariff, line, secs), tariff.version, line, secs)
<1>1. tariff \in Tariff /\ archive \in Seq(Tariff) /\ tariff.version \in Nat \ {0}
  BY DEF TypeOK, Tariff
<1>2. archive[tariff.version] = tariff /\ Len(archive) = tariff.version
  BY DEF TableConsistent
<1>3. tariff.version \in DOMAIN archive
  BY <1>1, <1>2
<1>. QED BY <1>1, <1>2, <1>3, QuotesAgree DEF IsPriceOf

\* A fee stays what it was when versions are added after its own.
LEMMA PriceStays ==
  ASSUME archive \in Seq(Tariff), NEW t \in Tariff, archive' = Append(archive, t),
         NEW amount, NEW version, NEW line, NEW secs,
         IsPriceOf(amount, version, line, secs)
  PROVE  IsPriceOf(amount, version, line, secs)'
<1>1. version \in DOMAIN archive' /\ archive'[version] = archive[version]
  BY DEF IsPriceOf
<1>. QED BY <1>1 DEF IsPriceOf

-----------------------------------------------------------------------------
(* The tariff table: the four changes of the admin are all one Apply.      *)

\* Every change of the table is an Apply of a consistent configuration.
LEMMA TableStepApplies ==
  ASSUME TypeOK, PricedByVersion, TableStep
  PROVE  \E v \in Vendor, cfgs \in [Vendor -> Config], home \in Nat :
           /\ \A w \in Vendor : cfgs[w].min >= MinSecs
           /\ cfgs["Local"].price = Free
           /\ Apply(v, cfgs, home)
<1>. DEFINE Good(cfgs) == /\ cfgs \in [Vendor -> Config]
                          /\ \A w \in Vendor : cfgs[w].min >= MinSecs
                          /\ cfgs["Local"].price = Free
<1>1. vendor \in Vendor /\ Good(configs) /\ tariff.home \in Nat /\ tariff.fallback \in Price
  BY DEF TypeOK, PricedByVersion, TableConsistent, Tariff
<1>2. Free \in Price
  BY DEF Free, Price
<1>3. ASSUME NEW v \in Vendor, NEW p \in Price, v = "Local" => p = Free
      PROVE  Good([configs EXCEPT ![v].price = p])
  BY <1>1, <1>3 DEF Config
<1>4. ASSUME NEW v \in Vendor, NEW m \in Nat, m >= MinSecs
      PROVE  Good([configs EXCEPT ![v].min = m])
  BY <1>1, <1>4 DEF Config
<1>5. ASSUME NEW v \in Vendor, NEW cfgs, NEW home \in Nat, Good(cfgs), Apply(v, cfgs, home)
      PROVE  \E w \in Vendor, c \in [Vendor -> Config], h \in Nat :
               /\ \A u \in Vendor : c[u].min >= MinSecs
               /\ c["Local"].price = Free
               /\ Apply(w, c, h)
  BY <1>5
<1>. HIDE DEF Good
<1>6. CASE \E home \in HomeRates, given \in {{}} \cup {{p} : p \in Prices} :
             TariffsPut(home, given)
  <2>1. PICK home \in HomeRates, given \in {{}} \cup {{p} : p \in Prices} :
               TariffsPut(home, given)
    BY <1>6
  <2>. DEFINE price == IF given = {} THEN tariff.fallback ELSE CHOOSE p \in given : TRUE
              cfgs == IF vendor = "Local" THEN configs
                      ELSE [configs EXCEPT ![vendor].price = price]
  <2>2. price \in Price
    BY <1>1
  <2>3. Apply(vendor, cfgs, home)
    BY <2>1 DEF TariffsPut
  <2>. HIDE DEF price
  <2>4. Good(cfgs)
    BY <1>1, <1>3, <2>2
  <2>. QED BY <1>1, <1>5, <2>3, <2>4
<1>7. CASE \E v \in Vendor : VendorSet(v)
  BY <1>1, <1>5, <1>7 DEF VendorSet
<1>8. CASE \E v \in Vendor, price \in Prices \cup {Free} : VendorPrice(v, price)
  BY <1>1, <1>2, <1>3, <1>5, <1>8 DEF VendorPrice
<1>9. CASE \E v \in Vendor, secs \in UpstreamSecs : VendorUpstream(v, secs)
  <2>1. PICK v \in Vendor, secs \in UpstreamSecs : VendorUpstream(v, secs)
    BY <1>9
  <2>2. Max2(secs, MinSecs) \in Nat /\ Max2(secs, MinSecs) >= MinSecs
    BY DEF Max2
  <2>3. Good([configs EXCEPT ![v].min = Max2(secs, MinSecs)])
    BY <1>4, <2>2
  <2>. QED BY <1>1, <1>5, <2>1, <2>3 DEF VendorUpstream
<1>. QED BY <1>6, <1>7, <1>8, <1>9 DEF TableStep

\* The invariant behind type correctness and pricing.
IndInv == TypeOK /\ PricedByVersion

\* After such a change the newest version is the one in force, and no fee is
\* worth anything else than before.
LEMMA ApplyPreserves ==
  ASSUME IndInv,
         NEW v \in Vendor, NEW cfgs \in [Vendor -> Config], NEW home \in Nat,
         \A w \in Vendor : cfgs[w].min >= MinSecs,
         cfgs["Local"].price = Free,
         Apply(v, cfgs, home)
  PROVE  IndInv'
<1>1. cfgs[v].price \in Price /\ cfgs[v].min \in Nat
  BY DEF Config
<1>2. tariff' \in Tariff /\ tariff'.version = tariff.version + 1
  <2>1. tariff.version \in Nat \ {0}
    BY DEF IndInv, TypeOK, Tariff
  <2>2. tariff.version + 1 \in Nat \ {0}
    BY <2>1
  <2>3. tariff' = [version |-> tariff.version + 1, home |-> home,
                   fallback |-> cfgs[v].price, min |-> cfgs[v].min]
    BY DEF Apply
  <2> QED
    BY <1>1, <2>2, <2>3 DEF Tariff
<1>3. archive \in Seq(Tariff) /\ archive' = Append(archive, tariff')
  BY DEF Apply, IndInv, TypeOK
<1>4. TypeOK'
  BY <1>2, <1>3 DEF Apply, modeVars, IndInv, TypeOK
<1>5. TableConsistent'
  <2>1. Len(archive) = tariff.version /\ tariff.version \in Nat
    BY DEF IndInv, PricedByVersion, TableConsistent, TypeOK, Tariff
  <2>2. PICK t \in Tariff : t = tariff'
    BY <1>2
  <2>3. archive' = Append(archive, t) /\ t.version = Len(archive) + 1
    BY <2>1, <2>2, <1>2, <1>3
  <2>4. Len(archive') = t.version /\ archive'[t.version] = t
    BY <1>3, <2>3
  <2>5. /\ tariff'.fallback = configs'[vendor'].price
        /\ tariff'.min = configs'[vendor'].min
        /\ configs'["Local"].price = Free
    BY DEF Apply
  <2>. QED BY <2>2, <2>4, <2>5 DEF TableConsistent
<1>6. spend' = spend /\ job' = job
  BY DEF Apply
<1>7. \A i \in DOMAIN spend :
        IsPriceOf(spend[i].amount, spend[i].version, spend[i].line, spend[i].secs)'
  <2>1. TAKE i \in DOMAIN spend
  <2>2. PICK e : e = spend[i]
    OBVIOUS
  <2>3. IsPriceOf(e.amount, e.version, e.line, e.secs)
    BY <2>2 DEF IndInv, PricedByVersion
  <2>4. IsPriceOf(e.amount, e.version, e.line, e.secs)'
    BY <1>2, <1>3, <2>3, PriceStays
  <2>. QED BY <1>6, <2>2, <2>4
<1>8. \A a \in Accounts : \A q \in job[a] :
        IsPriceOf(q.cost, q.version, "Fallback", q.secs)'
  <2>1. TAKE a \in Accounts
  <2>2. TAKE q \in job[a]
  <2>3. IsPriceOf(q.cost, q.version, "Fallback", q.secs)
    BY DEF IndInv, PricedByVersion
  <2>. QED BY <1>2, <1>3, <2>3, PriceStays
<1>. QED BY <1>4, <1>5, <1>6, <1>7, <1>8 DEF IndInv, PricedByVersion

-----------------------------------------------------------------------------
(* Admission and booking.                                                  *)

\* A limit that LimitStep writes is one of Limits.
LEMMA LimitStepPreserves ==
  ASSUME IndInv, LimitStep
  PROVE  IndInv'
<1>1. UNCHANGED <<tableVars, job, spend, clock>>
  BY DEF LimitStep, SwitchSet, LimitsPut, FallbackCap, HomeOnly, SetLimits
<1>2. open' \in BOOLEAN /\ homeOnly' \subseteq Accounts
  BY DEF LimitStep, SwitchSet, LimitsPut, FallbackCap, HomeOnly, SetLimits, IndInv, TypeOK
<1>3. limits' \in [Accounts -> Limits]
  <2>1. limits \in [Accounts -> Limits]
    BY DEF IndInv, TypeOK
  <2>2. ASSUME NEW a \in Accounts, NEW l \in Limits
        PROVE  [limits[a] EXCEPT !.fallbackDay = l.fallbackDay] \in Limits
    BY <2>1, <2>2 DEF Limits
  <2>3. ASSUME NEW a \in Accounts, NEW l \in Limits, NEW mode, SetLimits(a, l, mode)
        PROVE  limits' \in [Accounts -> Limits]
    BY <2>1, <2>3 DEF SetLimits
  <2>4. CASE \E b \in BOOLEAN : SwitchSet(b)
    BY <2>1, <2>4 DEF SwitchSet
  <2>5. CASE \E a \in Accounts, l \in LimitChoices :
               \E mode \in {{}, {TRUE}, {FALSE}} : LimitsPut(a, l, mode)
    BY <2>3, <2>5 DEF LimitsPut
  <2>6. CASE \E a \in Accounts, l \in LimitChoices : FallbackCap(a, l.fallbackDay)
    BY <2>2, <2>3, <2>6 DEF FallbackCap
  <2>7. CASE \E a \in Accounts, b \in BOOLEAN : HomeOnly(a, b)
    BY <2>1, <2>3, <2>7 DEF HomeOnly
  <2>. QED BY <2>4, <2>5, <2>6, <2>7 DEF LimitStep
<1>4. TypeOK'
  BY <1>1, <1>2, <1>3 DEF IndInv, TypeOK, tableVars
<1>5. PricedByVersion'
  BY <1>1 DEF IndInv, PricedByVersion, TableConsistent, IsPriceOf, tableVars
<1>. QED BY <1>4, <1>5 DEF IndInv

\* A charge whose fee is the price of its version leaves every fee so.
LEMMA ChargePreserves ==
  ASSUME IndInv, UNCHANGED <<tableVars, modeVars, limits, clock>>,
         NEW a \in Accounts, NEW line \in Line, NEW secs \in Recordings,
         NEW cost \in Nat, NEW version \in Nat, NEW lim \in Limits, NEW now \in Nat,
         IsPriceOf(cost, version, line, secs),
         Charge(a, line, secs, cost, version, lim, now),
         job' \in [Accounts -> SUBSET Quote], \A b \in Accounts : job'[b] \subseteq job[b]
  PROVE  IndInv'
<1>. DEFINE e == [at |-> now, line |-> line, amount |-> cost, by |-> a,
                  secs |-> secs, version |-> version, limits |-> lim]
<1>1. e \in Entry /\ spend' = Append(spend, e) /\ spend \in Seq(Entry)
  BY DEF Entry, Charge, IndInv, TypeOK
<1>2. TypeOK'
  BY <1>1 DEF IndInv, TypeOK, tableVars, modeVars
<1>3. archive' = archive
  BY DEF tableVars
<1>4. TableConsistent'
  BY DEF IndInv, PricedByVersion, TableConsistent, tableVars
<1>5. \A i \in DOMAIN spend' :
        IsPriceOf(spend'[i].amount, spend'[i].version, spend'[i].line, spend'[i].secs)
  <2>1. /\ e.amount = cost /\ e.version = version
        /\ e.line = line /\ e.secs = secs
    OBVIOUS
  <2>. HIDE DEF e
  <2>2. TAKE i \in DOMAIN spend'
  <2>3. CASE i \in DOMAIN spend
    <3>1. spend'[i] = spend[i]
      BY <1>1, <2>3
    <3>. QED BY <2>3, <3>1 DEF IndInv, PricedByVersion
  <2>4. CASE i \notin DOMAIN spend
    <3>1. spend'[i] = e
      BY <1>1, <2>4
    <3>. QED BY <2>1, <3>1
  <2>. QED BY <2>3, <2>4
<1>6. \A b \in Accounts : \A q \in job'[b] :
        IsPriceOf(q.cost, q.version, "Fallback", q.secs)
  BY DEF IndInv, PricedByVersion
<1>. QED BY <1>2, <1>3, <1>4, <1>5, <1>6 DEF IndInv, PricedByVersion, IsPriceOf

(***************************************************************************)
(* A home transcription keeps it.                                          *)
(***************************************************************************)
LEMMA TranscribeHomePreserves ==
  ASSUME IndInv, NEW a \in Accounts, NEW secs \in Recordings, NEW now \in Now,
         TranscribeHome(a, secs, now)
  PROVE  IndInv'
<1>. DEFINE cost == PanelQuote(tariff, "Home", secs)
<1>1. tariff \in Tariff /\ tariff.version \in Nat /\ now \in Nat /\ limits[a] \in Limits
  BY DEF IndInv, TypeOK, Tariff, Now
<1>2. "Home" \in Line /\ cost \in Nat
  BY <1>1, PanelQuoteNat DEF Line
<1>3. IsPriceOf(cost, tariff.version, "Home", secs)
  BY <1>2, QuoteIsPrice DEF TranscribeHome, IndInv, PricedByVersion
<1>4. Charge(a, "Home", secs, cost, tariff.version, limits[a], now)
  BY DEF TranscribeHome
<1>5. /\ UNCHANGED <<tableVars, modeVars, limits, job, clock>>
      /\ job' \in [Accounts -> SUBSET Quote]
  BY DEF TranscribeHome, IndInv, TypeOK
<1>. HIDE DEF cost
<1>. QED BY <1>1, <1>2, <1>3, <1>4, <1>5, ChargePreserves

(***************************************************************************)
(* So does an admission.                                                   *)
(***************************************************************************)
LEMMA AdmitPreserves ==
  ASSUME IndInv, NEW a \in Accounts, NEW secs \in Recordings, NEW now \in Now,
         Admit(a, secs, now)
  PROVE  IndInv'
<1>. DEFINE cost == PanelQuote(tariff, "Fallback", secs)
            q == [secs |-> secs, cost |-> cost, since |-> now,
                  version |-> tariff.version, limits |-> limits[a]]
<1>1. tariff \in Tariff /\ tariff.version \in Nat /\ now \in Nat /\ limits[a] \in Limits
  BY DEF IndInv, TypeOK, Tariff, Now
<1>2. "Fallback" \in Line /\ cost \in Nat
  BY <1>1, PanelQuoteNat DEF Line
<1>3. IsPriceOf(cost, tariff.version, "Fallback", secs)
  BY <1>2, QuoteIsPrice DEF Admit, IndInv, PricedByVersion
<1>4. /\ job' = [job EXCEPT ![a] = {q}]
      /\ UNCHANGED <<tableVars, modeVars, limits, spend, clock>>
  BY DEF Admit
<1>5. q \in Quote
  BY <1>1, <1>2 DEF Quote
<1>6. TypeOK'
  BY <1>4, <1>5 DEF IndInv, TypeOK, tableVars, modeVars
<1>7. \A b \in Accounts : \A p \in job'[b] :
        IsPriceOf(p.cost, p.version, "Fallback", p.secs)
  <2>1. TAKE b \in Accounts
  <2>2. CASE b = a
    BY <1>3, <1>4, <2>2 DEF IndInv, TypeOK
  <2>3. CASE b # a
    <3>1. job'[b] = job[b]
      BY <1>4, <2>3 DEF IndInv, TypeOK
    <3>. QED BY <3>1 DEF IndInv, PricedByVersion
  <2>. QED BY <2>2, <2>3
<1>8. PricedByVersion'
  BY <1>4, <1>7 DEF IndInv, PricedByVersion, TableConsistent, IsPriceOf, tableVars
<1>. QED BY <1>6, <1>8 DEF IndInv

(***************************************************************************)
(* So does a result.                                                       *)
(***************************************************************************)
LEMMA FinalizePreserves ==
  ASSUME IndInv, NEW a \in Accounts, NEW now \in Now, Finalize(a, now)
  PROVE  IndInv'
<1>1. PICK q \in job[a] :
        Charge(a, "Fallback", q.secs, q.cost, q.version, q.limits, now)
  BY DEF Finalize
<1>2. q \in Quote /\ now \in Nat /\ "Fallback" \in Line
  BY DEF IndInv, TypeOK, Now, Line
<1>3. /\ q.secs \in Recordings /\ q.cost \in Nat
      /\ q.version \in Nat /\ q.limits \in Limits
  BY <1>2 DEF Quote
<1>4. IsPriceOf(q.cost, q.version, "Fallback", q.secs)
  BY DEF IndInv, PricedByVersion
<1>5. /\ job' = [job EXCEPT ![a] = {}]
      /\ UNCHANGED <<tableVars, modeVars, limits, clock>>
  BY DEF Finalize
<1>6. /\ job' \in [Accounts -> SUBSET Quote]
      /\ \A b \in Accounts : job'[b] \subseteq job[b]
  BY <1>5 DEF IndInv, TypeOK
<1>. QED BY <1>1, <1>2, <1>3, <1>4, <1>5, <1>6, ChargePreserves

(***************************************************************************)
(* So does a failure.                                                      *)
(***************************************************************************)
LEMMA AbandonPreserves ==
  ASSUME IndInv, NEW a \in Accounts, Abandon(a)
  PROVE  IndInv'
<1>1. /\ job' \in [Accounts -> SUBSET Quote]
      /\ \A b \in Accounts : job'[b] \subseteq job[b]
  BY DEF Abandon, IndInv, TypeOK
<1>2. TypeOK'
  BY <1>1 DEF Abandon, IndInv, TypeOK, tableVars, modeVars
<1>3. PricedByVersion'
  BY <1>1 DEF Abandon, IndInv, PricedByVersion, TableConsistent, IsPriceOf, tableVars
<1>. QED BY <1>2, <1>3 DEF IndInv

(***************************************************************************)
(* So does every step of a request.                                        *)
(***************************************************************************)
LEMMA RequestStepPreserves ==
  ASSUME IndInv, RequestStep
  PROVE  IndInv'
  BY TranscribeHomePreserves, AdmitPreserves, FinalizePreserves, AbandonPreserves
     DEF RequestStep

-----------------------------------------------------------------------------
(* The specification.                                                      *)

(***************************************************************************)
(* It holds at the start.                                                  *)
(***************************************************************************)
LEMMA InitIndInv == Init => IndInv
<1>. SUFFICES ASSUME Init PROVE IndInv
  OBVIOUS
<1>1. PICK home \in HomeRates, price \in Prices :
        /\ configs = [v \in Vendor |-> [price |-> IF v = "Local" THEN Free ELSE price,
                                        min |-> UpstreamMin[v]]]
        /\ tariff = [version |-> 1, home |-> home, fallback |-> price,
                     min |-> UpstreamMin["Groq"]]
  BY DEF Init
<1>2. /\ Free \in Price /\ price \in Price /\ home \in Nat
      /\ "Groq" \in Vendor /\ "Local" \in Vendor
  BY DEF Free, Price, Vendor
<1>3. tariff \in Tariff
  BY <1>1, <1>2 DEF Tariff
<1>4. configs \in [Vendor -> Config] /\ \A v \in Vendor : configs[v].min >= MinSecs
  BY <1>1, <1>2 DEF Config
<1>5. archive = <<tariff>> /\ archive \in Seq(Tariff)
  BY <1>3 DEF Init
<1>6. NoLimits \in Limits
  BY DEF NoLimits, Limits, Cap
<1>7. TypeOK
  BY <1>2, <1>3, <1>4, <1>5, <1>6 DEF Init, TypeOK
<1>8. TableConsistent
  BY <1>1, <1>2, <1>5 DEF Init, TableConsistent
<1>9. spend = <<>> /\ job = [a \in Accounts |-> {}]
  BY DEF Init
<1>. QED BY <1>7, <1>8, <1>9 DEF IndInv, PricedByVersion

(***************************************************************************)
(* And after every step.                                                   *)
(***************************************************************************)
LEMMA NextIndInv == IndInv /\ [Next]_vars => IndInv'
<1>. SUFFICES ASSUME IndInv, [Next]_vars PROVE IndInv'
  OBVIOUS
<1>1. CASE TableStep
  BY <1>1, TableStepApplies, ApplyPreserves DEF IndInv
<1>2. CASE LimitStep
  BY <1>2, LimitStepPreserves
<1>3. CASE RequestStep
  BY <1>3, RequestStepPreserves
<1>4. CASE Tick
  <2>1. clock' \in Nat /\ UNCHANGED <<tableVars, modeVars, limits, job, spend>>
    BY <1>4 DEF Tick, IndInv, TypeOK
  <2>2. TypeOK'
    BY <2>1 DEF IndInv, TypeOK, tableVars, modeVars
  <2>3. PricedByVersion'
    BY <2>1 DEF IndInv, PricedByVersion, TableConsistent, IsPriceOf, tableVars
  <2>. QED BY <2>2, <2>3 DEF IndInv
<1>5. CASE UNCHANGED vars
  BY <1>5 DEF vars, tableVars, modeVars, IndInv, TypeOK, PricedByVersion, TableConsistent,
              IsPriceOf
<1>. QED BY <1>1, <1>2, <1>3, <1>4, <1>5 DEF Next

\* The types hold, and no vendor is ever billed below the floor that home has
\* too, for every table of prices and every order of changes.
THEOREM TypeCorrect == Spec => []TypeOK
<1>1. IndInv => TypeOK
  BY DEF IndInv
<1>. QED BY <1>1, InitIndInv, NextIndInv, PTL DEF Spec

\* Every fee, quoted or booked, is what its tariff version makes of its
\* seconds, in the panel and in the ledger, however often the admin changes
\* prices and vendors in between.
THEOREM PricedByVersionAlways == Spec => []PricedByVersion
<1>1. IndInv => PricedByVersion
  BY DEF IndInv
<1>. QED BY <1>1, InitIndInv, NextIndInv, PTL DEF Spec

-----------------------------------------------------------------------------
(* The caps.                                                               *)

\* The spending of the lines I of the log.
SumIn(log, I) == SumFunctionOnSet([i \in DOMAIN log |-> log[i].amount], I)

\* The charges of a member on a line that lie in a window before t.
Own(log, a, line, t, window) ==
  {j \in DOMAIN log : /\ log[j].by = a /\ log[j].line = line
                      /\ Monus(t, log[j].at) < window}

\* A charge of that cost would stay under these caps.
FitsOwn(log, a, line, lim, cost, t) ==
  /\ \A n \in lim.day[line] : SumIn(log, Own(log, a, line, t, Day)) + cost <= n
  /\ \A n \in lim.month[line] : SumIn(log, Own(log, a, line, t, Month)) + cost <= n
  /\ line = "Fallback" =>
       \A n \in lim.fallbackDay : SumIn(log, Own(log, a, line, t, Day)) + cost <= n

\* An admitted request still fits under the caps it was admitted with: what
\* its member has spent on the fallback line cannot grow before it is booked.
JobsFit ==
  \A a \in Accounts : \A q \in job[a] :
    FitsOwn(spend, a, "Fallback", q.limits, q.cost, q.since)

\* Spending is under the caps, and what is admitted still fits.
CapsInv == SpendingStaysUnderCaps /\ JobsFit

\* Sums over charges are natural numbers, and grow with the set.
LEMMA SumInFacts ==
  ASSUME NEW log \in Seq(Entry), NEW I \in SUBSET DOMAIN log
  PROVE  /\ SumIn(log, I) \in Nat
         /\ \A J \in SUBSET I : SumIn(log, J) <= SumIn(log, I)
<1> DEFINE f == [i \in DOMAIN log |-> log[i].amount]
<1>1. DOMAIN log = 1..Len(log) /\ Len(log) \in Nat
  OBVIOUS
<1>2. IsFiniteSet(I)
  <2>1. IsFiniteSet(1..Len(log)) /\ I \in SUBSET (1..Len(log))
    BY <1>1, FS_Interval
  <2> QED
    BY <2>1, FS_Subset
<1>3. \A i \in I : f[i] \in Nat
  <2>1. \A i \in I : log[i] \in Entry
    OBVIOUS
  <2> QED
    BY <2>1 DEF Entry
<1> HIDE DEF f
<1>4. SumFunctionOnSet(f, I) \in Nat
  BY <1>2, <1>3, SumNat
<1>5. \A J \in SUBSET I : SumFunctionOnSet(f, J) <= SumFunctionOnSet(f, I)
  BY <1>2, <1>3, SumSubset
<1> QED
  BY <1>4, <1>5 DEF SumIn, f

\* A new charge changes no sum over earlier ones, and adds its amount to one
\* that it joins.
LEMMA SumInAppend ==
  ASSUME NEW log \in Seq(Entry), NEW e \in Entry, NEW I \in SUBSET DOMAIN log
  PROVE  /\ SumIn(Append(log, e), I) = SumIn(log, I)
         /\ SumIn(Append(log, e), I \cup {Len(log) + 1}) = SumIn(log, I) + e.amount
<1> DEFINE f == [i \in DOMAIN log |-> log[i].amount]
           g == [i \in DOMAIN Append(log, e) |-> Append(log, e)[i].amount]
           n == Len(log)
<1>1. /\ DOMAIN log = 1..n /\ n \in Nat /\ n + 1 \notin I
      /\ DOMAIN Append(log, e) = 1..(n + 1)
  OBVIOUS
<1>2. IsFiniteSet(I)
  <2>1. IsFiniteSet(1..Len(log)) /\ I \in SUBSET (1..Len(log))
    BY <1>1, FS_Interval
  <2> QED
    BY <2>1, FS_Subset
<1>3. \A i \in I : f[i] \in Int /\ f[i] = g[i]
  <2>1. \A i \in I : log[i] \in Entry /\ Append(log, e)[i] = log[i] /\ i \in 1..(n + 1)
    BY <1>1
  <2> QED
    BY <1>1, <2>1 DEF Entry
<1>4. g[n + 1] = e.amount /\ e.amount \in Int
  BY <1>1 DEF Entry
<1> HIDE DEF f, g, n
<1>5. SumFunctionOnSet(f, I) = SumFunctionOnSet(g, I)
  BY <1>2, <1>3, SumCong
<1>6. SumFunctionOnSet(g, I \cup {n + 1}) = SumFunctionOnSet(g, I) + g[n + 1]
  BY <1>1, <1>2, <1>3, <1>4, SumInsert
<1> QED
  BY <1>4, <1>5, <1>6 DEF SumIn, f, g, n

\* What a member spends fits when what all members spend does.
LEMMA AdmittedFits ==
  ASSUME IndInv, NEW a \in Accounts, NEW line \in Line, NEW cost \in Nat, NEW now \in Nat,
         Admitted(a, line, cost, now)
  PROVE  FitsOwn(spend, a, line, limits[a], cost, now)
<1>1. ASSUME NEW window \in Nat
      PROVE  /\ SumIn(spend, Own(spend, a, line, now, window)) <= Used(line, now, window)
             /\ SumIn(spend, Own(spend, a, line, now, window)) \in Nat
             /\ Used(line, now, window) \in Nat
  <2> DEFINE I == {i \in DOMAIN spend :
                     spend[i].line = line /\ Monus(now, spend[i].at) < window}
  <2>1. I \in SUBSET DOMAIN spend /\ Own(spend, a, line, now, window) \in SUBSET I
        /\ Own(spend, a, line, now, window) \in SUBSET DOMAIN spend
    BY DEF Own
  <2>2. Used(line, now, window) = SumIn(spend, I)
    BY DEF Used, SumOver, SumIn
  <2> HIDE DEF I
  <2> QED
    BY <2>1, <2>2, SumInFacts DEF IndInv, TypeOK
<1>2. \A l \in Line : /\ limits[a].day[l] \subseteq Nat /\ limits[a].month[l] \subseteq Nat
                      /\ limits[a].fallbackDay \subseteq Nat
  BY DEF IndInv, TypeOK, Limits, Cap
<1>3. Day \in Nat /\ Month \in Nat
  OBVIOUS
<1>4. /\ \A n \in limits[a].day[line] : Used(line, now, Day) + cost <= n
      /\ \A n \in limits[a].month[line] : Used(line, now, Month) + cost <= n
      /\ line = "Fallback" => \A n \in limits[a].fallbackDay : Used(line, now, Day) + cost <= n
  BY DEF Admitted, WithinCaps, Fits
<1> DEFINE d == SumIn(spend, Own(spend, a, line, now, Day))
           m == SumIn(spend, Own(spend, a, line, now, Month))
           ud == Used(line, now, Day)
           um == Used(line, now, Month)
<1>5. d <= ud /\ d \in Nat /\ ud \in Nat /\ m <= um /\ m \in Nat /\ um \in Nat
  BY <1>1, <1>3
<1>6. \A n \in Nat : (ud + cost <= n => d + cost <= n) /\ (um + cost <= n => m + cost <= n)
  <2> HIDE DEF d, m, ud, um
  <2> QED
    BY <1>5
<1> QED
  BY <1>2, <1>4, <1>6 DEF FitsOwn

\* A new charge on another line or of another member takes nothing from a fit.
LEMMA FitStays ==
  ASSUME IndInv, NEW e \in Entry, NEW a, NEW line, NEW lim, NEW cost, NEW t,
         FitsOwn(spend, a, line, lim, cost, t), e.by # a \/ e.line # line
  PROVE  FitsOwn(Append(spend, e), a, line, lim, cost, t)
<1>1. ASSUME NEW window
      PROVE  SumIn(Append(spend, e), Own(Append(spend, e), a, line, t, window))
               = SumIn(spend, Own(spend, a, line, t, window))
  <2>0. spend \in Seq(Entry)
    BY DEF IndInv, TypeOK
  <2>1. /\ DOMAIN spend = 1..Len(spend) /\ Len(spend) \in Nat
        /\ DOMAIN Append(spend, e) = 1..(Len(spend) + 1)
        /\ Append(spend, e)[Len(spend) + 1] = e
        /\ \A i \in 1..Len(spend) : Append(spend, e)[i] = spend[i]
    BY <2>0
  <2>2. Own(Append(spend, e), a, line, t, window) = Own(spend, a, line, t, window)
    BY <2>1 DEF Own
  <2>3. Own(spend, a, line, t, window) \in SUBSET DOMAIN spend
    BY DEF Own
  <2>4. SumIn(Append(spend, e), Own(spend, a, line, t, window))
          = SumIn(spend, Own(spend, a, line, t, window))
    BY <2>0, <2>3, SumInAppend
  <2> QED
    BY <2>2, <2>4
<1> QED
  BY <1>1 DEF FitsOwn

\* A fit of the past is one of the present: the window only moves on.
LEMMA FitMovesOn ==
  ASSUME IndInv, NEW a, NEW line \in Line, NEW lim \in Limits, NEW cost \in Nat,
         NEW t \in Nat, NEW now \in Nat, t <= now,
         FitsOwn(spend, a, line, lim, cost, t)
  PROVE  FitsOwn(spend, a, line, lim, cost, now)
<1>1. ASSUME NEW window \in Nat
      PROVE  /\ SumIn(spend, Own(spend, a, line, now, window))
                  <= SumIn(spend, Own(spend, a, line, t, window))
             /\ SumIn(spend, Own(spend, a, line, now, window)) \in Nat
             /\ SumIn(spend, Own(spend, a, line, t, window)) \in Nat
  <2>0. spend \in Seq(Entry)
    BY DEF IndInv, TypeOK
  <2>1. \A j \in DOMAIN spend : spend[j].at \in Nat
    <3>1. \A j \in DOMAIN spend : spend[j] \in Entry
      BY <2>0
    <3> QED
      BY <3>1 DEF Entry
  <2>2. \A j \in DOMAIN spend : Monus(t, spend[j].at) <= Monus(now, spend[j].at)
    BY <2>1 DEF Monus
  <2>3. \A j \in DOMAIN spend : Monus(now, spend[j].at) < window => Monus(t, spend[j].at) < window
    <3>1. \A j \in DOMAIN spend : Monus(t, spend[j].at) \in Nat /\ Monus(now, spend[j].at) \in Nat
      BY <2>1 DEF Monus
    <3> QED
      BY <2>2, <3>1
  <2>4. /\ Own(spend, a, line, now, window) \in SUBSET Own(spend, a, line, t, window)
        /\ Own(spend, a, line, now, window) \in SUBSET DOMAIN spend
        /\ Own(spend, a, line, t, window) \in SUBSET DOMAIN spend
    BY <2>3 DEF Own
  <2> QED
    BY <2>0, <2>4, SumInFacts
<1>2. lim.day[line] \subseteq Nat /\ lim.month[line] \subseteq Nat /\ lim.fallbackDay \subseteq Nat
  BY DEF Limits, Cap
<1> DEFINE d == SumIn(spend, Own(spend, a, line, now, Day))
           m == SumIn(spend, Own(spend, a, line, now, Month))
           od == SumIn(spend, Own(spend, a, line, t, Day))
           om == SumIn(spend, Own(spend, a, line, t, Month))
<1>3. d <= od /\ d \in Nat /\ od \in Nat /\ m <= om /\ m \in Nat /\ om \in Nat
  BY <1>1
<1>4. \A n \in Nat : (od + cost <= n => d + cost <= n) /\ (om + cost <= n => m + cost <= n)
  <2> HIDE DEF d, m, od, om
  <2> QED
    BY <1>3
<1> QED
  BY <1>2, <1>4 DEF FitsOwn

\* A charge that fits keeps every member under the caps.
LEMMA ChargeUnderCaps ==
  ASSUME IndInv, SpendingStaysUnderCaps, NEW e \in Entry, spend' = Append(spend, e),
         FitsOwn(spend, e.by, e.line, e.limits, e.amount, e.at)
  PROVE  SpendingStaysUnderCaps'
<1>0. /\ spend \in Seq(Entry)
      /\ DOMAIN spend = 1..Len(spend) /\ Len(spend) \in Nat
      /\ DOMAIN spend' = 1..(Len(spend) + 1)
      /\ spend'[Len(spend) + 1] = e
      /\ \A i \in 1..Len(spend) : spend'[i] = spend[i]
  BY DEF IndInv, TypeOK
<1>n. PICK n \in Nat : n = Len(spend) + 1
  BY <1>0
<1> DEFINE before(i, window) == {j \in 1..i : /\ spend[j].by = spend[i].by
                                              /\ spend[j].line = spend[i].line
                                              /\ Monus(spend[i].at, spend[j].at) < window}
           after(i, window) == {j \in 1..i : /\ spend'[j].by = spend'[i].by
                                             /\ spend'[j].line = spend'[i].line
                                             /\ Monus(spend'[i].at, spend'[j].at) < window}
<1>1. ASSUME NEW i, NEW window
      PROVE  /\ OwnSpending(i, window) = SumIn(spend, before(i, window))
             /\ OwnSpending(i, window)' = SumIn(spend', after(i, window))
  BY DEF OwnSpending, SumOver, SumIn
<1>2. ASSUME NEW i \in DOMAIN spend, NEW window
      PROVE  OwnSpending(i, window)' = OwnSpending(i, window)
  <2>1. i \in 1..Len(spend) /\ (1..i) \subseteq 1..Len(spend)
    BY <1>0
  <2>2. after(i, window) = before(i, window) /\ before(i, window) \in SUBSET DOMAIN spend
    BY <1>0, <2>1
  <2> HIDE DEF before, after
  <2>3. SumIn(spend', before(i, window)) = SumIn(spend, before(i, window))
    BY <1>0, <2>2, SumInAppend
  <2> QED
    BY <1>1, <2>2, <2>3
<1>3. ASSUME NEW window
      PROVE  LET own == Own(spend, e.by, e.line, e.at, window)
             IN OwnSpending(n, window)' <= SumIn(spend, own) + e.amount
  <2> DEFINE own == Own(spend, e.by, e.line, e.at, window)
  <2>1. own \in SUBSET DOMAIN spend
    BY DEF Own
  <2>2. after(n, window) \in SUBSET (own \cup {n})
    BY <1>0, <1>n DEF Own
  <2>3. spend' \in Seq(Entry) /\ own \cup {n} \in SUBSET DOMAIN spend'
    BY <1>0, <1>n, <2>1
  <2> HIDE DEF own, after
  <2>4. SumIn(spend', after(n, window)) <= SumIn(spend', own \cup {n})
    BY <2>2, <2>3, SumInFacts
  <2>5. SumIn(spend', own \cup {n}) = SumIn(spend, own) + e.amount
    BY <1>0, <1>n, <2>1, SumInAppend
  <2>6. OwnSpending(n, window)' = SumIn(spend', after(n, window))
    BY <1>1
  <2> QED
    BY <2>4, <2>5, <2>6 DEF own
<1>4. ASSUME NEW window
      PROVE  /\ OwnSpending(n, window)' \in Nat
             /\ SumIn(spend, Own(spend, e.by, e.line, e.at, window)) \in Nat
  <2>1. spend' \in Seq(Entry)
    BY <1>0
  <2>2. after(n, window) \in SUBSET DOMAIN spend'
    BY <1>0, <1>n
  <2>3. Own(spend, e.by, e.line, e.at, window) \in SUBSET DOMAIN spend
    BY DEF Own
  <2> HIDE DEF after
  <2>4. OwnSpending(n, window)' = SumIn(spend', after(n, window))
    BY <1>1
  <2>5. SumIn(spend', after(n, window)) \in Nat
    BY <2>1, <2>2, SumInFacts
  <2>6. SumIn(spend, Own(spend, e.by, e.line, e.at, window)) \in Nat
    BY <1>0, <2>3, SumInFacts
  <2> QED
    BY <2>4, <2>5, <2>6
<1>5. e.amount \in Nat /\ e.line \in Line /\ e.limits.day[e.line] \subseteq Nat
      /\ e.limits.month[e.line] \subseteq Nat /\ e.limits.fallbackDay \subseteq Nat
  BY DEF Entry, Limits, Cap
<1>6. ASSUME NEW window, NEW m \in Nat,
             SumIn(spend, Own(spend, e.by, e.line, e.at, window)) + e.amount <= m
      PROVE  OwnSpending(n, window)' <= m
  <2> DEFINE os == OwnSpending(n, window)'
             ow == SumIn(spend, Own(spend, e.by, e.line, e.at, window))
  <2>1. os \in Nat /\ ow \in Nat /\ os <= ow + e.amount /\ ow + e.amount <= m
    BY <1>3, <1>4, <1>6
  <2> HIDE DEF os, ow
  <2>2. os <= m
    BY <1>5, <2>1
  <2> QED
    BY <2>2 DEF os
<1>7. /\ \A m \in e.limits.day[e.line] : OwnSpending(n, Day)' <= m
      /\ \A m \in e.limits.month[e.line] : OwnSpending(n, Month)' <= m
      /\ e.line = "Fallback" =>
           \A m \in e.limits.fallbackDay : OwnSpending(n, Day)' <= m
  BY <1>5, <1>6 DEF FitsOwn
<1> HIDE DEF before, after
<1>8. ASSUME NEW i \in DOMAIN spend'
      PROVE  LET f == spend'[i]
             IN /\ \A m \in f.limits.day[f.line] : OwnSpending(i, Day)' <= m
                /\ \A m \in f.limits.month[f.line] : OwnSpending(i, Month)' <= m
                /\ f.line = "Fallback" =>
                     \A m \in f.limits.fallbackDay : OwnSpending(i, Day)' <= m
  <2>1. CASE i = n
    BY <1>0, <1>n, <1>7, <2>1
  <2>2. CASE i \in DOMAIN spend
    <3>1. spend'[i] = spend[i]
      BY <1>0, <2>2
    <3>2. OwnSpending(i, Day)' = OwnSpending(i, Day)
          /\ OwnSpending(i, Month)' = OwnSpending(i, Month)
      BY <1>2, <2>2
    <3> QED
      BY <2>2, <3>1, <3>2 DEF SpendingStaysUnderCaps
  <2> QED
    BY <1>0, <1>n, <2>1, <2>2
<1> QED
  BY <1>8 DEF SpendingStaysUnderCaps

\* Booking appends a charge that fits, and lets no job in.
LEMMA BookingKeepsCaps ==
  ASSUME IndInv, CapsInv, NEW e \in Entry, spend' = Append(spend, e),
         FitsOwn(spend, e.by, e.line, e.limits, e.amount, e.at),
         \A b \in Accounts : job'[b] \subseteq job[b],
         e.line = "Fallback" => job'[e.by] = {}
  PROVE  CapsInv'
<1>1. SpendingStaysUnderCaps'
  BY ChargeUnderCaps DEF CapsInv
<1>2. ASSUME NEW b \in Accounts, NEW q \in job'[b]
      PROVE  FitsOwn(spend', b, "Fallback", q.limits, q.cost, q.since)
  <2>1. q \in job[b] /\ (e.by # b \/ e.line # "Fallback")
    BY <1>2
  <2>2. FitsOwn(spend, b, "Fallback", q.limits, q.cost, q.since)
    BY <2>1 DEF CapsInv, JobsFit
  <2>3. FitsOwn(Append(spend, e), b, "Fallback", q.limits, q.cost, q.since)
    BY <2>1, <2>2, FitStays
  <2> QED
    BY <2>3
<1> QED
  BY <1>1, <1>2 DEF CapsInv, JobsFit

(***************************************************************************)
(* Every step keeps the spending under the caps.                           *)
(***************************************************************************)
LEMMA NextCapsInv == IndInv /\ CapsInv /\ [Next]_vars => CapsInv'
<1> SUFFICES ASSUME IndInv, CapsInv, [Next]_vars PROVE CapsInv'
  OBVIOUS
<1>1. ASSUME spend' = spend, \A b \in Accounts : job'[b] \subseteq job[b]
      PROVE  CapsInv'
  BY <1>1 DEF CapsInv, SpendingStaysUnderCaps, OwnSpending, SumOver, JobsFit, FitsOwn
<1>2. ASSUME NEW a \in Accounts, NEW secs \in Recordings, NEW now \in Now,
             TranscribeHome(a, secs, now)
      PROVE  CapsInv'
  <2> DEFINE cost == PanelQuote(tariff, "Home", secs)
             e == [at |-> now, line |-> "Home", amount |-> cost, by |-> a, secs |-> secs,
                   version |-> tariff.version, limits |-> limits[a]]
  <2>1. tariff \in Tariff /\ tariff.version \in Nat /\ now \in Nat /\ limits[a] \in Limits
    BY DEF IndInv, TypeOK, Tariff, Now
  <2>2. "Home" \in Line /\ cost \in Nat
    BY <2>1, PanelQuoteNat DEF Line
  <2>3. FitsOwn(spend, a, "Home", limits[a], cost, now)
    <3>1. Admitted(a, "Home", cost, now)
      BY <1>2 DEF TranscribeHome
    <3> HIDE DEF cost
    <3> QED
      BY <2>1, <2>2, <3>1, AdmittedFits
  <2>4. spend' = Append(spend, e) /\ job' = job
    BY <1>2 DEF TranscribeHome, Charge
  <2>5. e \in Entry
    BY <2>1, <2>2 DEF Entry
  <2>6. /\ e.by = a /\ e.line = "Home" /\ e.limits = limits[a]
        /\ e.amount = cost /\ e.at = now
    OBVIOUS
  <2> HIDE DEF e, cost
  <2> QED
    BY <2>3, <2>4, <2>5, <2>6, BookingKeepsCaps
<1>3. ASSUME NEW a \in Accounts, NEW secs \in Recordings, NEW now \in Now,
             Admit(a, secs, now)
      PROVE  CapsInv'
  <2> DEFINE cost == PanelQuote(tariff, "Fallback", secs)
             q == [secs |-> secs, cost |-> cost, since |-> now,
                   version |-> tariff.version, limits |-> limits[a]]
  <2>1. tariff \in Tariff /\ now \in Nat
    BY DEF IndInv, TypeOK, Now
  <2>2. "Fallback" \in Line /\ cost \in Nat
    BY <2>1, PanelQuoteNat DEF Line
  <2>3. FitsOwn(spend, a, "Fallback", limits[a], cost, now)
    <3>1. Admitted(a, "Fallback", cost, now)
      BY <1>3 DEF Admit
    <3> HIDE DEF cost
    <3> QED
      BY <2>1, <2>2, <3>1, AdmittedFits
  <2>4. job' = [job EXCEPT ![a] = {q}] /\ spend' = spend
    BY <1>3 DEF Admit
  <2>5. q.limits = limits[a] /\ q.cost = cost /\ q.since = now
    OBVIOUS
  <2> HIDE DEF q, cost
  <2>6. ASSUME NEW b \in Accounts, NEW p \in job'[b]
        PROVE  FitsOwn(spend, b, "Fallback", p.limits, p.cost, p.since)
    <3>1. CASE b = a
      <4>1. p = q
        BY <2>4, <2>6, <3>1 DEF IndInv, TypeOK
      <4> QED
        BY <2>3, <2>5, <3>1, <4>1
    <3>2. CASE b # a
      <4>1. p \in job[b]
        BY <2>4, <2>6, <3>2 DEF IndInv, TypeOK
      <4> QED
        BY <4>1 DEF CapsInv, JobsFit
    <3> QED
      BY <3>1, <3>2
  <2>7. JobsFit'
    BY <2>4, <2>6 DEF JobsFit
  <2>8. SpendingStaysUnderCaps'
    BY <2>4 DEF CapsInv, SpendingStaysUnderCaps, OwnSpending, SumOver
  <2> QED
    BY <2>7, <2>8 DEF CapsInv
<1>4. ASSUME NEW a \in Accounts, NEW now \in Now, Finalize(a, now)
      PROVE  CapsInv'
  <2>1. PICK q \in job[a] :
          now >= q.since /\ Charge(a, "Fallback", q.secs, q.cost, q.version, q.limits, now)
    BY <1>4 DEF Finalize
  <2> DEFINE e == [at |-> now, line |-> "Fallback", amount |-> q.cost, by |-> a,
                   secs |-> q.secs, version |-> q.version, limits |-> q.limits]
  <2>2. q \in Quote /\ now \in Nat /\ "Fallback" \in Line
    BY DEF IndInv, TypeOK, Now, Line
  <2>3. /\ q.secs \in Recordings /\ q.cost \in Nat /\ q.since \in Nat
        /\ q.version \in Nat /\ q.limits \in Limits
    BY <2>2 DEF Quote
  <2>4. FitsOwn(spend, a, "Fallback", q.limits, q.cost, now)
    <3>1. FitsOwn(spend, a, "Fallback", q.limits, q.cost, q.since)
      BY DEF CapsInv, JobsFit
    <3> QED
      BY <2>1, <2>2, <2>3, <3>1, FitMovesOn
  <2>5. spend' = Append(spend, e) /\ e \in Entry
    BY <2>1, <2>2, <2>3 DEF Charge, Entry
  <2>6. job' = [job EXCEPT ![a] = {}]
    BY <1>4 DEF Finalize
  <2>7. /\ e.by = a /\ e.line = "Fallback" /\ e.limits = q.limits
        /\ e.amount = q.cost /\ e.at = now
    OBVIOUS
  <2> HIDE DEF e
  <2>8. (\A b \in Accounts : job'[b] \subseteq job[b]) /\ job'[a] = {}
    BY <2>6 DEF IndInv, TypeOK
  <2> QED
    BY <2>4, <2>5, <2>7, <2>8, BookingKeepsCaps
<1>5. ASSUME NEW a \in Accounts, Abandon(a) PROVE CapsInv'
  <2>1. spend' = spend /\ job' = [job EXCEPT ![a] = {}]
    BY <1>5 DEF Abandon
  <2>2. \A b \in Accounts : job'[b] \subseteq job[b]
    BY <2>1 DEF IndInv, TypeOK
  <2> QED
    BY <1>1, <2>1, <2>2
<1>6. CASE TableStep \/ LimitStep \/ Tick \/ UNCHANGED vars
  <2>1. spend' = spend /\ job' = job
    BY <1>6 DEF TableStep, TariffsPut, VendorSet, VendorPrice, VendorUpstream, Apply,
       LimitStep, SwitchSet, LimitsPut, FallbackCap, HomeOnly, SetLimits, Tick, vars
  <2> QED
    BY <1>1, <2>1
<1> QED
  BY <1>2, <1>3, <1>4, <1>5, <1>6 DEF Next, RequestStep

\* No charge takes a member's spending on a line, in any day or month, above
\* the caps that were in force when it was admitted, whatever is booked for
\* others, and whatever the admin changes, between admission and booking.
THEOREM SpendingUnderCaps == Spec => []SpendingStaysUnderCaps
<1>1. Init => CapsInv
  BY DEF Init, CapsInv, SpendingStaysUnderCaps, JobsFit
<1>2. CapsInv => SpendingStaysUnderCaps
  BY DEF CapsInv
<1> QED
  BY <1>1, <1>2, InitIndInv, NextIndInv, NextCapsInv, PTL DEF Spec
=============================================================================
