# whisperexe: a TLA+ verification project

whisperexe is a push-to-talk dictation service for a small circle of invited
members. A member holds a key, speaks, lets go; a desktop shell (Tauri) sends
the sound to a broker, the broker has it transcribed by a worker at home and
charges the member's prepaid account. This directory holds TLA+ models of the
parts of it that keep state, the TLC configurations that check them on small
instances, and TLAPS proofs of what matters most.

## 1. The system and its parts

| part (crate) | state it keeps | operations | talks to |
|---|---|---|---|
| `ledger` | a vector of entries; the time of the last movement per (account, request) | topup, deduct, block, settle, release, fail_request, expire_stale_blocks; balances are derived | called by `broker` under its mutex |
| `whisper-auth` | accounts with devices, generation, refresh records, lock-out; invitations | create_invite, redeem, login, refresh, verify_access, suspend, unsuspend, reset_hwid, set_max_slots | called by `broker` |
| `panel` | a second account table (invitations, devices, balance, limits, suspension), tariff history, spend log, admin password with its lock, release feed with its floor, audit | admit, finalize, top_up, deduct, limits, tariffs, switches, invitations, resets, publish | called by `broker` |
| `protocol` | the result cache (24 h) | lookup, store; checks of ids and bodies | called by `broker` |
| `provider` | none | the entrance gate: decode, duration, silence | called by `broker` |
| `broker-core` | the waiting queue; the route table with heartbeats and suspicion | push, pop_next, cancel; heartbeat, pick, assign, assign_timeout, begin_inference | called by `broker` |
| `broker` | all of the above in one `BrokerState` behind one mutex; a snapshot file `panel.json`; an audit file of ledger lines | HTTP handlers; `save_snapshot` after every non-GET reply; `load_snapshot` at start | one thread per connection |
| `ev-worker` | none | measures and transcribes, through a mock or a local service | called by `broker`, mutex held |
| `tauri-shell` | the recording in progress, `in_flight`, pending and blocked update, the last sound, the stored session, the mark file `update-applied.json` | key press and release, live feeder, send thread, watchdogs, pollers and installer of updates, commands of the window | threads that share a mutex with the key handler; HTTP to `broker` |
| `client`, `client-ui` | the overlay and its toast; microphone gate, encoder limits | events | used by `tauri-shell` |

How they interact. A connection thread reads the wall clock, waits for the one
mutex, runs its handler, lets go, sends the reply, takes the mutex again and
writes the snapshot. A transcription keeps the mutex while the worker works.
Money is written twice: in the ledger (memory, plus a JSONL file nobody reads
back) and in the panel's own balance (memory and snapshot). Sessions are
written in `whisper-auth` and, as a suspension flag, in the panel.

What is hard in it:

* *Concurrency.* Handlers are serialised, but the time they use was read before
  the mutex, the reply leaves before the state is saved, and saves of several
  threads interleave with handlers of others. In the shell the key handler, the
  live feeder, the send threads, two kinds of watchdogs and the updater
  interleave at every lock.
* *Failure.* A crash can fall between handler, reply and snapshot; a restart
  keeps the panel and forgets the ledger, the cache and the queue. The worker
  may answer nothing. The snapshot may fail to be written. In the shell the mark file may be
lost or torn, and the process may end in the middle of an installation.
* *Retries and late answers.* A client sends the same request again; a refresh
  token is used twice; an answer arrives after the client gave up.
* *Derived and duplicated state.* Three loops over the entries must agree; the
  last-movement map repeats what the entries say; two components hold balances,
  two hold members, devices and invitations; two comparisons of versions decide
  whether a shell may start.

What makes each part correct:

* ledger: what is derived from the log agrees with it; a charge comes out of the
  hold of its own request; the sweep returns every idle hold and no other;
* whisper-auth: a session lives only on a bound device of a member who is not
  stopped; refresh tokens form a chain; a replay ends the login for good;
  revocation is final; guessing is slow;
* broker: panel and ledger agree; a text is paid for once, and only with a token
  that is still good; the answer tells the truth about the fee; nothing stays on hold; what was saved survives; every
  request ends;
* membership: the two stores of members never come apart, an opening balance is
  credited once, the admin sees every session, the admin's password cannot be
  guessed fast;
* updates: the shell's gate and the panel's version check agree, a version is not
  installed again and again, and a newer one is tried;
* relay of a dictation: what the member was told is free is not charged;
* shell: each second of sound is fed once, silence is not sent, a busy line is
  shown and becomes free, what is shown goes away again, and no update cuts a
  dictation;
* stored session: an honest member is not taken for a thief, what is stored can
  be exchanged, a logout stays one;
* queue and route: the counts per member are right, a lane is not judged by a single
  beat, a started request keeps its lane, and in this broker nobody ever waits;
* panel: a fee is what its tariff version makes of its seconds, in panel and
  ledger alike, and no charge takes a member above the caps.

The full list of components, with the ones that are not modelled and why, and
the list of hazards with the line where each bites, are in `PROJECT.json`.

## 2. Modules

| module | models | proofs |
|---|---|---|
| `AccountBook` | what the ledger promises: money is on the balance, on hold, charged or withdrawn, and moves by five operations | |
| `Ledger` | the ledger as it is written: entries, derived sums, last-movement map, sweep; implements `AccountBook` | `LedgerProofs` |
| `AuthStore` | invitations, devices, access and refresh tokens, lock-out, admin revocations | `SessionProofs`, part 1 |
| `Broker` | connections, mutex, clock, handlers, transcription, reply, snapshot, crash and restart; moves money with the actions of `AccountBook` | `BrokerProofs` |
| `Flow` | the shell's dictation flow: key, capture, live feeders, senders, watchdogs, overlay and its timers, boot question, updater and restart | `FlowProofs` |
| `ClientSession` | the session a shell stores in memory and on disk, its commands, lost and late calls, several processes; EXTENDS `AuthStore` | `SessionProofs`, part 3 |
| `Dispatch` | the waiting queue and the route table of `broker-core` as a library, and the broker's handler as its caller | `DispatchProofs` |
| `Panel` | tariff table with its vendors, the quotes of panel and ledger, switch, caps, admission and booking on both lines | `PanelProofs` |
| `Members` | the handlers of membership: invitations, redeem, login, device resets, suspension, each writing the auth store and the panel; the admin's password and tokens; EXTENDS `AuthStore` | `SessionProofs`, part 2 |
| `Updates` | the release feed, the two version comparisons, the boot gate, the pollers, the mark file, the installer, ends of the process | `UpdatesProofs` |
| `Relay` | a dictation from the key release to what the member reads: sender threads, local server, broker, worker | |
| `Sums` | lemmas on the sum of a function over a finite set, for `LedgerProofs`, `PanelProofs` and `BrokerProofs` | itself |
| `MCDispatch`, `MCLedger`, `MCAuthStore`, `MCBroker`, `MCFlow`, `MCClientSession`, `MCPanel`, `MCMembers`, `MCUpdates` | the instances TLC runs (`Relay` needs none) | |

`Broker` EXTENDS `AccountBook` and not `Ledger`: that the entries behave like
the account book is shown once, in `Ledger` (`ImplementsBook`), and the broker
is checked against the book, which has a far smaller state. An operator whose
comment starts with "Mutant:" is not part of a model; it is a plausible mistake
in the definition that follows it, used to show that a property can fail.

### Ledger

`entries` is the `Vec<Entry>`, its index the sequence number; `lastTouch` is
`last_touch`. Each call is one action with the guards of the code in the order
of the code (`Topup`, `Deduct`, `Block`, `Settle`, `Release`, `FailRequest`);
a refused call changes nothing and is a disabled action. The sweep is a first
step that collects the idle keys (`BeginSweep`) and one step per key
(`SweepKey`) in any order, because the code iterates over a hash map; no call
runs in between, because the caller holds the broker's mutex. `Now` is any
instant up to `MaxLag` old: `http.rs:211` reads the clock before the mutex.
Amounts are given instead of quoted from seconds; a tariff is its version.

### AuthStore

One action per call and outcome that writes something. A pair of tokens is a
number, its index in `issued`; the record keeps what the signed token carries.
`rotated`, `refresh` and `generation` are the code's fields. `burned`,
`guesses` and `root` are history variables and are read by no guard. Hashing,
signatures and names are abstracted to "a token that was never issued is
refused".

### Broker

`conn[c].pc` follows a thread: `new`, `arrived` (clock read, waiting for the
mutex), `working` (a transcription that holds the mutex while the worker
works), `answered` (handler done), `replied` (client has the answer), `done`
(snapshot written), `unsaved` (the write failed), `dead` (the process died).
A handler that does not wait is one action. `disk` is `panel.json`: the panel
and the members' sessions; `Restart` loads it and starts with an empty ledger
and an empty cache. The panel writes of each handler are in the order of the
code; `Deduct` has the branch where the panel has paid and the ledger refuses.

Abstractions: an invitation is "the account does not exist yet" (codes and
expiry are in `AuthStore`); hash mismatch, oversized body, the provider's gate
and the spending caps are one refusal before the hold, possible for any
recording; the queue and the route are not modelled, because a
request is pushed and popped under the same mutex and always goes home: that is
`ServedAtOnce` of `Dispatch`, a theorem. So the refusals of the queue and the way
out for the fallback lane, which would have to give the hold back, are never taken,
and `NothingHeldBetweenHandlers` is about the two ways out that are (text and no text);
a decode error after the hold cannot happen to a body the gate has decoded;
a failed `write_all`
of the reply is ignored by the code and looks like success to the thread.

### Flow

`shell` is the struct `Shell` with the two fields of `UiState` that matter,
and its methods are operators on it (`HotkeyDown`, `PushSeconds`, `HotkeyUp`,
`TranscriptArrived`, `SendError`, `NoteUpdateAvailable`). Each action is one
critical section of the mutex `AppState::shell`, and what a thread saw in an
earlier section it carries along: a live feeder copies the buffer
(`FeederSnapshot`) before it takes the lock (`FeederPush`), a watchdog looks
(`DogLooks`) and clears the line in a second section (`DogBites`), an overlay
timer looks and dismisses in two, the updater looks (`UpdateDue`) and
restarts without looking again. The key handler is one section: a release stops
the capture, feeds the rest and decides (`KeyReleased`); a press opens the
session and starts the capture, and the device may fail (`KeyPressed`).
`feeder`, `job` and `dog` have one place per press, because each press may
spawn one feeder and each release one sender with one watchdog; several of each
are alive at a time. `lastStop` is a history of the last stop event; no guard
reads it.

Time is kept as an order. A sender ends within 4 + 120 + 15 s, its watchdog
looks after 150 s, so `DogLooks` waits for the sender to end; the last second
of a recording comes 180 s after the press, so every sender and watchdog of
earlier releases is over by then (`EarlierWorkOver`). Any other order of
threads is allowed.

Abstractions. A second of sound is what the gate says of it. `last_pcm` is
whether there is a sound. Painting the window is part of the change that
causes it. Many timers are merged into one pending fade and one pending
dismissal: a timer whose toast is no longer shown does nothing. The buffer is
dropped when the capture stops, since a later copy could have been taken before.
At most `MaxHolding` feeders hold a copy at once. The balance badge, the queue
view, the warning that the key is taken by another program and a change of
the key or the microphone are left out. How versions are compared and what the
updater installs is in `Updates`, whose sound a sender reads in `Relay`.

### ClientSession

`ClientSession` EXTENDS `AuthStore` and lets its calls happen only when a
request of a shell, the admin or the clock brings them about. `mem` is the
`UserSession` of each process, `file` the `session.json` of each PC; both name
the pair by its number. The member commands are not `async`, so Tauri runs them
on the main thread: a shell waits for one call at a time, and a logout cannot
fall into a refresh. `call[n]` is the n-th call: the request is under way
("sent", or "abandoned" once nobody waits), or the answer is ("answered"). A
call is given up after 15 s, while the broker may handle it much later, since
its mutex is held for whole transcriptions. `TakesPair` stores the pair
(`SetPair`) and writes the file (`Persist`), which may fail (the error is only logged) or leave a torn file
that the next start drops. `UserLogout` empties both (`Clear`) and ignores a failed removal. A second
process on the same PC is possible, because nothing prevents one.

`strained` is a history variable: the logins with a refresh that was given up,
a pair that could not be written, or two processes that share them. The
properties say that nothing else endangers a login, which is also a list of
what does. `left` remembers logouts.

Abstractions: the member knows the password (wrong ones are in `AuthStore`),
an invitation code may be mistyped, a request is not duplicated by the network
(the client never sends one again by itself).

### Dispatch

`items` and `perAccount` are the fields of `Queue`, `lanes` and `suspect` those
of `RouteTable`, `job` the `Assignment` made for each request. `Spec` is the two
structures as a library: `Push`, `Pop` with any answer to the question who is busy,
`Cancel`, `Heartbeat`, `Assign`, `AssignTimeout`, `BeginInference`, in any order. No
particular caller is assumed; what a refused call returns changes nothing and is a disabled
action. `HandlerSpec` is the only caller of this commit: `Handle` is
`transcribe_inner`, which pushes, pops, assigns and starts in one critical section and
does not look whose entry it took out. That its own entry always is what comes out, in
time, and for the home lane, is `ServedAtOnce`. The limits are parameters, read with a
time up to `MaxLag` old. `failover_lines` has no caller and is not modelled.

### Panel

`tariff`, `vendor` and `configs` are the fields of `TariffTable`, `limits` and
`homeOnly` those of the accounts, `open` the switch, `spend` the common log.
Every change of prices is `Apply`, as in the code, after what its handler
refuses or adds: `TariffsPut`, `VendorSet`, `VendorPrice`, `VendorUpstream`.
`SetLimits` is what the three handlers of caps end in. `TranscribeHome` is one
handler: gate, admission, a hold (refused when it would be 0), booking. On the
fallback line, closed in this broker, `Admit` and `Finalize` are a caller that
does other things in between, for which the panel is written ("HER ZAMAN izinli"
at `lib.rs:278`); it may also end without text (`Abandon`). A member has one such
request at a time (`in_flight`). Both quotes are there: `PanelQuote` and, on what
`LedgerTariff` hands over, `LedgerQuote`; seconds are whole, since both round
them up first. `archive` and the extra fields of a log entry are history.

Abstractions: balances and suspension are in `Broker`; no fee is near 64 bits;
negative caps, which refuse every fee, are left out, and so are provider keys.

### Members

`Members` EXTENDS `AuthStore` and puts the panel's table of members beside it:
`panelInvites` and `panel` are the two maps of `AccountStore`, `credited` is what
the ledger booked at a redeem. Each handler of `state.rs` is one action that
calls the auth store's action and the panel's half (`PanelInvites`,
`PanelRedeems`, `PanelBinds`, `PanelResets`, `PanelSuspends`) in the order and
with the ignored errors of the code: `Redeem` asks auth first, `Login` lets the
panel follow only if it may bind the device, `ResetDevices`, `Stop` and `Resume`
write the panel first and ignore that auth may not know the account. The branches
in which one store refuses what the other took are in the actions; `StoresAgree`
says that they are never taken. `AdminWrong`, `AdminLogin` and `AdminSetup` are
`AdminAuth`; every admin handler asks `AdminOk`. `Restart` is one with an up to
date snapshot, which keeps all but the admin tokens; late ones are in `Broker`.

Abstractions: `balance` is the opening one, later movements are in `Broker`; the
number of slots is the panel's constant of this commit; `online` and
`last_active`, the audit and the log of resets are written and read by no handler.

### Updates

A version is the sequence of the numbers between its dots. The code compares
versions twice: `CmpLess` (feed and updater) compares all parts, `ShellLess` (the
gate of the shell) three. `feed` is `FeedState`; `boot` the answer to the
boot question, in the form the broker sends (`BootPanelForm`) and in the signed
one the shell also understands (`BootStrictForm`); each poller is a thread that
finds a version, reads the mark and adopts it or notes the update, with other
threads in between; the installer looks under the lock (`UpdateDue`), asks the
network again, installs, writes the mark and restarts. A write of the mark may
leave the old text or none; the process may end anywhere and then leave a file
that is being written empty. `FetchUpdate` is the installation by hand, which
leaves no mark.

The desktop updater is a library outside the repository. It asks one address, which
`build.rs` compiles in: the broker's `/v1/feed`, unless `TAURI_FEED_URL` names another
place, such as a release page. `endpoint` is that choice, made once per build. From the
broker it gets `FeedReplies`, derived from `feed`, so that a publication or a new key
(`InitFeed`, which empties the feed) changes them. These answers have the manifest under
`"feed"` and no version at the top, where the updater looks: `Found` never holds for
such a build, which is a finding (`state.rs:663`). A release page is external and free:
`MovePage` lets it offer any release, older or newer, or none, at any time.

`last`, `spoiled` and `moved` are history: the version installed last, whether the mark
fails to say so (a write that failed, an end of the process before or during it, a
poller that took a version for installed afterwards, or a boot answer in the signed
form, which asks no mark), and whether the page has offered something else since. The
installer asks again what there is and does not compare it with the mark, so a page
that went back after the update was noted has it install the older release;
`AppliedOnce` leaves pages that moved out. The installing thread may stay in its request
or its download for good (`tauri_app.rs:763` waits without a limit): nothing obliges it.
Signatures are "one of the manifests the owner signed".

### Relay

`sender[d]` follows the thread of a dictation: it copies `last_pcm` when it gets
to run, asks the local server if there is one, and falls back to the broker
(`probing`, `local`, `relay`, `asking`). `request[d]` is the broker's side: arrived,
held under the mutex while the worker works, answered with a text or refused.
`charged` and `told` are what was settled and what the member reads. `GivesUp` is
the end of the 15 s of the client: the broker does not learn of it, and the
worker's own limit is 300 s.

## 3. Runs

| run | question | bounds |
|---|---|---|
| `ledger` | Do the derived sums, the tariff of a line, the last-movement map and the sweep hold together, and does the ledger implement the account book? | 1 account, 2 requests, amounts 0 to 2, 2 tariff versions, clock to 2, times up to 1 late, 4 entries written by callers (the sweep may add more) |
| `auth` | Do sessions end when they must, whatever calls follow, and is guessing slow? | 1 account, 2 devices, 1 code, threshold 2, lock 3 s, clock to 3, 3 pairs of tokens, 2 revocations |
| `broker` | Three connections race: do the two balances agree, who pays for which text, and is the token still good when the fee is taken? | 3 connections with any of 9 requests each, 1 member, 1 recording with one request id, clock to 3, cache lifetime 2, wait up to 1, no restart |
| `broker_restart` | A crash between any two steps: is what survived whole, does what was saved stay, does every request end? | the same, one restart, no deductions (see below), no passing of time |
| `flow` | Two dictations and everything that runs beside them: is each second fed once, is silence kept back, is a busy line shown and freed, does the window go away? | 2 presses, cap of 2 s, silent or loud seconds, 1 restart, 1 login or logout, 1 feeder with a copy, boot answers below-floor and unknown, any number of feed notices and updater attempts |
| `client_session` | When is an honest member taken for a thief, is what is stored exchangeable, does a logout stay one? | 3 processes on 2 PCs, 1 account with 1 slot, 3 calls, 1 end of a process, 3 pairs, 1 revocation, clock to 1 |
| `flow_restart` | (violation) the updater never restarts under a dictation | 1 press, 1 restart, boot answers allowed and mandatory |
| `dispatch` | Do queue and counts agree, and is a lane judged by runs of beats, whatever the caller? | 3 requests of 2 members, at most 2 waiting per member and 3 in all, 2 misses or 2 hits turn a lane, counters saturate at 2, suspicion for 1 s, waiting for 0 s, clock to 1 |
| `panel` | Is every fee explained by its version and seconds, in both arithmetics, and does each member stay under their caps? | 2 members, 2 tariff versions, home price 0 or 1, fallback at 1.5 times, a minute of 2 s, floor 1 s, ceiling 3 s, minimums 0 to 4 s, lengths 1, 3 and 4 s, 2 charges, caps of 2 a day and 3 a month or none, clock to 1, times up to 1 late |
| `members` | Do the two stores of members stay alike, is an opening balance credited once, does the panel show every session, is guessing the admin's password slow? | 1 account, 2 devices, 2 codes, 1 slot, opening balances 0 and 5, lock-out after 1 wrong password for 1 s, tokens and invitations for 1 s, admin lock after 2 for 2 s, clock to 2, times up to 1 late, 2 pairs, 1 revocation |
| `updates` | Do the two gates agree, is nothing installed twice while its mark holds and the page stands, is a newer release tried? | builds that ask the broker and builds that ask the page, versions 0.1.0 (the binary), 0.1.0.1, 0.2.0 and 0.10.0, the last two on the page, 3 signed manifests with and without a floor, both forms of the answer, the boot poller and one that repeats, any number of failures, ends and starts |
| `relay_told_free` | (violation) a dictation the member was told is free was not charged | 2 dictations |

Why the bounds are enough for the questions. Two requests let one hold be
idle while another is fresh, and a key be swept while the other holds nothing.
Four entries are a load, a hold, a line on it and one more; amounts 1 and 2 let
a hold be used in parts, and 0 lets a call be refused or a settlement be empty.
Two devices with a limit of one or two slots reach every order of binding,
unbinding and re-binding; three pairs are a login and two refreshes, or two
logins and a refresh; a lock of 3 s in a clock of 3 s lets guesses fall before,
at and after it. Three connections are an original, its retry and an admin, or
a load, a transcription and a suspension; the clock passes the cache lifetime.
One restart is enough for every finding here, since a second one starts from
the state a first one can leave.

In `flow`, two presses give an old sender, feeder and watchdog beside a new
recording; the proofs cover more of them. A cap of two seconds is reached in
the middle of a press and at its release; one loud and one silent second give
every verdict of the gate (a low one differs from a silent one only in not
ending the session, and the proofs allow it). A login and a restart may fall
between any two steps; a mandatory version arrives through the feed.

`broker_restart` leaves deductions out because of a finding (`state.rs:795`):
with an empty ledger every deduction is refused after the panel has paid it, so
the balances do not account for what survived. The theorem has the same condition
as a hypothesis (`NoDeductionAfterRestart`).

In `client_session`, three calls are a login, a refresh that goes wrong and the
refresh that presents the old token, with a restart in between; two processes
on one PC share or overwrite the file, and the third, elsewhere, is refused for
want of a slot or loses its session with the others.

In `dispatch`, two requests of one member put an entry behind a busy member,
with the entry of another member behind it; depth 3 and two per member let
either limit refuse. A threshold of 2 tells a run from two beats with another in
between, and is where the counters saturate. The proofs cover all other values, and
`ServedAtOnce`, which is proved of `HandlerSpec`.

In `panel`, a price of 1 with a rate of 3 halves makes both roundings matter; 0
makes a fee that is refused at home and free on the fallback line. Minimums lie
below the floor, between it and the ceiling and above it, and a length above the
ceiling is refused by the gate. Two versions are one change during a request; two
charges are what it takes to pass a cap. The proofs cover all other prices,
lengths and numbers of versions.

In `members`, two codes made out to the same name are what could open an account
twice; two devices with one slot are what a reset is for; a lifetime of one
second in a clock of two lets a code, a token and an admin token end between two
calls. Two wrong passwords lock the admin, so three guesses span a lock.

In `updates`, 0.1.0.1 differs from the binary in a part only one of the two
comparisons sees, and 0.10.0 is greater in number and smaller as a text. A manifest
without a floor, one whose floor has three parts and one with four reach every
answer of the gate. Two releases on the page let it move forward and back. Nothing is bounded by a counter: failures, ends and starts
repeat for ever, and the state space is finite all the same.

In `relay_told_free`, one dictation is enough for the answer to come late; the second
one is what keeps the mutex of the broker busy.

The two violations are disagreements of the code with its own comments, sentences
and tests; `PROJECT.json` quotes them, and eighteen more that need no run.
`PanelFollowsLedger` states what does hold of the two balances: they agree until
the first restart, after which the ledger is empty and the panel is not.

Type correctness is a theorem of every module with proofs, for every value of the
constants; two runs (`ledger`, `client_session`) check it as well.

Deadlock is not checked for the ledger, both session models, the members, the
panel, the broker and the relay: these models stop legitimately when their bounds
are used up (all connections done, all entries written, all dictations told). It is
checked for the flow, whose feed notices never end, for `dispatch`, whose lanes
always beat, and for `updates`, whose shell can always be started or end.

Bounds in guards: `MaxClock` (ticks), `MaxEntries` (entries by callers),
`MaxIssued` (pairs), `MaxGeneration` (revocations), `MaxRestarts`, and in `Flow` `MaxPresses`,
`MaxLogins` and `MaxHolding`, in `ClientSession` `MaxCalls` and `MaxStops`,
in `Panel` `MaxVersion` and `MaxSpend`. `MaxLag`
limits how long a connection waits for the mutex. The code has no such limit; it
is a parameter, and the properties that depend on it (`PaidOncePerText`,
`GuessingIsSlow`) name it in their statement, so they say how much is lost
per second of waiting.

Symmetry: devices, requests, connections and the two shells of one PC are
permuted in the runs that check no liveness, and so are the invitation codes of `members`.

## 4. Fairness

`FairSpec` of `Broker` asks weak fairness of each connection thread. The
operating system runs every thread, the mutex is free again after every
handler, and a connection carries a single request, so a waiting thread can be
passed by only finitely many others. There is no fairness on arrivals, on
crashes, on the passing of time, or on which answer the worker gives; the
worker's answer itself is part of the thread (its backends have a time limit of
300 s, after which the text is empty). `EveryRequestEnds` holds under it.

`FairSpec` of `Flow` asks that a held key is let go at last (the only promise of
the user), that a sender reads its sound and ends (each of its calls has a
time limit), and that sleeping timer threads wake up. Nothing is asked of
watchdogs, feeders, presses, the network's answer, logins or updates: a line
becomes free without the watchdog. `LineFrees` and `TransientsFade` hold under
it.

`Dispatch` has no fairness: nothing is ever left waiting for somebody else to serve it.

`UpdatesFairness` of `Updates` asks weak fairness of the repeating pollers (what a page
offers is found at last, since each poll gives up after 15 s and another one comes
after half an hour; what was found is compared, adopted or noted) and of the look of the
idle thread (`UpdateDue`). Nothing is asked of the installer once it has begun, which
may fail for ever or never return, of the disk, of dictations, of the page, of the feed,
of the boot poller and answer, or of starts. `UpdateIsTried` holds under it: on a shell
that keeps running and idle beside a page that keeps offering news, tries go on, unless
one of them hangs.

## 5. Proofs

All proofs are checked by TLAPS 1.4.5 with Z3, Zenon and LS4, for any sets of
accounts, requests, devices, recordings, connections and shells and any bounds, from
the assumptions named in the modules (`AmountsAssumption`,
`LedgerAssumption`, `AuthAssumption`, `BrokerAssumption`, `FlowAssumption`,
`DispatchAssumption`, `PanelAssumption`, `UpdatesAssumption`,
`MembersAssumption`, `ClientAssumption`): amounts and times
are naturals, versions are non-empty sequences of naturals, the slot limits an admin
sets are 1..16, a quote is positive and no less than a quantum, the cache lifetime and
the sweep timeout are positive. Where a property is about a sum over a set of the
constants (requests, connections), that set is finite and as large as one likes.
`Invariance` in a proof module is the inductive invariant itself.

* `Sums`. Balances, holds and spending are `SumFunctionOnSet` of the community
  modules, a fold that picks an element and goes on with the rest. That it is a sum,
  whatever is picked, is proved here: zero on the empty set, an element splits off,
  disjoint sets add up, equal functions have equal sums, and a natural sum grows with
  its set. The induction over finite sets is first-order: the property is a
  set of subsets, not an operator, and a least counterexample exists because strict
  inclusion is well founded on finite sets.
* `LedgerProofs`, first part. `TouchIsLastEntry` is not inductive while the sweep
  runs: the invariant adds that the sweep's keys are in the map, that a key waiting
  to be swept is still idle at the sweep's time (no call runs in between, and the
  sweep touches each key once), and that lines without a request are the
  admin's. From it follow `TariffIsFrozen` (each line copies the version of the
  line before it) and `SweepIsPatient`.
* `LedgerProofs`, second part. `LegalKeepsBooks` says what one more line does to each
  sum over the log; a call or a sweep step appends a line that is `Legal` or none.
  `MoneyInv` adds to `DerivedSumsAgree` which kinds of line carry a request and that
  no request is charged or given back more than was blocked for it (`HoldsCovered`):
  the saturating subtraction behind a hold never saturates, so that a hold moves by
  exactly what a line says. `SweepIsThorough` needs that an idle key the sweep has done with, or never had to
  visit, holds nothing (`SweptClear`). `LedgerImplementsBook` is the refinement: every line
  is one step of `AccountBook` on the sums (`BookStep`, one case per kind), and what
  writes no line is a stutter.
* `BrokerProofs`. The invariant says who may hold the mutex (exactly the thread
  that works), that money is on hold only for the recording of that thread, that
  its token is still accepted (`TokenInv`, from which `FeesNeedLiveTokens` follows: the
  mutex keeps out the handlers that could stop the member), and that memory and disk agree about finished connections. For `PaidOncePerText`
  it adds that a fee is either in the cache with a later or equal time, or was
  dropped by a connection whose clock was past its lifetime, and that every
  waiting clock is at most `MaxLag` old. `BrokerKeepsTheBook`: between two starts, the
  broker moves money only by steps of `AccountBook`. With `LedgerImplementsBook` the
  detailed ledger and the broker that uses it meet at the same abstract
  specification.
* `BrokerProofs`, `PanelBooksSurvivors`. What the panel shows is the sum of the effects
  of the calls it booked, over the connections that reached the disk.
  The hypothesis `NoDeductionAfterRestart` (no process has ended, or the admin makes no
  deductions) is the finding at `state.rs:795`: the panel pays a deduction before the
  ledger, emptied by the restart, refuses it. The proof found an overlap in a first
  version of the model's `Effect`, where two cases held for one operation.
* `SessionProofs`, part 1. `SessionsAreBound` needs that an unrevoked pair is on a
  bound device: slots shrink only together with a new generation.
  `OneExchangeablePerLogin` needs that the roots of chains are their first
  pairs and that an exchange marks its record; `BurnedLoginsStayDead` that a
  pair is issued only from a live one of the same chain or as a new chain.
  `GuessingIsSlow` needs a relation of the history of guesses with `failed` and
  `lockedUntil`.
* `SessionProofs`, part 2. `ImplementsAuthStore`: whatever the handlers do is a
  behaviour of `AuthStore`, so its theorems hold of the broker, and its inductive
  invariant is a part of `MembersInv`. The rest is the types, one slot per account, the
  agreement of the two stores, that a redeemed invitation names an account that is
  there, and `OpeningOnce`. `PanelShows` follows from `StoresAgree` and
  `SessionsAreBound`; `AdminGuessingSlow` has an invariant of its own that relates the
  history of wrong passwords with `failed` and `locked_until`.
* `SessionProofs`, part 3. `ShellsUseTheStore`: with any number of shells, lost, late and
  abandoned calls, what reaches the store is a behaviour of `AuthStore`. `ClientInv`
  says where a login that is not strained can be. One shell at most carries it, in
  memory or in a call (`SoleInv`). The file of the PC agrees with that shell
  (`FilesInv`). What is kept is its newest pair, unless the newest is on its way to that
  shell (`NewestInv`). A PC that was logged out of it has it neither in its file nor in
  a shell (`LeftInv`). A burned login is a strained one. One of these
  alone is not inductive: a refresh is harmless because no other shell has the old pair,
  and none has it because every earlier refresh of that login was saved. TLC checked the
  invariant on `MCClientSession` before it was proved. `BurnedAfterStrain`,
  `HeldExchange` and `LogoutFinal` follow.
* `FlowProofs`. Its invariant is type correctness, a session only while the key
  is held, `FedOnce`, and a relation between the parts of the shell: a busy line
  shows neither nothing nor a result, and while no session is open it is busy
  only if the last one ended by a release or by the cap. What a shell
  method does to that relation is a lemma per method, so each action is a few
  citations. `PushSeconds` needs that a non-empty set of positions has a least
  one (well-founded induction from the library, used as a fact).
* `DispatchProofs`. `QueueCounted` is proved together with type correctness,
  through lemmas on what appending an entry and removing one at a position does to
  the set of a member's requests and its cardinality; that no request is in the
  queue twice is what makes entries and requests count alike. `JudgedByRuns`
  is inductive as it stands, given types. `LaneIsSealed` is an action property that no
  run states: a started request keeps its lane, whoever calls what. `ServedAtOnceAlways`
  is about `HandlerSpec`, for any limits above zero: between two handlers the queue is
  empty, no lane has missed a beat and there is no suspect, so the next request finds
  room, takes out itself, and goes home.
* `PanelProofs`. `PricedByVersion` is inductive with the types. Two lemmas carry
  it: `QuotesAgree` (below the ceiling both sides bill the same seconds and round
  alike) and `ApplyPreserves` (a new version is appended, so a fee still means
  what its own version made of it). `SpendingUnderCaps` needs `JobsFit`: a request
  that was admitted and not yet booked still fits under the cap it was admitted
  with. That holds because a member has one request at a time on the fallback line,
  what others book is not the member's, and a window that moves on only loses charges.
* `UpdatesProofs`. `GateAgreement`: with at most three parts the two comparisons
  agree, and a floor is only ever set together with a release. `AppliedOnceHolds` needs
  that the mark says what was installed last unless it is spoiled, and that as long as
  the page stands where it stood (`PageStands`) whatever a poller or the installer found
  is that version, which is not news to the mark (`NothingNew`, by the irreflexivity of
  `CmpLess`), so nothing is due. It holds for both endpoints and any moves of the page.

Stated by no run: the `TypeCorrect` theorems of the modules other than `Ledger` and
`ClientSession`, `TouchIsLast`, `AnswersTellTheFee`, `LaneIsSealed`, `ServedAtOnceAlways`,
`BrokerKeepsTheBook`, `ImplementsAuthStore` and `ShellsUseTheStore`.

Only model-checked: `EveryRequestEnds`, `LineFrees`, `TransientsFade` and
`UpdateIsTried`, which are liveness under fairness, and the two properties that
runs refute. Every other property of a run is a theorem.


## 6. Not modelled

* Audio (encoding, silence thresholds, resampling), cryptography, HTTP parsing,
  JSON, the texts and the layout of the windows, the worker's child process:
  computations on data without a state that lasts.
* The JSONL file of the ledger: written, never read.
* Provider keys of the panel (a list the closed fallback lane would use), forced
  versions (stored, read nowhere), retention advice, disk figures and the texts of
  the api: no property of the running system depends on them.
* The admin's commands of the window: plain calls of handlers that are modelled.
* A change of the key or the microphone while the key is held: what the operating
  system delivers for a key that is no longer registered is not in the repository.
* The order in which painted views reach the window, and the badge of the balance.

## 7. Plan

Done: the money, the sessions, the members and the admin of the broker, the queue
and the routes, the prices, the shell's dictation flow, the stored session of the
shell, and the way of an update, each with its proofs; the way of a dictation through
shell, broker and worker, with the violation it shows.

Left to prove, in this order:

1. `Relay`: types, and what does hold of its parts, that a sender is told the answer of
   its own request and that a text is told at most once.
2. `Flow`: what an old watchdog, feeder or sender can never do to a newer recording, as
   action properties beside `InFlightIsShown`.
3. `Panel`: a quote never falls when the seconds grow, and the same of the ledger.

Left to model, in this order:

1. The window as a queue of painted views: which of two views drawn outside the lock
   is on the screen at last, and which answer an older dictation may show over a newer
   recording.
2. `Relay` with the sound a late sender reads as a property of its own, under the
   order in which the operating system runs the threads.
3. `Journal`: the append of ledger lines with failed and partial writes, once
   something reads them back.
4. A change of the key or the microphone while a dictation runs.
