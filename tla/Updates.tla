------------------------------ MODULE Updates ------------------------------
(***************************************************************************)
(* How a member's shell learns of a new version: the release feed of       *)
(* crates/panel/src/feed.rs, the broker's answer to /v1/version, the gate  *)
(* the shell passes when it starts (version.rs, flow.rs), the pollers that *)
(* ask the updater for news, the mark file that remembers what was         *)
(* installed (update.rs) and the thread that installs when nothing is      *)
(* dictated (tauri_app.rs).                                                *)
(*                                                                         *)
(* A version is the sequence of the numbers between its dots; a part that  *)
(* is no number counts as 0, a missing part too.  The desktop updater is   *)
(* outside the repository: it asks one address that is compiled into the   *)
(* build (build.rs), the broker's /v1/feed or a release page, and reads a  *)
(* manifest whose version is at the top of the answer.  The page is        *)
(* outside, too, and may offer any release or none, at any time.           *)
(***************************************************************************)
EXTENDS Integers, Sequences

CONSTANTS Versions,  \* the versions that exist
          Binary,    \* CARGO_PKG_VERSION, compiled into every build
          Signed,    \* the manifests the owner has signed
          Forms,     \* the forms /v1/version answers in
          Tags,      \* the releases that may stand on the release page
          Endpoints, \* where builds let the updater ask
          Pollers    \* threads that ask for news: "boot" once per process

\* No version: a mark that cannot be read, a floor that is not set.
NoVersion == <<>>

ASSUME UpdatesAssumption ==
  /\ Versions \subseteq Seq(Nat) \ {NoVersion}
  /\ Binary \in Versions
  /\ Signed \subseteq [version : Versions, floor : Versions \cup {NoVersion}]
  /\ Forms \subseteq {"panel", "strict"}
  /\ Tags \subseteq Versions
  /\ Endpoints \subseteq {"broker", "page"}

VARIABLES feed,       \* FeedState of the panel
          endpoint,   \* the address this build asks
          page,       \* the version the release page offers
          mark,       \* update-applied.json
          up,         \* the shell runs
          boot,       \* how the question asked at its start ended
          pending,    \* Shell::pending_update
          busy,       \* Shell::recording or Shell::in_flight
          polls,      \* polls[p]: how far poller p is, and what it found
          installer,  \* the same of the thread that installs
          last,       \* history: the version installed last
          spoiled,    \* history: the mark does not say so, or was passed by
          moved       \* history: the page has offered another one since

shellVars == <<up, boot, pending, busy>>
outside == <<endpoint, page>>
history == <<last, spoiled, moved>>
updateVars == <<feed, outside, mark, shellVars, polls, installer, history>>

At(step, v) == [step |-> step, ver |-> v]

-----------------------------------------------------------------------------
(* Comparing versions.                                                     *)

Part(v, i) == IF i \in DOMAIN v THEN v[i] ELSE 0

\* cmp_version, cmp_tag: the first part that differs decides.
CmpLess(v, w) ==
  \E i \in DOMAIN w : /\ Part(v, i) < Part(w, i)
                      /\ \A j \in 1..(i - 1) : Part(v, j) = Part(w, j)

\* cmp_simple, cmp_ver: the same, but three parts only.
ShellLess(v, w) ==
  \E i \in DOMAIN w \cap 1..3 : /\ Part(v, i) < Part(w, i)
                                /\ \A j \in 1..(i - 1) : Part(v, j) = Part(w, j)

-----------------------------------------------------------------------------
(* The feed of the panel.                                                  *)

NoFeed == [on |-> FALSE, releases |-> {}, floor |-> NoVersion]

\* Mutant: a new key leaves the old floor.
InitFeedKeepsFloor ==
  /\ feed' = [on |-> TRUE, releases |-> {}, floor |-> feed.floor]
  /\ UNCHANGED <<outside, mark, shellVars, polls, installer, history>>

\* PanelState::init_feed: another key starts an empty feed.
InitFeed ==
  /\ feed' = [on |-> TRUE, releases |-> {}, floor |-> NoVersion]
  /\ UNCHANGED <<outside, mark, shellVars, polls, installer, history>>

\* FeedState::publish of a manifest with a good signature; any other is
\* refused.  A version published again replaces its entry.
Publish(m) ==
  /\ feed.on
  /\ feed' = [feed EXCEPT !.releases = @ \cup {m.version}, !.floor = m.floor]
  /\ UNCHANGED <<outside, mark, shellVars, polls, installer, history>>

\* FeedState::latest
IsLatest(v) == v \in feed.releases /\ \A w \in feed.releases : ~CmpLess(v, w)

\* FeedState::check_client, what /v1/version-check answers to version v.
CheckClient(v) ==
  IF feed.releases = {} THEN "ok"
  ELSE IF feed.floor # NoVersion /\ CmpLess(v, feed.floor) THEN "blocked"
  ELSE IF \E w \in feed.releases : CmpLess(v, w) THEN "available"
  ELSE "ok"

-----------------------------------------------------------------------------
(* What the updater is told.                                               *)

Version == Versions \cup {NoVersion}

\* FeedState::tauri_feed: the manifest of the latest release, if any.
TauriFeed(v) == IF feed.releases = {} THEN v = NoVersion ELSE IsLatest(v)

\* BrokerState::feed puts that manifest, or null, under "feed": there is no
\* version at the top of its answers.
FeedReplies ==
  {[version |-> NoVersion, feed |-> v] : v \in {w \in Version : TauriFeed(w)}}

\* The release page serves the manifest itself.
PageReply == [version |-> page, feed |-> NoVersion]

\* The updater's check, at the address that was compiled in: it takes a
\* version newer than the binary from the top of the answer, or nothing.
Found(v) ==
  /\ \E reply \in IF endpoint = "broker" THEN FeedReplies ELSE {PageReply} :
       reply.version = v
  /\ CmpLess(Binary, v)

-----------------------------------------------------------------------------
(* The start of the shell.                                                 *)

\* check_at_startup with a floor of the version the shell was built as.
BelowFloor == feed.floor # NoVersion /\ ShellLess(Binary, feed.floor)

\* check_at_startup on the form the broker sends: only the floor counts.
BootPanelForm ==
  /\ "panel" \in Forms
  /\ boot' = IF BelowFloor THEN "blocked" ELSE "allow"
  /\ UNCHANGED <<pending, spoiled>>

\* decide on the signed form: a newer version is due at once, whatever the
\* mark says.
BootStrictForm ==
  /\ "strict" \in Forms
  /\ \E v \in Versions :
       /\ IsLatest(v)
       /\ boot' = IF BelowFloor THEN "blocked"
                  ELSE IF ShellLess(Binary, v) THEN "pending" ELSE "allow"
  /\ pending' = (pending \/ boot' = "pending")
  /\ spoiled' = (spoiled \/ boot' = "pending")

\* boot_from_broker, Shell::boot: the answer arrived in time.
BootAnswered ==
  /\ up /\ boot = "waiting"
  /\ BootPanelForm \/ BootStrictForm
  /\ UNCHANGED <<feed, outside, mark, up, busy, polls, installer, last, moved>>

\* boot_unknown_version: no answer, or none that can be read.  The question
\* is not asked again while this process runs.
BootUnknown ==
  /\ up /\ boot = "waiting"
  /\ boot' = "unknown"
  /\ UNCHANGED <<feed, outside, mark, up, pending, busy, polls, installer,
                 history>>

-----------------------------------------------------------------------------
(* The pollers.                                                            *)

\* spawn_boot_updater runs once, spawn_auto_updater and check_update_now
\* call poll_feed_once again and again.
Rested(p) == At(IF p = "boot" THEN "done" ELSE "idle", NoVersion)

\* check_for_update answers in time.
PollFinds(p) ==
  /\ up /\ polls[p].step = "idle"
  /\ \E v \in Versions :
       Found(v) /\ polls' = [polls EXCEPT ![p] = At("found", v)]
  /\ UNCHANGED <<feed, outside, mark, shellVars, installer, history>>

\* No news, no answer in 15 s, an answer that is no manifest, or the updater
\* cannot be built.
PollFails(p) ==
  /\ up /\ polls[p].step = "idle"
  /\ polls' = [polls EXCEPT ![p] = Rested(p)]
  /\ UNCHANGED <<feed, outside, mark, shellVars, installer, history>>

\* read_applied_version, feed_is_newer
PollReads(p) ==
  /\ up /\ polls[p].step = "found"
  /\ polls' = [polls EXCEPT ![p] =
                 IF mark = NoVersion THEN At("adopting", @.ver)
                 ELSE IF CmpLess(mark, @.ver) THEN At("noting", @.ver)
                 ELSE Rested(p)]
  /\ UNCHANGED <<feed, outside, mark, shellVars, installer, history>>

\* write_applied_version: what was found is taken for installed.  The file
\* may keep its old text or none when the write fails.
PollAdopts(p) ==
  /\ up /\ polls[p].step = "adopting"
  /\ mark' \in {polls[p].ver, mark, NoVersion}
  /\ polls' = [polls EXCEPT ![p] = Rested(p)]
  /\ spoiled' = (spoiled \/ last # NoVersion)
  /\ UNCHANGED <<feed, outside, shellVars, installer, last, moved>>

\* Shell::note_update_available, under the lock.
PollNotes(p) ==
  /\ up /\ polls[p].step = "noting"
  /\ pending' = TRUE
  /\ polls' = [polls EXCEPT ![p] = Rested(p)]
  /\ UNCHANGED <<feed, outside, mark, up, boot, busy, installer, history>>

-----------------------------------------------------------------------------
(* Dictations, as far as the updater looks at them.                        *)

\* hotkey_down: below the floor no recording is opened.
DictationStarts ==
  /\ up /\ ~busy /\ boot # "blocked"
  /\ busy' = TRUE
  /\ UNCHANGED <<feed, outside, mark, up, boot, pending, polls, installer,
                 history>>

\* The recording was closed and its text arrived, failed or was given up.
DictationEnds ==
  /\ busy
  /\ busy' = FALSE
  /\ UNCHANGED <<feed, outside, mark, up, boot, pending, polls, installer,
                 history>>

-----------------------------------------------------------------------------
(* spawn_idle_updater.                                                     *)

Polling == At("polling", NoVersion)

\* Mutant: a shell below the floor installs nothing.
UpdateDueIfLetIn ==
  /\ up /\ installer = Polling
  /\ pending /\ ~busy /\ boot # "blocked"
  /\ installer' = At("asking", NoVersion)
  /\ UNCHANGED <<feed, outside, mark, shellVars, polls, history>>

\* Under the lock: something is due and nobody dictates.
UpdateDue ==
  /\ up /\ installer = Polling
  /\ pending /\ ~busy
  /\ installer' = At("asking", NoVersion)
  /\ UNCHANGED <<feed, outside, mark, shellVars, polls, history>>

\* try_install_update asks again which version that is.  Nothing limits how
\* long it waits, here or in the download: the thread may stay at either
\* step for good.
InstallerFinds ==
  /\ up /\ installer.step = "asking"
  /\ \E v \in Versions : Found(v) /\ installer' = At("installing", v)
  /\ UNCHANGED <<feed, outside, mark, shellVars, polls, history>>

\* The version is downloaded and its installer runs.
Installs ==
  /\ up /\ installer.step = "installing"
  /\ installer' = At("installed", installer.ver)
  /\ last' = installer.ver
  /\ moved' = (page # installer.ver)
  /\ UNCHANGED <<feed, outside, mark, shellVars, polls, spoiled>>

\* Either fails; the next round tries again.
InstallFails ==
  /\ up /\ installer.step \in {"asking", "installing"}
  /\ installer' = Polling
  /\ UNCHANGED <<feed, outside, mark, shellVars, polls, history>>

\* Mutant: the version is installed and not remembered.
MarkForgotten ==
  /\ up /\ installer.step = "installed"
  /\ installer' = At("marked", installer.ver)
  /\ UNCHANGED <<feed, outside, mark, shellVars, polls, history>>

\* write_applied_version of what was installed.
MarkWritten ==
  /\ up /\ installer.step = "installed"
  /\ mark' = installer.ver
  /\ installer' = At("marked", installer.ver)
  /\ spoiled' = FALSE
  /\ UNCHANGED <<feed, outside, shellVars, polls, last, moved>>

\* The same when the disk refuses; the error is ignored.
MarkNotWritten ==
  /\ up /\ installer.step = "installed"
  /\ mark' \in {mark, NoVersion}
  /\ installer' = At("marked", installer.ver)
  /\ spoiled' = TRUE
  /\ UNCHANGED <<feed, outside, shellVars, polls, last, moved>>

-----------------------------------------------------------------------------
(* The process.                                                            *)

NewProcess ==
  /\ boot' = "waiting"
  /\ pending' = FALSE
  /\ busy' = FALSE
  /\ polls' = [p \in Pollers |-> At("idle", NoVersion)]
  /\ installer' = Polling

\* restart_applied and app.restart.
Restart ==
  /\ up /\ installer.step = "marked"
  /\ NewProcess
  /\ UNCHANGED <<feed, outside, mark, up, history>>

\* A thread is writing the mark file.
WritingMark ==
  \/ installer.step = "installed"
  \/ \E p \in Pollers : polls[p].step = "adopting"

\* The process ends wherever it is: closed, killed, or by the installer it
\* started.  A file being written may be left empty.
ProcessEnds ==
  /\ up
  /\ up' = FALSE
  /\ NewProcess
  /\ mark' \in {mark} \cup (IF WritingMark THEN {NoVersion} ELSE {})
  /\ spoiled' = (spoiled \/ WritingMark)
  /\ UNCHANGED <<feed, outside, last, moved>>

\* fetch_update: the member installs the newest release by hand; the shell
\* exits and the mark stays as it is.
FetchUpdate ==
  /\ page # NoVersion
  /\ ProcessEnds

Start ==
  /\ ~up
  /\ up' = TRUE
  /\ UNCHANGED <<feed, outside, mark, boot, pending, busy, polls, installer,
                 history>>

-----------------------------------------------------------------------------

\* The owner publishes a release on the page, or withdraws one: the page
\* offers another version, newer or older, or none.
MovePage(v) ==
  /\ v # page
  /\ page' = v
  /\ moved' = TRUE
  /\ UNCHANGED <<feed, endpoint, mark, shellVars, polls, installer, last, spoiled>>

UpdatesInit ==
  /\ feed = NoFeed
  /\ endpoint \in Endpoints
  /\ page = NoVersion
  /\ mark = NoVersion
  /\ up = FALSE
  /\ boot = "waiting"
  /\ pending = FALSE
  /\ busy = FALSE
  /\ polls = [p \in Pollers |-> At("idle", NoVersion)]
  /\ installer = Polling
  /\ last = NoVersion
  /\ spoiled = FALSE
  /\ moved = FALSE

UpdatesNext ==
  \/ InitFeed
  \/ \E m \in Signed : Publish(m)
  \/ \E v \in Tags \cup {NoVersion} : MovePage(v)
  \/ BootAnswered
  \/ BootUnknown
  \/ \E p \in Pollers : \/ PollFinds(p) \/ PollFails(p) \/ PollReads(p)
                        \/ PollAdopts(p) \/ PollNotes(p)
  \/ DictationStarts
  \/ DictationEnds
  \/ UpdateDue
  \/ InstallerFinds
  \/ Installs
  \/ InstallFails
  \/ MarkWritten
  \/ MarkNotWritten
  \/ Restart
  \/ ProcessEnds
  \/ FetchUpdate
  \/ Start

\* The threads of the pollers and of the installer run.  A poll that a page
\* could answer is answered once in a while: each gives up after 15 s and
\* the next one comes after half an hour.  Nothing is assumed of the request
\* and the download of the thread that installs, which wait without limit,
\* of what a write leaves on the disk, or of the one who dictates.
UpdatesFairness ==
  /\ \A p \in Pollers \ {"boot"} : /\ WF_updateVars(PollFinds(p))
                                   /\ WF_updateVars(PollReads(p))
                                   /\ WF_updateVars(PollAdopts(p))
                                   /\ WF_updateVars(PollNotes(p))
  /\ WF_updateVars(UpdateDue)

UpdatesSpec == UpdatesInit /\ [][UpdatesNext]_updateVars /\ UpdatesFairness

-----------------------------------------------------------------------------
(* Properties.                                                             *)

\* The variables have their types.
TypeOK ==
  /\ feed \in [on : BOOLEAN, releases : SUBSET Versions, floor : Version]
  /\ endpoint \in Endpoints
  /\ {page, mark, last} \subseteq Version
  /\ boot \in {"waiting", "allow", "blocked", "pending", "unknown"}
  /\ {up, pending, busy, spoiled, moved} \subseteq BOOLEAN
  /\ polls \in [Pollers -> [step : {"idle", "found", "adopting", "noting", "done"},
                            ver : Version]]
  /\ installer \in [step : {"polling", "asking", "installing", "installed", "marked"},
                    ver : Version]

\* The gate of the shell and the panel's version check agree: a start is
\* blocked only if /v1/version-check would block it too, and with floors of
\* at most three parts only if it would not is it let through
\* (check_at_startup against FeedState::check_client, which asks for a
\* release before it looks at the floor).
GateFollowsPanel ==
  [][boot = "waiting" /\ boot' \in {"allow", "blocked", "pending"} =>
       /\ boot' = "blocked" => CheckClient(Binary) = "blocked"
       /\ CheckClient(Binary) = "blocked" /\ Len(feed.floor) <= 3 =>
            boot' = "blocked"]_updateVars

\* What was installed last is not installed again while it is still what the
\* page offers and the mark says so: no start of the shell, and no poller
\* that found something before, makes the member download and restart again
\* (update.rs, the reason for update-applied.json).  A page that moved on
\* or back in between is another matter.
AppliedOnce ==
  [][installer.step = "installing" /\ installer'.step = "installed"
     /\ ~spoiled /\ last # NoVersion => moved]_updateVars

\* A shell that keeps running beside a page that keeps offering something
\* newer than the mark, with nobody dictating, tries to install it again and
\* again, unless one try never returns: no poll that failed or found
\* nothing, no gate at the start and no failed download ends that
\* (spawn_auto_updater, spawn_idle_updater).
UpdateIsTried ==
  <>[](/\ up /\ ~busy /\ endpoint = "page"
       /\ mark # NoVersion /\ CmpLess(mark, page) /\ CmpLess(Binary, page))
    => []<>(installer.step # "polling")
=============================================================================
