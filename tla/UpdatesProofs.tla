--------------------------- MODULE UpdatesProofs ---------------------------
(***************************************************************************)
(* What holds of the updater for every set of versions, manifests, forms,  *)
(* pollers and endpoints: the types, the agreement of the two gates, and   *)
(* that a version whose mark was written is not installed again while the  *)
(* page offers nothing else.                                               *)
(***************************************************************************)
EXTENDS Updates, TLAPS

-----------------------------------------------------------------------------
(* Versions.                                                               *)

\* The parts of a version are numbers (the parsers of cmp_version and
\* cmp_simple take anything else for 0).
LEMMA PartNat ==
  ASSUME NEW v \in Seq(Nat), NEW i \in Nat
  PROVE  Part(v, i) \in Nat
<1>1. CASE i \in DOMAIN v
  <2>1. v[i] \in Nat
    BY <1>1
  <2> QED
    BY <1>1, <2>1 DEF Part
<1>2. CASE i \notin DOMAIN v
  BY <1>2 DEF Part
<1> QED
  BY <1>1, <1>2

\* Below in three parts is below, and the converse when the larger version
\* has no more than three (cmp_simple of version.rs, cmp_version of feed.rs).
LEMMA ShellLessIsCmpLess ==
  ASSUME NEW v \in Seq(Nat), NEW w \in Seq(Nat)
  PROVE  /\ ShellLess(v, w) => CmpLess(v, w)
         /\ CmpLess(v, w) /\ Len(w) <= 3 => ShellLess(v, w)
<1>1. ShellLess(v, w) => CmpLess(v, w)
  BY DEF ShellLess, CmpLess
<1>2. ASSUME Len(w) <= 3
      PROVE  DOMAIN w \cap 1..3 = DOMAIN w
  <2>1. DOMAIN w = 1..Len(w) /\ Len(w) \in Nat
    OBVIOUS
  <2> QED
    BY <1>2, <2>1
<1>3. CmpLess(v, w) /\ Len(w) <= 3 => ShellLess(v, w)
  BY <1>2 DEF ShellLess, CmpLess
<1> QED
  BY <1>1, <1>3

\* Every version of the model is a sequence of numbers.
LEMMA VersionIsSeq == Version \subseteq Seq(Nat)
<1>1. NoVersion \in Seq(Nat)
  BY DEF NoVersion
<1> QED
  BY <1>1, UpdatesAssumption DEF Version

-----------------------------------------------------------------------------
(* Types.                                                                  *)

\* The actions by which a step can change what is due.
LEMMA NextCases ==
  ASSUME UpdatesNext
  PROVE  \/ InitFeed
         \/ \E m \in Signed : Publish(m)
         \/ \E v \in Tags \cup {NoVersion} : MovePage(v)
         \/ BootAnswered \/ BootUnknown
         \/ \E p \in Pollers : \/ PollFinds(p) \/ PollFails(p) \/ PollReads(p)
                               \/ PollAdopts(p) \/ PollNotes(p)
         \/ DictationStarts \/ DictationEnds
         \/ UpdateDue \/ InstallerFinds \/ Installs \/ InstallFails
         \/ MarkWritten \/ MarkNotWritten \/ Restart \/ ProcessEnds \/ Start
BY DEF UpdatesNext, FetchUpdate

\* The shell starts with its variables in their types.
LEMMA InitTypeOK == UpdatesInit => TypeOK
<1> SUFFICES ASSUME UpdatesInit PROVE TypeOK
  OBVIOUS
<1>1. NoVersion \in Version
  BY DEF Version
<1>2. feed \in [on : BOOLEAN, releases : SUBSET Versions, floor : Version]
  BY <1>1 DEF UpdatesInit, NoFeed
<1>3. {page, mark, last} \subseteq Version /\ endpoint \in Endpoints
  BY <1>1 DEF UpdatesInit
<1>4. polls \in [Pollers -> [step : {"idle", "found", "adopting", "noting", "done"},
                            ver : Version]]
  BY <1>1 DEF UpdatesInit, At
<1>5. installer \in [step : {"polling", "asking", "installing", "installed", "marked"},
                    ver : Version]
  BY <1>1 DEF UpdatesInit, At, Polling
<1>6. /\ boot \in {"waiting", "allow", "blocked", "pending", "unknown"}
      /\ {up, pending, busy, spoiled, moved} \subseteq BOOLEAN
  BY DEF UpdatesInit
<1> QED
  BY <1>2, <1>3, <1>4, <1>5, <1>6 DEF TypeOK

\* A new process starts with well typed threads.
LEMMA NewProcessTypes ==
  ASSUME NewProcess
  PROVE  /\ boot' = "waiting" /\ pending' = FALSE /\ busy' = FALSE
         /\ polls' \in [Pollers -> [step : {"idle", "found", "adopting", "noting", "done"},
                                    ver : Version]]
         /\ installer' \in [step : {"polling", "asking", "installing", "installed", "marked"},
                            ver : Version]
         /\ \A p \in Pollers : polls'[p] = At("idle", NoVersion)
         /\ installer' = Polling
BY DEF NewProcess, At, Polling, Version

\* Every step keeps the types.
LEMMA NextTypeOK == TypeOK /\ [UpdatesNext]_updateVars => TypeOK'
<1> SUFFICES ASSUME TypeOK, [UpdatesNext]_updateVars
             PROVE  TypeOK'
  OBVIOUS
<1> USE DEF TypeOK, shellVars, outside, history
<1>1. ASSUME InitFeed PROVE TypeOK'
  BY <1>1 DEF InitFeed, Version
<1>2. ASSUME NEW m \in Signed, Publish(m) PROVE TypeOK'
  <2>1. m.version \in Versions /\ m.floor \in Version
    BY UpdatesAssumption DEF Version
  <2>2. feed' \in [on : BOOLEAN, releases : SUBSET Versions, floor : Version]
    BY <1>2, <2>1 DEF Publish
  <2> QED
    BY <1>2, <2>2 DEF Publish
<1>3. ASSUME NEW v \in Tags \cup {NoVersion}, MovePage(v) PROVE TypeOK'
  BY <1>3, UpdatesAssumption DEF MovePage, Version
<1>4. ASSUME BootAnswered PROVE TypeOK'
  <2>1. /\ boot' \in {"waiting", "allow", "blocked", "pending", "unknown"}
        /\ {pending', spoiled'} \subseteq BOOLEAN
    BY <1>4 DEF BootAnswered, BootPanelForm, BootStrictForm
  <2> QED
    BY <1>4, <2>1 DEF BootAnswered
<1>5. ASSUME BootUnknown PROVE TypeOK'
  BY <1>5 DEF BootUnknown
<1>6. ASSUME NEW p \in Pollers, PollFinds(p) PROVE TypeOK'
  BY <1>6 DEF PollFinds, At, Version
<1>7. ASSUME NEW p \in Pollers, PollFails(p) PROVE TypeOK'
  BY <1>7 DEF PollFails, Rested, At, Version
<1>8. ASSUME NEW p \in Pollers, PollReads(p) PROVE TypeOK'
  BY <1>8 DEF PollReads, Rested, At, Version
<1>9. ASSUME NEW p \in Pollers, PollAdopts(p) PROVE TypeOK'
  <2>1. mark' \in Version
    BY <1>9 DEF PollAdopts, Version
  <2>2. spoiled' \in BOOLEAN
    BY <1>9 DEF PollAdopts
  <2> QED
    BY <1>9, <2>1, <2>2 DEF PollAdopts, Rested, At, Version
<1>10. ASSUME NEW p \in Pollers, PollNotes(p) PROVE TypeOK'
  BY <1>10 DEF PollNotes, Rested, At, Version
<1>11. ASSUME DictationStarts \/ DictationEnds PROVE TypeOK'
  BY <1>11 DEF DictationStarts, DictationEnds
<1>12. ASSUME UpdateDue PROVE TypeOK'
  BY <1>12 DEF UpdateDue, At, Version
<1>13. ASSUME InstallerFinds PROVE TypeOK'
  BY <1>13 DEF InstallerFinds, At, Version
<1>14. ASSUME Installs PROVE TypeOK'
  BY <1>14 DEF Installs, At
<1>15. ASSUME InstallFails PROVE TypeOK'
  BY <1>15 DEF InstallFails, Polling, At, Version
<1>16. ASSUME MarkWritten \/ MarkNotWritten PROVE TypeOK'
  <2>1. mark' \in Version /\ spoiled' \in BOOLEAN
    BY <1>16 DEF MarkWritten, MarkNotWritten, Version
  <2>2. installer' = At("marked", installer.ver)
    BY <1>16 DEF MarkWritten, MarkNotWritten
  <2>3. UNCHANGED <<feed, outside, shellVars, polls, last, moved>>
    BY <1>16 DEF MarkWritten, MarkNotWritten
  <2> QED
    BY <2>1, <2>2, <2>3 DEF shellVars, At
<1>17. ASSUME Restart PROVE TypeOK'
  BY <1>17, NewProcessTypes DEF Restart
<1>18. ASSUME ProcessEnds PROVE TypeOK'
  <2>1. mark' \in Version /\ spoiled' \in BOOLEAN
    BY <1>18 DEF ProcessEnds, Version, WritingMark
  <2> QED
    BY <1>18, <2>1, NewProcessTypes DEF ProcessEnds
<1>19. ASSUME Start PROVE TypeOK'
  BY <1>19 DEF Start
<1>20. CASE UNCHANGED updateVars
  BY <1>20 DEF updateVars
<1> QED
  BY <1>1, <1>2, <1>3, <1>4, <1>5, <1>6, <1>7, <1>8, <1>9, <1>10, <1>11, <1>12,
     <1>13, <1>14, <1>15, <1>16, <1>17, <1>18, <1>19, <1>20, NextCases

\* The variables have their types in every reachable state.
THEOREM TypeCorrectness == UpdatesSpec => []TypeOK
BY InitTypeOK, NextTypeOK, PTL DEF UpdatesSpec

-----------------------------------------------------------------------------
(* The two gates.                                                          *)

\* A floor comes with the release that set it (FeedState::publish,
\* PanelState::init_feed), so check_client, which asks for a release first,
\* does not overlook it.
FloorHasRelease == feed.floor # NoVersion => feed.releases # {}

\* Every step keeps that.
LEMMA NextFloorHasRelease ==
  ASSUME TypeOK, FloorHasRelease, [UpdatesNext]_updateVars
  PROVE  FloorHasRelease'
<1>1. ASSUME InitFeed PROVE FloorHasRelease'
  BY <1>1 DEF InitFeed, FloorHasRelease
<1>2. ASSUME NEW m \in Signed, Publish(m) PROVE FloorHasRelease'
  <2>1. feed \in [on : BOOLEAN, releases : SUBSET Versions, floor : Version]
    BY DEF TypeOK
  <2>2. feed'.releases = feed.releases \cup {m.version}
    BY <1>2, <2>1 DEF Publish
  <2> QED
    BY <2>2 DEF FloorHasRelease
<1>3. CASE feed' = feed
  BY <1>3 DEF FloorHasRelease
<1>4. feed' = feed \/ InitFeed \/ \E m \in Signed : Publish(m)
  BY NextCases DEF updateVars, shellVars, MovePage, BootAnswered, BootUnknown,
     PollFinds, PollFails, PollReads, PollAdopts, PollNotes, DictationStarts,
     DictationEnds, UpdateDue, InstallerFinds, Installs, InstallFails,
     MarkWritten, MarkNotWritten, Restart, ProcessEnds, Start
<1> QED
  BY <1>1, <1>2, <1>3, <1>4

\* The shell's comparison against check_client's, in a state as above.
LEMMA GatesAgree ==
  ASSUME TypeOK, FloorHasRelease
  PROVE  /\ BelowFloor => CheckClient(Binary) = "blocked"
         /\ CheckClient(Binary) = "blocked" /\ Len(feed.floor) <= 3 => BelowFloor
<1>1. Binary \in Seq(Nat) /\ feed.floor \in Seq(Nat)
  BY VersionIsSeq, UpdatesAssumption DEF TypeOK, Version
<1>2. /\ ShellLess(Binary, feed.floor) => CmpLess(Binary, feed.floor)
      /\ CmpLess(Binary, feed.floor) /\ Len(feed.floor) <= 3 =>
           ShellLess(Binary, feed.floor)
  BY <1>1, ShellLessIsCmpLess
<1>3. CheckClient(Binary) = "blocked" <=>
        /\ feed.releases # {}
        /\ feed.floor # NoVersion
        /\ CmpLess(Binary, feed.floor)
  BY DEF CheckClient
<1> QED
  BY <1>2, <1>3 DEF BelowFloor, FloorHasRelease

\* The answer to the question at the start is the only step of the gate that
\* lets in or blocks.
LEMMA GateDecides ==
  ASSUME TypeOK, [UpdatesNext]_updateVars,
         boot = "waiting", boot' \in {"allow", "blocked", "pending"}
  PROVE  boot' = "blocked" <=> BelowFloor
<1>1. BootAnswered
  BY NextCases DEF updateVars, shellVars, InitFeed, Publish, MovePage, BootUnknown,
     PollFinds, PollFails, PollReads, PollAdopts, PollNotes, DictationStarts,
     DictationEnds, UpdateDue, InstallerFinds, Installs, InstallFails,
     MarkWritten, MarkNotWritten, Restart, ProcessEnds, Start, NewProcess
<1> QED
  BY <1>1 DEF BootAnswered, BootPanelForm, BootStrictForm

\* The gate of the shell blocks only what check_client blocks, and with
\* floors of three parts all of it: for every set of versions and manifests.
THEOREM GateAgreement == UpdatesSpec => GateFollowsPanel
<1>1. UpdatesInit => TypeOK /\ FloorHasRelease
  BY InitTypeOK DEF UpdatesInit, FloorHasRelease, NoFeed
<1>2. TypeOK /\ FloorHasRelease /\ [UpdatesNext]_updateVars =>
        (TypeOK /\ FloorHasRelease)'
  BY NextTypeOK, NextFloorHasRelease
<1>3. TypeOK /\ FloorHasRelease /\ [UpdatesNext]_updateVars =>
        [boot = "waiting" /\ boot' \in {"allow", "blocked", "pending"} =>
           /\ boot' = "blocked" => CheckClient(Binary) = "blocked"
           /\ CheckClient(Binary) = "blocked" /\ Len(feed.floor) <= 3 =>
                boot' = "blocked"]_updateVars
  BY GatesAgree, GateDecides
<1> QED
  BY <1>1, <1>2, <1>3, PTL DEF UpdatesSpec, GateFollowsPanel

-----------------------------------------------------------------------------
(* What is installed once.                                                 *)

\* The thread that installed still knows what.
InstalledIsLast ==
  installer.step \in {"installed", "marked"} => last = installer.ver

\* While the mark can be trusted it says what was installed last, except
\* between the installation and the writing of the mark.
MarkSaysLast ==
  ~spoiled /\ last # NoVersion /\ installer.step # "installed" => mark = last

\* Steps of the installer before and after it has installed.
Waits == {"polling", "asking", "installing"}

\* A page that has not moved since offers what was installed last.
PageStands == ~moved /\ last # NoVersion => page = last

\* Then that is all the pollers have found since, and nothing is due.
NothingNew ==
  ~spoiled /\ ~moved /\ last # NoVersion /\ installer.step \in Waits =>
    /\ ~pending
    /\ installer.step = "polling"
    /\ \A p \in Pollers : /\ polls[p].step = "found" => polls[p].ver = last
                          /\ polls[p].step # "noting"

\* The inductive invariant behind AppliedOnce.
IInv == /\ TypeOK
        /\ InstalledIsLast
        /\ MarkSaysLast
        /\ PageStands
        /\ NothingNew

\* No version is below itself.
LEMMA CmpLessIrreflexive ==
  ASSUME NEW v \in Seq(Nat)
  PROVE  ~CmpLess(v, v)
<1> SUFFICES ASSUME NEW i \in DOMAIN v, Part(v, i) < Part(v, i)
             PROVE  FALSE
  BY DEF CmpLess
<1>1. Part(v, i) \in Nat
  BY PartNat
<1> QED
  BY <1>1

\* The invariant holds at the start.
LEMMA InitIInv == UpdatesInit => IInv
BY InitTypeOK DEF UpdatesInit, IInv, InstalledIsLast, MarkSaysLast, PageStands, NothingNew,
   At, Polling

\* The updater that finds something at the page finds what the page offers;
\* at the broker it finds nothing, since the manifest is nested.
LEMMA FoundIsOffered ==
  ASSUME TypeOK, NEW v \in Versions, Found(v)
  PROVE  endpoint = "page" /\ v = page
<1>1. v # NoVersion
  BY UpdatesAssumption
<1>2. endpoint \in {"broker", "page"}
  BY UpdatesAssumption DEF TypeOK
<1> QED
  BY <1>1, <1>2 DEF Found, FeedReplies, PageReply

\* Steps of a new process: nothing is due and nothing was found.
LEMMA NewProcessIInv ==
  ASSUME IInv, NewProcess, TypeOK', UNCHANGED <<page, last, moved>>,
         ~spoiled' => ~spoiled,
         ~spoiled' /\ last # NoVersion => mark' = last
  PROVE  IInv'
<1>1. /\ \A p \in Pollers : polls'[p].step = "idle"
      /\ installer'.step = "polling" /\ pending' = FALSE
  BY NewProcessTypes DEF At, Polling
<1> QED
  BY <1>1 DEF IInv, InstalledIsLast, MarkSaysLast, PageStands, NothingNew

\* Steps of one poller that leave the rest alone.
LEMMA PollerIInv ==
  ASSUME IInv, TypeOK', NEW p \in Pollers,
         NEW s, NEW v, polls' = [polls EXCEPT ![p] = At(s, v)],
         ~spoiled /\ ~moved /\ last # NoVersion /\ installer.step \in Waits =>
           /\ s = "found" => v = last
           /\ s # "noting",
         UNCHANGED <<page, mark, pending, installer, history>>
  PROVE  IInv'
<1>1. \A q \in Pollers : polls'[q] = IF q = p THEN At(s, v) ELSE polls[q]
  BY DEF IInv, TypeOK
<1>2. At(s, v).step = s /\ At(s, v).ver = v
  BY DEF At
<1> QED
  BY <1>1, <1>2 DEF IInv, InstalledIsLast, MarkSaysLast, PageStands, NothingNew, history

\* Every step of a poller keeps the invariant.
LEMMA PollsIInv ==
  ASSUME IInv, TypeOK', NEW p \in Pollers,
         \/ PollFinds(p) \/ PollFails(p) \/ PollReads(p)
         \/ PollAdopts(p) \/ PollNotes(p)
  PROVE  IInv'
<1> DEFINE rest == IF p = "boot" THEN "done" ELSE "idle"
<1>1. Rested(p) = At(rest, NoVersion) /\ rest \notin {"found", "noting"}
  BY DEF Rested
<1>2. CASE PollFinds(p)
  <2>1. PICK v \in Versions : /\ Found(v)
                              /\ polls' = [polls EXCEPT ![p] = At("found", v)]
    BY <1>2 DEF PollFinds
  <2>2. v = page
    BY <2>1, FoundIsOffered DEF IInv
  <2>3. UNCHANGED <<page, mark, pending, installer, history>>
    BY <1>2 DEF PollFinds, shellVars, outside
  <2> QED
    BY <2>1, <2>2, <2>3, PollerIInv DEF IInv, PageStands, NothingNew
<1>3. CASE PollFails(p)
  <2>1. UNCHANGED <<page, mark, pending, installer, history>>
    BY <1>3 DEF PollFails, shellVars, outside
  <2> QED
    BY <1>1, <1>3, <2>1, PollerIInv DEF PollFails
<1>4. CASE PollReads(p)
  <2>1. UNCHANGED <<page, mark, pending, installer, history>>
    BY <1>4 DEF PollReads, shellVars, outside
  <2>2. CASE mark = NoVersion
    <3>1. polls' = [polls EXCEPT ![p] = At("adopting", polls[p].ver)]
      BY <1>4, <2>2 DEF PollReads
    <3> QED
      BY <2>1, <3>1, PollerIInv
  <2>3. CASE mark # NoVersion /\ CmpLess(mark, polls[p].ver)
    <3>1. /\ polls' = [polls EXCEPT ![p] = At("noting", polls[p].ver)]
          /\ polls[p].step = "found"
      BY <1>4, <2>3 DEF PollReads
    <3>2. ASSUME ~spoiled, ~moved, last # NoVersion, installer.step \in Waits
          PROVE  FALSE
      <4>1. mark = last /\ polls[p].ver = last
        BY <3>1, <3>2 DEF IInv, MarkSaysLast, PageStands, NothingNew, Waits
      <4>2. last \in Seq(Nat)
        BY VersionIsSeq DEF IInv, TypeOK
      <4> QED
        BY <2>3, <4>1, <4>2, CmpLessIrreflexive
    <3> QED
      BY <2>1, <3>1, <3>2, PollerIInv
  <2>4. CASE mark # NoVersion /\ ~CmpLess(mark, polls[p].ver)
    <3>1. polls' = [polls EXCEPT ![p] = At(rest, NoVersion)]
      BY <1>1, <1>4, <2>4 DEF PollReads
    <3> QED
      BY <1>1, <2>1, <3>1, PollerIInv
  <2> QED
    BY <2>2, <2>3, <2>4
<1>5. CASE PollAdopts(p)
  <2>1. spoiled' \/ last' = NoVersion
    BY <1>5 DEF PollAdopts, IInv, TypeOK
  <2>2. UNCHANGED <<page, installer, last, moved>>
    BY <1>5 DEF PollAdopts, outside
  <2> QED
    BY <2>1, <2>2 DEF IInv, InstalledIsLast, MarkSaysLast, PageStands, NothingNew
<1>6. CASE PollNotes(p)
  <2>1. /\ polls[p].step = "noting"
        /\ UNCHANGED <<page, mark, installer, history>>
    BY <1>6 DEF PollNotes, outside
  <2>2. ~(~spoiled /\ ~moved /\ last # NoVersion /\ installer.step \in Waits)
    BY <2>1 DEF IInv, NothingNew
  <2> QED
    BY <2>1, <2>2 DEF IInv, InstalledIsLast, MarkSaysLast, PageStands, NothingNew, history
<1> QED
  BY <1>2, <1>3, <1>4, <1>5, <1>6

\* Every step of the thread that installs keeps the invariant.
LEMMA InstallerIInv ==
  ASSUME IInv, TypeOK',
         \/ UpdateDue \/ InstallerFinds \/ Installs \/ InstallFails
         \/ MarkWritten \/ MarkNotWritten
  PROVE  IInv'
<1> USE DEF IInv, InstalledIsLast, MarkSaysLast, PageStands, NothingNew, Waits, outside,
            shellVars, history, At
<1>1. CASE UpdateDue
  BY <1>1 DEF UpdateDue, Polling
<1>2. CASE InstallerFinds
  <2>1. installer.step = "asking" /\ installer'.step = "installing"
    BY <1>2 DEF InstallerFinds
  <2>2. UNCHANGED <<page, mark, pending, polls, history>>
    BY <1>2 DEF InstallerFinds
  <2> QED
    BY <2>1, <2>2
<1>3. CASE Installs
  BY <1>3 DEF Installs
<1>4. CASE InstallFails
  BY <1>4 DEF InstallFails, Polling
<1>5. CASE MarkWritten
  <2>1. /\ installer.step = "installed" /\ installer'.step = "marked"
        /\ installer'.ver = installer.ver /\ mark' = installer.ver
        /\ UNCHANGED <<page, last, moved>>
    BY <1>5 DEF MarkWritten
  <2> QED
    BY <2>1
<1>6. CASE MarkNotWritten
  <2>1. /\ installer.step = "installed" /\ installer'.step = "marked"
        /\ installer'.ver = installer.ver /\ spoiled' = TRUE
        /\ UNCHANGED <<page, last, moved>>
    BY <1>6 DEF MarkNotWritten
  <2> QED
    BY <2>1
<1> QED
  BY <1>1, <1>2, <1>3, <1>4, <1>5, <1>6

\* Every step keeps the invariant.
LEMMA NextIInv == IInv /\ [UpdatesNext]_updateVars => IInv'
<1> SUFFICES ASSUME IInv, [UpdatesNext]_updateVars
             PROVE  IInv'
  OBVIOUS
<1>1. TypeOK'
  BY NextTypeOK DEF IInv
<1>2. ASSUME UNCHANGED <<page, mark, pending, polls, installer, history>>
      PROVE  IInv'
  BY <1>1, <1>2 DEF IInv, InstalledIsLast, MarkSaysLast, PageStands, NothingNew, history
<1>3. CASE \/ InitFeed \/ BootUnknown \/ DictationStarts \/ DictationEnds \/ Start
           \/ UNCHANGED updateVars
  BY <1>2, <1>3 DEF InitFeed, BootUnknown, DictationStarts, DictationEnds, Start,
     updateVars, shellVars, outside
<1>4. CASE \E m \in Signed : Publish(m)
  BY <1>2, <1>4 DEF Publish, shellVars, outside
<1>5. CASE \E v \in Tags \cup {NoVersion} : MovePage(v)
  BY <1>1, <1>5 DEF MovePage, IInv, InstalledIsLast, MarkSaysLast, PageStands, NothingNew
<1>6. CASE BootAnswered
  <2>1. UNCHANGED <<page, mark, polls, installer, last, moved>>
    BY <1>6 DEF BootAnswered, outside
  <2>2. spoiled' \/ (pending' = pending /\ spoiled' = spoiled)
    BY <1>6 DEF BootAnswered, BootPanelForm, BootStrictForm, IInv, TypeOK
  <2>3. CASE pending' = pending /\ spoiled' = spoiled
    BY <1>2, <2>1, <2>3 DEF history
  <2>4. CASE spoiled'
    BY <1>1, <2>1, <2>4 DEF IInv, InstalledIsLast, MarkSaysLast, PageStands, NothingNew
  <2> QED
    BY <2>2, <2>3, <2>4
<1>7. CASE \E p \in Pollers : \/ PollFinds(p) \/ PollFails(p) \/ PollReads(p)
                              \/ PollAdopts(p) \/ PollNotes(p)
  BY <1>1, <1>7, PollsIInv
<1>8. CASE \/ UpdateDue \/ InstallerFinds \/ Installs \/ InstallFails
           \/ MarkWritten \/ MarkNotWritten
  BY <1>1, <1>8, InstallerIInv
<1>9. CASE Restart
  <2>1. ~spoiled /\ last # NoVersion => mark = last
    BY <1>9 DEF Restart, IInv, MarkSaysLast
  <2> QED
    BY <1>1, <1>9, <2>1, NewProcessIInv DEF Restart, outside, history
<1>10. CASE ProcessEnds
  <2>1. ~spoiled' /\ last # NoVersion => mark' = last
    BY <1>10 DEF ProcessEnds, WritingMark, IInv, TypeOK, MarkSaysLast
  <2>2. ~spoiled' => ~spoiled
    BY <1>10 DEF ProcessEnds, IInv, TypeOK
  <2> QED
    BY <1>1, <1>10, <2>1, <2>2, NewProcessIInv DEF ProcessEnds, outside
<1> QED
  BY <1>3, <1>4, <1>5, <1>6, <1>7, <1>8, <1>9, <1>10, NextCases

\* In every reachable state a mark that can be trusted says what was
\* installed last, and nothing is due while that is all the page offers: for
\* every set of versions and any number of pollers.
THEOREM Invariance == UpdatesSpec => []IInv
BY InitIInv, NextIInv, PTL DEF UpdatesSpec

\* No start of the shell installs the same version again while the page goes
\* on offering it and the mark file keeps what was written to it, whatever
\* the pollers found before (read_applied_version, write_applied_version,
\* spawn_idle_updater).
THEOREM AppliedOnceHolds == UpdatesSpec => AppliedOnce
<1>1. IInv /\ [UpdatesNext]_updateVars =>
        [installer.step = "installing" /\ installer'.step = "installed"
         /\ ~spoiled /\ last # NoVersion => moved]_updateVars
  <2> SUFFICES ASSUME IInv, [UpdatesNext]_updateVars,
                      installer.step = "installing", installer'.step = "installed",
                      ~spoiled, last # NoVersion
               PROVE  moved
    OBVIOUS
  <2>1. Installs
    <3>1. installer' # installer
      OBVIOUS
    <3>2. \/ UpdateDue \/ InstallerFinds \/ Installs \/ InstallFails
          \/ MarkWritten \/ MarkNotWritten \/ Restart \/ ProcessEnds
      BY <3>1, NextCases DEF updateVars, InitFeed, Publish, MovePage, BootAnswered,
         BootUnknown, PollFinds, PollFails, PollReads, PollAdopts, PollNotes,
         DictationStarts, DictationEnds, Start
    <3>3. ~UpdateDue /\ ~InstallerFinds /\ ~InstallFails
      BY DEF UpdateDue, InstallerFinds, InstallFails, Polling, At
    <3>4. ~MarkWritten /\ ~MarkNotWritten
      BY DEF MarkWritten, MarkNotWritten
    <3>5. ~Restart /\ ~ProcessEnds
      BY DEF Restart, ProcessEnds, NewProcess, Polling, At
    <3> QED
      BY <3>2, <3>3, <3>4, <3>5
  <2> QED
    BY <2>1 DEF Installs, IInv, NothingNew, Waits
<1> QED
  BY <1>1, Invariance, PTL DEF UpdatesSpec, AppliedOnce
=============================================================================
