-------------------------------- MODULE Flow --------------------------------
(***************************************************************************)
(* The dictation flow of the desktop shell (crates/tauri-shell): the       *)
(* Shell and the overlay it carries (flow.rs, client-ui), and the threads  *)
(* of tauri_app.rs that meet on its mutex: the key handler, the live       *)
(* feeders, the senders and their watchdogs, the overlay timers, the boot  *)
(* question and the idle updater.  Each action is one critical section of  *)
(* AppState::shell; what a thread read in an earlier one it carries along. *)
(*                                                                         *)
(* Time is kept as an order only.  A sender gives up within 4 + 120 + 15   *)
(* seconds, its watchdog looks after 150, and the MaxSecs-th second of a   *)
(* recording is heard 180 seconds after the press (EarlierWorkOver).       *)
(***************************************************************************)
EXTENDS Naturals, Sequences, FiniteSets

CONSTANTS
  MaxSecs,      \* audio_enc::MAX_SECS, the cap of one recording (180)
  Sounds,       \* mic::gate of a second of audio: "silent", "low", "loud"
  MaxPresses,   \* bound: key presses in a behaviour
  MaxRestarts,  \* bound: restarts by the updater
  MaxLogins,    \* bound: logins and logouts
  MaxHolding,   \* bound: feeders that hold a snapshot at a time
  Answers       \* what the boot question may find: "allow", "pending",
                \* "blocked", "unknown"

ASSUME FlowAssumption ==
  /\ MaxSecs \in Nat \ {0}
  /\ Sounds \subseteq {"silent", "low", "loud"}
  /\ MaxPresses \in Nat /\ MaxRestarts \in Nat /\ MaxLogins \in Nat
  /\ MaxHolding \in Nat
  /\ Answers \subseteq {"allow", "pending", "blocked", "unknown"}

VARIABLES
  shell,    \* Shell and its UiState
  key,      \* is the push-to-talk key held
  mic,      \* the capture worker: its stream and the buffer it fills
  recFed,   \* AppState::rec_fed, the seconds of the buffer pushed so far
  lastPcm,  \* is there audio in AppState::last_pcm
  feeder,   \* per press: the live feeder thread and its snapshot
  job,      \* per press: the sender thread its release spawned
  dog,      \* per press: the watchdog thread of that sender
  timers,   \* overlay timers: a pending fade, a thread about to dismiss
  updater,  \* the idle updater: "polling" or "installing"
  boot,     \* is the boot version question unanswered
  count     \* the bounded counters

env == <<key, mic, recFed, lastPcm, feeder>>
vars == <<shell, env, job, dog, timers, updater, boot, count>>

Presses == 1..MaxPresses
Overlays == {"Hidden", "Recording", "Sending", "Done",
             "UpdatePending", "UpdateBlocked"}
Toasts == {"none", "silent", "capped", "login", "blocked", "unknown",
           "pending", "error", "text"}
NoSession == [on |-> FALSE, secs |-> 0, heard |-> FALSE]
NewSession == [NoSession EXCEPT !.on = TRUE]

Shells == [session : [on : BOOLEAN, secs : Nat, heard : BOOLEAN],
           inFlight : BOOLEAN, pendingUpdate : BOOLEAN,
           blockedUpdate : BOOLEAN, loggedIn : BOOLEAN,
           overlay : Overlays, toast : Toasts,
           lastStop : {"none", "silent", "capped", "released"}]

-----------------------------------------------------------------------------
(* UiState::on, one operator per event.  lastStop remembers the reason of   *)
(* the last RecordStopped event.                                            *)

Toast(s, t) == [s EXCEPT !.toast = t]

RecordStopped(s, reason) ==
  [s EXCEPT !.lastStop = reason,
            !.overlay = IF reason = "silent" THEN "Hidden" ELSE "Sending",
            !.toast = IF reason = "released" THEN @ ELSE reason]

UpdateNotice(s, what) ==
  IF s.overlay = "Recording"
  THEN [s EXCEPT !.toast = IF what = "UpdatePending" THEN "pending" ELSE "blocked"]
  ELSE [s EXCEPT !.overlay = what]

\* Mutant: only the toast is dismissed.
DismissToast(s) == Toast(s, "none")

Dismiss(s) ==
  [s EXCEPT !.overlay = IF @ = "Done" THEN "Hidden" ELSE @, !.toast = "none"]

-----------------------------------------------------------------------------
(* The methods of Shell.                                                    *)

Recording(s) == s.session.on

HotkeyDown(s) ==
  IF s.blockedUpdate THEN Toast(s, "blocked")
  ELSE IF Recording(s) THEN s
  ELSE [s EXCEPT !.session = NewSession, !.lastStop = "none",
                 !.overlay = "Recording", !.toast = "none"]

\* Mutant: the line is left as it was.
SilentStopOnly(s) == RecordStopped([s EXCEPT !.session = NoSession], "silent")

\* Nothing was said: the session is dropped and the line is set free.
SilentStop(s) ==
  RecordStopped([s EXCEPT !.session = NoSession, !.inFlight = FALSE], "silent")

\* The session is closed and its recording is to be sent.
SendStop(s, reason) ==
  RecordStopped([s EXCEPT !.session = NoSession, !.inFlight = TRUE], reason)

\* A silent second before any loud one ends the session; so does the cap.
SilentAt(s, pcm, i) ==
  /\ pcm[i] = "silent"
  /\ ~s.session.heard
  /\ \A j \in 1..(i - 1) : pcm[j] # "loud"

CapAt(s, i) == s.session.secs + i >= MaxSecs

Closing(s, pcm) == {i \in 1..Len(pcm) : SilentAt(s, pcm, i) \/ CapAt(s, i)}

FirstOf(S) == CHOOSE i \in S : \A j \in S : i <= j

\* push_second for each second of pcm for as long as the session lasts.
PushSeconds(s, pcm) ==
  IF ~Recording(s) THEN s
  ELSE IF Closing(s, pcm) = {}
       THEN [s EXCEPT !.session =
               [on |-> TRUE, secs |-> @.secs + Len(pcm),
                heard |-> @.heard \/ \E i \in 1..Len(pcm) : pcm[i] = "loud"]]
  ELSE IF SilentAt(s, pcm, FirstOf(Closing(s, pcm)))
       THEN SilentStop(s)
       ELSE SendStop(s, "capped")

\* The number of seconds that loop consumed.
Pushed(s, pcm) ==
  IF ~Recording(s) THEN 0
  ELSE IF Closing(s, pcm) = {} THEN Len(pcm) ELSE FirstOf(Closing(s, pcm))

\* The shell's push counter is the seconds of the session.
HotkeyUp(s) ==
  IF ~Recording(s) THEN s
  ELSE IF s.session.secs = 0 THEN SilentStop(s)
  ELSE IF ~s.loggedIn THEN Toast(SilentStop(s), "login")
  ELSE SendStop(s, "released")

TranscriptArrived(s) ==
  LET done == [s EXCEPT !.inFlight = FALSE, !.overlay = "Done", !.toast = "none"]
      told == IF s.blockedUpdate THEN UpdateNotice(done, "UpdateBlocked")
              ELSE IF s.pendingUpdate THEN UpdateNotice(done, "UpdatePending")
              ELSE done
  IN  Toast(told, "text")

\* Mutant: the error is shown, the line stays busy.
SendErrorShown(s) ==
  IF s.inFlight THEN [s EXCEPT !.overlay = "Hidden", !.toast = "error"] ELSE s

SendError(s) ==
  IF s.inFlight
  THEN [s EXCEPT !.inFlight = FALSE, !.overlay = "Hidden", !.toast = "error"]
  ELSE s

NoteUpdateAvailable(s) ==
  LET noted == [s EXCEPT !.pendingUpdate = TRUE]
  IN  IF s.blockedUpdate THEN noted ELSE UpdateNotice(noted, "UpdatePending")

-----------------------------------------------------------------------------
(* emit_overlay: the window is repainted after every change, and what       *)
(* should not stay there gets a timer.  The timer of a toast that is no     *)
(* longer shown finds nothing to do and is forgotten; one of "Done" is      *)
(* pending for as long as "Done" is shown.                                  *)

Emit(s, t) ==
  [t EXCEPT !.fade = \/ (s.overlay = "Hidden" /\ s.toast # "none")
                     \/ (@ /\ s.toast = shell.toast)]

\* The new shell, painted.
Shows(s) == shell' = s /\ timers' = Emit(s, timers)

NoTimers == [fade |-> FALSE, dismiss |-> FALSE]
IdleFeeder == [at |-> "off", snap |-> <<>>]

NewShell == [session |-> NoSession, inFlight |-> FALSE, pendingUpdate |-> FALSE,
             blockedUpdate |-> FALSE, loggedIn |-> TRUE, overlay |-> "Hidden",
             toast |-> "none", lastStop |-> "none"]

Init ==
  /\ shell = NewShell
  /\ key = FALSE
  /\ mic = [on |-> FALSE, buf |-> <<>>]
  /\ recFed = 0
  /\ lastPcm = FALSE
  /\ feeder = [n \in Presses |-> IdleFeeder]
  /\ job = [n \in Presses |-> "none"]
  /\ dog = [n \in Presses |-> "off"]
  /\ timers = NoTimers
  /\ updater = "polling"
  /\ boot = TRUE
  /\ count = [presses |-> 0, restarts |-> 0, logins |-> 0]

-----------------------------------------------------------------------------
(* The key handler.                                                         *)

\* Mutant: mic_begin keeps the count of the last recording.
KeyPressedCounting ==
  /\ ~key /\ count.presses < MaxPresses
  /\ key' = TRUE
  /\ count' = [count EXCEPT !.presses = @ + 1]
  /\ Shows(HotkeyDown(shell))
  /\ mic' = [on |-> TRUE, buf |-> <<>>]
  /\ feeder' = [feeder EXCEPT ![count'.presses].at = "asleep"]
  /\ UNCHANGED <<recFed, lastPcm, job, dog, updater, boot>>

\* hotkey_down, then mic_begin whatever it answered.  The device may fail.
KeyPressed ==
  /\ ~key /\ count.presses < MaxPresses
  /\ key' = TRUE
  /\ count' = [count EXCEPT !.presses = @ + 1]
  /\ Shows(HotkeyDown(shell))
  /\ recFed' = 0
  /\ \/ /\ mic' = [on |-> TRUE, buf |-> <<>>]
        /\ feeder' = [feeder EXCEPT ![count'.presses].at = "asleep"]
     \/ /\ mic' = [on |-> FALSE, buf |-> <<>>]
        /\ UNCHANGED feeder
  /\ UNCHANGED <<lastPcm, job, dog, updater, boot>>

\* Every sender and watchdog of an earlier release has run its time.
EarlierWorkOver ==
  \A n \in Presses : job[n] \in {"none", "ended"} /\ dog[n] = "off"

\* The worker's stream adds a second to the buffer.
MicSecond ==
  /\ mic.on /\ Len(mic.buf) < MaxSecs
  /\ Len(mic.buf) + 1 = MaxSecs => EarlierWorkOver
  /\ \E x \in Sounds : mic' = [mic EXCEPT !.buf = Append(@, x)]
  /\ UNCHANGED <<shell, key, recFed, lastPcm, feeder, job, dog, timers, updater,
                 boot, count>>

\* mic_feed: the seconds the feeders left, the last one perhaps incomplete.
MicFeed(s, pcm) ==
  IF recFed >= Len(pcm) THEN s ELSE PushSeconds(s, SubSeq(pcm, recFed + 1, Len(pcm)))

\* The capture is stopped and kept as last_pcm, its rest is fed, the session
\* closed; if the line is then busy a sender and a watchdog are spawned.
\* The worker keeps its buffer until the next start: a feeder that copies it
\* now could have copied it before the stop, so the model drops it.
KeyReleased ==
  /\ key
  /\ key' = FALSE
  /\ \E tail \in {<<>>} \cup {<<x>> : x \in Sounds} :
       LET pcm == mic.buf \o tail
           after == HotkeyUp(MicFeed(shell, pcm))
           n == count.presses
       IN  /\ tail # <<>> => mic.on
           /\ Len(mic.buf) < MaxSecs /\ Len(pcm) >= MaxSecs => EarlierWorkOver
           /\ lastPcm' = (pcm # <<>>)
           /\ Shows(after)
           /\ job' = IF after.inFlight THEN [job EXCEPT ![n] = "spawned"] ELSE job
           /\ dog' = IF after.inFlight THEN [dog EXCEPT ![n] = "armed"] ELSE dog
  /\ mic' = [on |-> FALSE, buf |-> <<>>]
  /\ UNCHANGED <<recFed, feeder, updater, boot, count>>

-----------------------------------------------------------------------------
(* A live feeder copies the buffer, and only then takes the shell's lock.   *)

FeederSnapshot(n) ==
  /\ feeder[n].at = "asleep"
  /\ Cardinality({p \in Presses : feeder[p].at = "holding"}) < MaxHolding
  /\ feeder' = [feeder EXCEPT ![n] = [at |-> "holding", snap |-> mic.buf]]
  /\ UNCHANGED <<shell, key, mic, recFed, lastPcm, job, dog, timers, updater,
                 boot, count>>

Unfed(snap) == IF recFed >= Len(snap) THEN <<>> ELSE SubSeq(snap, recFed + 1, Len(snap))

FeederPush(n) ==
  /\ feeder[n].at = "holding"
  /\ LET rest == Unfed(feeder[n].snap)
         after == PushSeconds(shell, rest)
     IN  /\ Shows(after)
         /\ recFed' = recFed + Pushed(shell, rest)
         /\ feeder' = [feeder EXCEPT ![n] =
                         [at |-> IF Recording(after) THEN "asleep" ELSE "off",
                          snap |-> <<>>]]
  /\ UNCHANGED <<key, mic, lastPcm, job, dog, updater, boot, count>>

-----------------------------------------------------------------------------
(* The sender of a release and its watchdog.                                *)

\* Mutant: a sender without audio just returns.
JobReadsOrLeaves(n) ==
  /\ job[n] = "spawned"
  /\ job' = [job EXCEPT ![n] = IF lastPcm THEN "sending" ELSE "ended"]
  /\ UNCHANGED <<shell, env, timers, dog, updater, boot, count>>

\* last_pcm is read when the thread gets to run, not at the release.
JobReads(n) ==
  /\ job[n] = "spawned"
  /\ \/ /\ lastPcm
        /\ job' = [job EXCEPT ![n] = "sending"]
        /\ UNCHANGED <<shell, timers>>
     \/ /\ ~lastPcm
        /\ job' = [job EXCEPT ![n] = "ended"]
        /\ Shows(SendError(shell))
  /\ UNCHANGED <<env, dog, updater, boot, count>>

\* The text comes from the local line or from the broker, or neither has it.
JobEnds(n) ==
  /\ job[n] = "sending"
  /\ job' = [job EXCEPT ![n] = "ended"]
  /\ \/ Shows(TranscriptArrived(shell))
     \/ Shows(SendError(shell))
  /\ UNCHANGED <<env, dog, updater, boot, count>>

\* The watchdog looks at the line, and in a second section clears it.
DogLooks(n) ==
  /\ dog[n] = "armed" /\ job[n] = "ended"
  /\ dog' = [dog EXCEPT ![n] = IF shell.inFlight THEN "due" ELSE "off"]
  /\ UNCHANGED <<shell, env, job, timers, updater, boot, count>>

DogBites(n) ==
  /\ dog[n] = "due"
  /\ dog' = [dog EXCEPT ![n] = "off"]
  /\ Shows(SendError(shell))
  /\ UNCHANGED <<env, job, updater, boot, count>>

-----------------------------------------------------------------------------
(* Overlay timers: the check and the dismissal are two critical sections.   *)

FadeLooks ==
  /\ timers.fade
  /\ timers' = [fade |-> FALSE,
                dismiss |-> timers.dismiss \/ ~(Recording(shell) \/ shell.inFlight)]
  /\ UNCHANGED <<shell, env, job, dog, updater, boot, count>>

DoneLooks ==
  /\ shell.overlay = "Done"
  /\ timers' = [timers EXCEPT !.dismiss = TRUE]
  /\ UNCHANGED <<shell, env, job, dog, updater, boot, count>>

TimerDismisses ==
  /\ timers.dismiss
  /\ shell' = Dismiss(shell)
  /\ timers' = Emit(Dismiss(shell), [timers EXCEPT !.dismiss = FALSE])
  /\ UNCHANGED <<env, job, dog, updater, boot, count>>

-----------------------------------------------------------------------------
(* The boot question, logins, the update feed and the idle updater.         *)

\* Below the floor blocks, a mandatory version waits, an unreadable answer
\* lets the user work and warns.
BootApply(s, answer) ==
  CASE answer = "allow" -> s
    [] answer = "pending" ->
         UpdateNotice([s EXCEPT !.pendingUpdate = TRUE], "UpdatePending")
    [] answer = "blocked" ->
         UpdateNotice([s EXCEPT !.blockedUpdate = TRUE], "UpdateBlocked")
    [] answer = "unknown" -> Toast(s, "unknown")

\* That warning is dismissed after 8 seconds without a look.
BootAnswered ==
  /\ boot
  /\ boot' = FALSE
  /\ \E answer \in Answers :
       LET after == BootApply(shell, answer)
       IN  /\ shell' = after
           /\ timers' = [Emit(after, timers) EXCEPT
                           !.dismiss = @ \/ answer = "unknown"]
  /\ UNCHANGED <<env, job, dog, updater, count>>

SetLoggedIn ==
  /\ count.logins < MaxLogins
  /\ count' = [count EXCEPT !.logins = @ + 1]
  /\ shell' = [shell EXCEPT !.loggedIn = ~@]
  /\ UNCHANGED <<env, job, dog, timers, updater, boot>>

FeedIsNewer ==
  /\ Shows(NoteUpdateAvailable(shell))
  /\ UNCHANGED <<env, job, dog, updater, boot, count>>

\* The idle check, after which the lock is dropped and the download begins.
UpdateDue ==
  /\ updater = "polling" /\ count.restarts < MaxRestarts
  /\ shell.pendingUpdate /\ ~Recording(shell) /\ ~shell.inFlight
  /\ updater' = "installing"
  /\ UNCHANGED <<shell, env, job, dog, timers, boot, count>>

InstallFails ==
  /\ updater = "installing"
  /\ updater' = "polling"
  /\ UNCHANGED <<shell, env, job, dog, timers, boot, count>>

\* app.restart: the process and its threads are gone, a new one begins.
InstalledAndRestarted ==
  /\ updater = "installing" /\ count.restarts < MaxRestarts
  /\ updater' = "polling"
  /\ count' = [count EXCEPT !.restarts = @ + 1]
  /\ shell' = [NewShell EXCEPT !.loggedIn = shell.loggedIn]
  /\ key' = FALSE /\ mic' = [on |-> FALSE, buf |-> <<>>]
  /\ recFed' = 0 /\ lastPcm' = FALSE
  /\ feeder' = [n \in Presses |-> IdleFeeder]
  /\ job' = [n \in Presses |-> "none"]
  /\ dog' = [n \in Presses |-> "off"]
  /\ timers' = NoTimers
  /\ boot' = TRUE

-----------------------------------------------------------------------------
Next ==
  \/ KeyPressed \/ MicSecond \/ KeyReleased
  \/ \E n \in Presses : FeederSnapshot(n) \/ FeederPush(n)
  \/ \E n \in Presses : JobReads(n) \/ JobEnds(n) \/ DogLooks(n) \/ DogBites(n)
  \/ FadeLooks \/ DoneLooks \/ TimerDismisses
  \/ BootAnswered \/ SetLoggedIn \/ FeedIsNewer
  \/ UpdateDue \/ InstallFails \/ InstalledAndRestarted

Spec == Init /\ [][Next]_vars

\* The key is let go at last, requests end (each has a timeout), sleeping
\* threads wake up.  Nothing is assumed of presses, updates and the network.
Fairness ==
  /\ WF_vars(KeyReleased)
  /\ \A n \in Presses : WF_vars(JobReads(n) \/ JobEnds(n))
  /\ WF_vars(FadeLooks)
  /\ WF_vars(DoneLooks) /\ WF_vars(TimerDismisses)

FairSpec == Spec /\ Fairness

-----------------------------------------------------------------------------
\* Type correctness of the shell and of the threads that carry its data.
TypeOK ==
  /\ shell \in Shells
  /\ key \in BOOLEAN
  /\ mic \in [on : BOOLEAN, buf : Seq(Sounds)]
  /\ recFed \in Nat
  /\ lastPcm \in BOOLEAN
  /\ feeder \in [Presses -> [at : {"off", "asleep", "holding"}, snap : Seq(Sounds)]]
  /\ job \in [Presses -> {"none", "spawned", "sending", "ended"}]
  /\ dog \in [Presses -> {"off", "armed", "due"}]
  /\ timers \in [fade : BOOLEAN, dismiss : BOOLEAN]
  /\ updater \in {"polling", "installing"}
  /\ boot \in BOOLEAN
  /\ count \in [presses : 0..MaxPresses, restarts : 0..MaxRestarts,
                logins : 0..MaxLogins]

\* A busy line is never hidden from the user and never looks finished, in
\* whatever order senders, watchdogs, timers and new recordings come
\* (flow.rs: in_flight and the overlay are written apart).
InFlightIsShown ==
  shell.inFlight => shell.overlay \notin {"Hidden", "Done"}

\* However many feeders of earlier presses are awake, the seconds pushed
\* into the open session are those rec_fed counts, each once
\* (tauri_app.rs: "cift besleme YOK").
FedOnce == Recording(shell) => shell.session.secs = recFed

\* A release that follows a session closed as silent spawns no sender, even
\* while the line is busy with an earlier one (record.rs: "Sessizlik:
\* gönderilmedi, ücret yok").
SilenceIsNotSent ==
  [][(\E n \in Presses : job[n] = "none" /\ job'[n] = "spawned")
       => shell'.lastStop \in {"capped", "released"}]_vars

\* A busy line is set free again, whichever way the senders end
\* (tauri_app.rs: "hat asili kalmaz").
LineFrees == shell.inFlight ~> ~shell.inFlight

\* A result or a toast on the hidden overlay does not stay: the window goes
\* away or shows something in progress (tauri_app.rs: "hayalet pencere YOK").
Passing == \/ shell.overlay = "Done"
           \/ shell.overlay = "Hidden" /\ shell.toast # "none"
TransientsFade == Passing ~> ~Passing

\* The updater never restarts the program under a dictation (lib.rs and
\* tauri_app.rs: "dictation ortasında ASLA").
NoRestartMidDictation ==
  [][count'.restarts # count.restarts
       => ~Recording(shell) /\ ~shell.inFlight]_vars
=============================================================================
