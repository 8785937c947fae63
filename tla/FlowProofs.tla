----------------------------- MODULE FlowProofs -----------------------------
(***************************************************************************)
(* Proofs about the dictation flow, for every number of presses, feeders   *)
(* and senders, every cap and every set of sounds.  What is proved of a    *)
(* method of the shell is said of any shell that is Sound: well typed, its *)
(* busy line shown, and busy outside a recording only because a recording  *)
(* was closed to be sent.                                                  *)
(***************************************************************************)
EXTENDS Flow, WellFoundedInduction, SequenceTheorems, TLAPS

\* Reasons for a stop after which the recording is sent.
Sent == {"capped", "released"}

\* A window state that fits itself: while a sending is under way the window
\* shows something other than nothing or success, and its last stop was one
\* that sends.
Sound(s) ==
  /\ s \in Shells
  /\ s.inFlight => s.overlay \notin {"Hidden", "Done"}
  /\ s.inFlight /\ ~Recording(s) => s.lastStop \in Sent

\* The inductive invariant: a session lives only while the key is held, and
\* its seconds are those counted in recFed.
IInv ==
  /\ TypeOK
  /\ Sound(shell)
  /\ Recording(shell) => key
  /\ FedOnce

-----------------------------------------------------------------------------
(* The events of the overlay.                                               *)

(***************************************************************************)
(* A toast.                                                                *)
(***************************************************************************)
LEMMA ToastSound ==
  ASSUME NEW s, Sound(s), NEW t \in Toasts
  PROVE  /\ Sound(Toast(s, t))
         /\ Toast(s, t).session = s.session
         /\ Toast(s, t).inFlight = s.inFlight
         /\ Toast(s, t).lastStop = s.lastStop
BY DEF Sound, Toast, Shells, Recording, Sent

(***************************************************************************)
(* A notice about an update.                                               *)
(***************************************************************************)
LEMMA NoticeSound ==
  ASSUME NEW s, Sound(s), NEW what \in {"UpdatePending", "UpdateBlocked"}
  PROVE  /\ Sound(UpdateNotice(s, what))
         /\ UpdateNotice(s, what).session = s.session
BY DEF Sound, UpdateNotice, Shells, Recording, Sent, Overlays, Toasts

(***************************************************************************)
(* A dismissal.                                                            *)
(***************************************************************************)
LEMMA DismissSound ==
  ASSUME NEW s, Sound(s)
  PROVE  /\ Sound(Dismiss(s))
         /\ Dismiss(s).session = s.session
BY DEF Sound, Dismiss, Shells, Recording, Sent, Overlays, Toasts

-----------------------------------------------------------------------------
(* The methods of the shell.                                                *)

(***************************************************************************)
(* The key goes down.                                                      *)
(***************************************************************************)
LEMMA HotkeyDownSound ==
  ASSUME NEW s, Sound(s)
  PROVE  /\ Sound(HotkeyDown(s))
         /\ ~Recording(s) /\ Recording(HotkeyDown(s))
              => HotkeyDown(s).session.secs = 0
<1>1. CASE s.blockedUpdate
  BY <1>1, ToastSound DEF HotkeyDown, Toasts, Recording
<1>2. CASE ~s.blockedUpdate /\ Recording(s)
  BY <1>2 DEF HotkeyDown
<1>3. CASE ~s.blockedUpdate /\ ~Recording(s)
  <2>1. HotkeyDown(s) = [s EXCEPT !.session = NewSession, !.lastStop = "none",
                                  !.overlay = "Recording", !.toast = "none"]
    BY <1>3 DEF HotkeyDown
  <2>2. NewSession \in [on : BOOLEAN, secs : Nat, heard : BOOLEAN]
        /\ NewSession.on /\ NewSession.secs = 0
    BY DEF NewSession, NoSession
  <2>. QED BY <2>1, <2>2 DEF Sound, Shells, Recording, Overlays, Toasts
<1>. QED BY <1>1, <1>2, <1>3

(***************************************************************************)
(* A stop that sends nothing.                                              *)
(***************************************************************************)
LEMMA SilentStopSound ==
  ASSUME NEW s, Sound(s)
  PROVE  /\ Sound(SilentStop(s))
         /\ ~Recording(SilentStop(s))
         /\ ~SilentStop(s).inFlight
<1>1. SilentStop(s) =
        [s EXCEPT !.session = NoSession, !.inFlight = FALSE, !.lastStop = "silent",
                  !.overlay = "Hidden", !.toast = "silent"]
  BY DEF SilentStop, RecordStopped
<1>2. "silent" \in Toasts /\ "Hidden" \in Overlays
  BY DEF Toasts, Overlays
<1>3. NoSession \in [on : BOOLEAN, secs : Nat, heard : BOOLEAN] /\ ~NoSession.on
  BY DEF NoSession
<1>4. s \in Shells
  BY DEF Sound
<1>5. SilentStop(s) \in Shells
  BY <1>1, <1>2, <1>3, <1>4 DEF Shells
<1>6. SilentStop(s).session = NoSession /\ ~SilentStop(s).inFlight
  BY <1>1, <1>4 DEF Shells
<1>. QED BY <1>3, <1>5, <1>6 DEF Sound, Recording

(***************************************************************************)
(* A stop that sends.                                                      *)
(***************************************************************************)
LEMMA SendStopSound ==
  ASSUME NEW s, Sound(s), NEW reason \in Sent
  PROVE  /\ Sound(SendStop(s, reason))
         /\ ~Recording(SendStop(s, reason))
<1>. DEFINE t == IF reason = "released" THEN s.toast ELSE reason
<1>1. SendStop(s, reason) =
        [s EXCEPT !.session = NoSession, !.inFlight = TRUE, !.lastStop = reason,
                  !.overlay = "Sending", !.toast = t]
  BY DEF SendStop, RecordStopped, Sound, Shells, Sent
<1>2. t \in Toasts /\ "Sending" \in Overlays
  BY DEF Sound, Shells, Sent, Toasts, Overlays
<1>3. NoSession \in [on : BOOLEAN, secs : Nat, heard : BOOLEAN] /\ ~NoSession.on
  BY DEF NoSession
<1>. HIDE DEF t
<1>4. s \in Shells /\ reason \in {"none", "silent", "capped", "released"}
  BY DEF Sound, Sent
<1>5. SendStop(s, reason) \in Shells
  BY <1>1, <1>2, <1>3, <1>4 DEF Shells
<1>6. /\ SendStop(s, reason).session = NoSession
      /\ SendStop(s, reason).overlay = "Sending"
      /\ SendStop(s, reason).lastStop = reason
  BY <1>1, <1>4 DEF Shells
<1>. QED BY <1>3, <1>5, <1>6 DEF Sound, Recording

\* Feeding keeps the shell sound, opens no session, and a session it leaves
\* open has grown by what was consumed.
LEMMA PushSound ==
  ASSUME NEW s, Sound(s), NEW pcm \in Seq(Sounds)
  PROVE  /\ Sound(PushSeconds(s, pcm))
         /\ Recording(PushSeconds(s, pcm))
              => /\ Recording(s)
                 /\ PushSeconds(s, pcm).session.secs = s.session.secs + Pushed(s, pcm)
<1>1. CASE ~Recording(s)
  BY <1>1 DEF PushSeconds
<1>2. CASE Recording(s) /\ Closing(s, pcm) = {}
  <2>1. Len(pcm) \in Nat
    OBVIOUS
  <2>. DEFINE ses == [on |-> TRUE, secs |-> s.session.secs + Len(pcm),
                     heard |-> s.session.heard
                                 \/ \E i \in 1..Len(pcm) : pcm[i] = "loud"]
  <2>2. PushSeconds(s, pcm) = [s EXCEPT !.session = ses]
    BY <1>2 DEF PushSeconds, Sound, Shells
  <2>3. Pushed(s, pcm) = Len(pcm)
    BY <1>2 DEF Pushed
  <2>4. s.session.secs \in Nat
    BY DEF Sound, Shells
  <2>5. ses \in [on : BOOLEAN, secs : Nat, heard : BOOLEAN] /\ ses.on
        /\ ses.secs = s.session.secs + Len(pcm)
    BY <2>1, <2>4
  <2>. HIDE DEF ses
  <2>6. s \in Shells /\ (s.inFlight => s.overlay \notin {"Hidden", "Done"})
    BY DEF Sound
  <2>7. [s EXCEPT !.session = ses] \in Shells
         /\ [s EXCEPT !.session = ses].session = ses
         /\ [s EXCEPT !.session = ses].inFlight = s.inFlight
         /\ [s EXCEPT !.session = ses].overlay = s.overlay
    BY <2>5, <2>6 DEF Shells
  <2>. QED BY <1>2, <2>2, <2>3, <2>5, <2>6, <2>7 DEF Sound, Recording
<1>3. CASE Recording(s) /\ Closing(s, pcm) # {}
  <2>1. PushSeconds(s, pcm) \in {SilentStop(s), SendStop(s, "capped")}
    BY <1>3 DEF PushSeconds
  <2>. QED BY <2>1, SilentStopSound, SendStopSound DEF Sent
<1>. QED BY <1>1, <1>2, <1>3

\* A nonempty set of numbers has a least one, and FirstOf is it.
LEMMA FirstIsMember ==
  ASSUME NEW S \in SUBSET Nat, S # {}
  PROVE  FirstOf(S) \in S
<1>1. IsWellFoundedOn(OpToRel(<, Nat), Nat)
  BY NatLessThanWellFounded
<1>2. PICK x \in S : \A y \in S : <<y, x>> \notin OpToRel(<, Nat)
  BY <1>1, WFMin
<1>3. \A y \in S : ~(y < x)
  BY <1>2 DEF OpToRel
<1>4. \A y \in S : x <= y
  BY <1>3
<1>. QED BY <1>4 DEF FirstOf

(***************************************************************************)
(* The seconds a recording has are a number.                               *)
(***************************************************************************)
LEMMA PushedNat ==
  ASSUME NEW s, NEW pcm \in Seq(Sounds)
  PROVE  Pushed(s, pcm) \in Nat
<1>1. Len(pcm) \in Nat
  OBVIOUS
<1>2. Closing(s, pcm) \in SUBSET Nat
  BY <1>1 DEF Closing
<1>3. Closing(s, pcm) # {} => FirstOf(Closing(s, pcm)) \in Nat
  BY <1>2, FirstIsMember
<1>. QED BY <1>1, <1>3 DEF Pushed

\* After a release no session is open, and a busy line is one to be sent.
LEMMA HotkeyUpSound ==
  ASSUME NEW s, Sound(s)
  PROVE  /\ Sound(HotkeyUp(s))
         /\ ~Recording(HotkeyUp(s))
<1>1. CASE ~Recording(s)
  BY <1>1 DEF HotkeyUp
<1>2. CASE Recording(s)
  <2>1. HotkeyUp(s) \in {SilentStop(s), Toast(SilentStop(s), "login"),
                         SendStop(s, "released")}
    BY <1>2 DEF HotkeyUp
  <2>2. Sound(SilentStop(s)) /\ ~Recording(SilentStop(s))
    BY SilentStopSound
  <2>3. Sound(Toast(SilentStop(s), "login"))
        /\ ~Recording(Toast(SilentStop(s), "login"))
    BY <2>2, ToastSound DEF Toasts, Recording
  <2>4. Sound(SendStop(s, "released")) /\ ~Recording(SendStop(s, "released"))
    BY SendStopSound DEF Sent
  <2>. QED BY <2>1, <2>2, <2>3, <2>4
<1>. QED BY <1>1, <1>2

(***************************************************************************)
(* A transcript arrives.                                                   *)
(***************************************************************************)
LEMMA TranscriptSound ==
  ASSUME NEW s, Sound(s)
  PROVE  /\ Sound(TranscriptArrived(s))
         /\ TranscriptArrived(s).session = s.session
<1>. DEFINE done == [s EXCEPT !.inFlight = FALSE, !.overlay = "Done", !.toast = "none"]
<1>1. Sound(done) /\ done.session = s.session
  BY DEF Sound, Shells, Recording, Overlays, Toasts
<1>. HIDE DEF done
<1>. DEFINE told == IF s.blockedUpdate THEN UpdateNotice(done, "UpdateBlocked")
                    ELSE IF s.pendingUpdate THEN UpdateNotice(done, "UpdatePending")
                    ELSE done
<1>2. Sound(told) /\ told.session = s.session
  BY <1>1, NoticeSound
<1>3. TranscriptArrived(s) = Toast(told, "text")
  BY DEF TranscriptArrived, done
<1>. HIDE DEF told
<1>. QED BY <1>2, <1>3, ToastSound DEF Toasts

(***************************************************************************)
(* A sending fails.                                                        *)
(***************************************************************************)
LEMMA SendErrorSound ==
  ASSUME NEW s, Sound(s)
  PROVE  /\ Sound(SendError(s))
         /\ SendError(s).session = s.session
<1>1. CASE s.inFlight
  <2>1. SendError(s) = [s EXCEPT !.inFlight = FALSE, !.overlay = "Hidden", !.toast = "error"]
    BY <1>1 DEF SendError
  <2>. QED BY <2>1 DEF Sound, Shells, Recording, Overlays, Toasts
<1>2. CASE ~s.inFlight
  BY <1>2 DEF SendError
<1>. QED BY <1>1, <1>2

(***************************************************************************)
(* Setting a flag touches neither overlay nor session.                     *)
(***************************************************************************)
LEMMA FlagsSound ==
  ASSUME NEW s, Sound(s)
  PROVE  /\ Sound([s EXCEPT !.pendingUpdate = TRUE])
         /\ Sound([s EXCEPT !.blockedUpdate = TRUE])
         /\ Sound([s EXCEPT !.loggedIn = ~@])
         /\ [s EXCEPT !.pendingUpdate = TRUE].session = s.session
         /\ [s EXCEPT !.blockedUpdate = TRUE].session = s.session
         /\ [s EXCEPT !.loggedIn = ~@].session = s.session
BY DEF Sound, Shells, Recording

(***************************************************************************)
(* An update becomes available.                                            *)
(***************************************************************************)
LEMMA NoteSound ==
  ASSUME NEW s, Sound(s)
  PROVE  /\ Sound(NoteUpdateAvailable(s))
         /\ NoteUpdateAvailable(s).session = s.session
BY FlagsSound, NoticeSound DEF NoteUpdateAvailable

(***************************************************************************)
(* The answer of the update check at start.                                *)
(***************************************************************************)
LEMMA BootSound ==
  ASSUME NEW s, Sound(s), NEW answer \in Answers
  PROVE  /\ Sound(BootApply(s, answer))
         /\ BootApply(s, answer).session = s.session
<1>1. answer \in {"allow", "pending", "blocked", "unknown"}
  BY FlowAssumption
<1>. QED BY <1>1, FlagsSound, NoticeSound, ToastSound DEF BootApply, Toasts

-----------------------------------------------------------------------------
(* The inductive invariant.                                                 *)

(***************************************************************************)
(* The empty recording.                                                    *)
(***************************************************************************)
LEMMA EmptyBuffer == <<>> \in Seq(Sounds)
BY EmptySeq

(***************************************************************************)
(* The shell starts in the invariant.                                      *)
(***************************************************************************)
THEOREM Initiates == Init => IInv
<1>. SUFFICES ASSUME Init PROVE IInv
  OBVIOUS
<1>. USE FlowAssumption
<1>1. shell = NewShell
  BY DEF Init
<1>2. Sound(shell) /\ ~Recording(shell)
  BY <1>1 DEF NewShell, NoSession, Sound, Shells, Recording, Overlays, Toasts
<1>3. count \in [presses : 0..MaxPresses, restarts : 0..MaxRestarts,
                 logins : 0..MaxLogins]
  BY DEF Init
<1>4. mic \in [on : BOOLEAN, buf : Seq(Sounds)]
      /\ feeder \in [Presses -> [at : {"off", "asleep", "holding"}, snap : Seq(Sounds)]]
  BY EmptyBuffer DEF Init, IdleFeeder
<1>5. TypeOK
  BY <1>2, <1>3, <1>4 DEF Init, TypeOK, Sound, NoTimers
<1>. QED BY <1>2, <1>5 DEF IInv, FedOnce

\* What every painted change of the shell owes the invariant.
LEMMA ShowsTimers ==
  ASSUME TypeOK, NEW s \in Shells, Shows(s)
  PROVE  shell' = s /\ timers' \in [fade : BOOLEAN, dismiss : BOOLEAN]
BY DEF TypeOK, Shows, Emit

\* A step that keeps the session, the key and the counter only owes the
\* soundness of the shell.
LEMMA SessionKept ==
  ASSUME IInv, TypeOK', Sound(shell'), shell'.session = shell.session,
         UNCHANGED <<key, recFed>>
  PROVE  IInv'
BY DEF IInv, FedOnce, Recording

\* A release leaves no session open, and spawns a sender only on a busy line.
LEMMA ReleaseSound ==
  ASSUME TypeOK, Sound(shell), KeyReleased
  PROVE  /\ Sound(shell') /\ ~Recording(shell') /\ TypeOK'
         /\ job' # job => shell'.inFlight
<1>1. PICK tail \in {<<>>} \cup {<<x>> : x \in Sounds} :
        LET pcm == mic.buf \o tail
            after == HotkeyUp(MicFeed(shell, pcm))
            n == count.presses
        IN  /\ lastPcm' = (pcm # <<>>)
            /\ Shows(after)
            /\ job' = IF after.inFlight THEN [job EXCEPT ![n] = "spawned"] ELSE job
            /\ dog' = IF after.inFlight THEN [dog EXCEPT ![n] = "armed"] ELSE dog
  BY DEF KeyReleased
<1>. DEFINE pcm == mic.buf \o tail
            fed == MicFeed(shell, pcm)
            after == HotkeyUp(fed)
<1>2. mic.buf \in Seq(Sounds) /\ tail \in Seq(Sounds)
  <2>1. mic.buf \in Seq(Sounds)
    BY DEF TypeOK
  <2>2. tail \in Seq(Sounds)
    <3>1. \A x \in Sounds : <<x>> \in Seq(Sounds)
      OBVIOUS
    <3>. QED BY <3>1, EmptyBuffer
  <2>. QED BY <2>1, <2>2
<1>3. pcm \in Seq(Sounds) /\ recFed \in Nat
  BY <1>2 DEF TypeOK
<1>4. Sound(fed)
  <2>. HIDE DEF pcm
  <2>1. CASE recFed >= Len(pcm)
    BY <2>1 DEF MicFeed
  <2>2. CASE ~(recFed >= Len(pcm))
    <3>1. SubSeq(pcm, recFed + 1, Len(pcm)) \in Seq(Sounds)
      BY <1>3
    <3>. QED BY <2>2, <3>1, PushSound DEF MicFeed
  <2>. QED BY <2>1, <2>2
<1>. HIDE DEF fed
<1>5. Sound(after) /\ ~Recording(after) /\ after \in Shells
  BY <1>4, HotkeyUpSound DEF Sound
<1>. HIDE DEF after
<1>6. shell' = after /\ timers' \in [fade : BOOLEAN, dismiss : BOOLEAN]
  <2>1. Shows(after)
    BY <1>1 DEF after, fed
  <2>. QED BY <1>5, <2>1, ShowsTimers
<1>7. lastPcm' \in BOOLEAN
  BY <1>1
<1>8. job' \in [Presses -> {"none", "spawned", "sending", "ended"}]
      /\ dog' \in [Presses -> {"off", "armed", "due"}]
  BY <1>1 DEF TypeOK
<1>9. mic' \in [on : BOOLEAN, buf : Seq(Sounds)]
  BY DEF KeyReleased
<1>10. TypeOK'
  BY <1>5, <1>6, <1>7, <1>8, <1>9 DEF KeyReleased, TypeOK
<1>11. job' # job => shell'.inFlight
  <2>1. job' = IF after.inFlight THEN [job EXCEPT ![count.presses] = "spawned"] ELSE job
    BY <1>1 DEF after, fed
  <2>. QED BY <1>6, <2>1
<1>. QED BY <1>5, <1>6, <1>10, <1>11

(***************************************************************************)
(* Every step keeps the invariant.                                         *)
(***************************************************************************)
THEOREM Preserves == IInv /\ [Next]_vars => IInv'
<1>. SUFFICES ASSUME IInv, [Next]_vars PROVE IInv'
  OBVIOUS
<1>. USE FlowAssumption
<1>0. TypeOK /\ Sound(shell) /\ shell \in Shells
  BY DEF IInv, Sound
<1>1. CASE KeyPressed
  <2>1. Sound(HotkeyDown(shell)) /\ HotkeyDown(shell) \in Shells
    BY <1>0, HotkeyDownSound DEF Sound
  <2>2. shell' = HotkeyDown(shell) /\ timers' \in [fade : BOOLEAN, dismiss : BOOLEAN]
    BY <1>0, <1>1, <2>1, ShowsTimers DEF KeyPressed
  <2>3. ~Recording(shell) /\ key'
    BY <1>1 DEF IInv, KeyPressed
  <2>4. count' \in [presses : 0..MaxPresses, restarts : 0..MaxRestarts,
                    logins : 0..MaxLogins]
    <3>1. count.presses \in Nat /\ count.presses < MaxPresses
          /\ count.presses + 1 \in 0..MaxPresses
      BY <1>0, <1>1 DEF KeyPressed, TypeOK
    <3>2. count' = [count EXCEPT !.presses = @ + 1]
      BY <1>1 DEF KeyPressed
    <3>. QED BY <1>0, <3>1, <3>2 DEF TypeOK
  <2>5. mic' \in [on : BOOLEAN, buf : Seq(Sounds)]
    <3>1. \A b \in BOOLEAN : [on |-> b, buf |-> <<>>] \in [on : BOOLEAN, buf : Seq(Sounds)]
      BY EmptyBuffer
    <3>2. mic' = [on |-> TRUE, buf |-> <<>>] \/ mic' = [on |-> FALSE, buf |-> <<>>]
      BY <1>1 DEF KeyPressed
    <3>. QED BY <3>1, <3>2
  <2>6. feeder' \in [Presses -> [at : {"off", "asleep", "holding"}, snap : Seq(Sounds)]]
    <3>1. feeder' \in {feeder, [feeder EXCEPT ![count'.presses].at = "asleep"]}
      BY <1>1 DEF KeyPressed
    <3>2. feeder \in [Presses -> [at : {"off", "asleep", "holding"}, snap : Seq(Sounds)]]
      BY <1>0 DEF TypeOK
    <3>. QED BY <3>1, <3>2
  <2>7. TypeOK'
    BY <1>0, <1>1, <2>1, <2>2, <2>4, <2>5, <2>6 DEF KeyPressed, TypeOK
  <2>8. FedOnce'
    BY <1>0, <1>1, <2>2, <2>3, HotkeyDownSound DEF KeyPressed, FedOnce, Recording
  <2>. QED BY <2>1, <2>2, <2>3, <2>7, <2>8 DEF IInv
<1>2. CASE MicSecond
  <2>1. PICK x \in Sounds : mic' = [mic EXCEPT !.buf = Append(@, x)]
    BY <1>2 DEF MicSecond
  <2>2. mic \in [on : BOOLEAN, buf : Seq(Sounds)]
    BY <1>0 DEF TypeOK
  <2>3. Append(mic.buf, x) \in Seq(Sounds)
    BY <2>2
  <2>4. mic' \in [on : BOOLEAN, buf : Seq(Sounds)]
    BY <2>1, <2>2, <2>3
  <2>5. TypeOK'
    BY <1>0, <1>2, <2>4 DEF MicSecond, TypeOK
  <2>. QED BY <1>0, <1>2, <2>5, SessionKept DEF MicSecond
<1>3. CASE KeyReleased
  <2>1. Sound(shell') /\ ~Recording(shell') /\ TypeOK'
    BY <1>0, <1>3, ReleaseSound
  <2>. QED BY <2>1 DEF IInv, FedOnce
<1>4. ASSUME NEW n \in Presses, FeederSnapshot(n) PROVE IInv'
  <2>1. TypeOK'
    BY <1>0, <1>4 DEF FeederSnapshot, TypeOK
  <2>. QED BY <1>0, <1>4, <2>1, SessionKept DEF FeederSnapshot
<1>5. ASSUME NEW n \in Presses, FeederPush(n) PROVE IInv'
  <2>. DEFINE rest == Unfed(feeder[n].snap)
              after == PushSeconds(shell, rest)
  <2>1. feeder[n].snap \in Seq(Sounds) /\ recFed \in Nat
    BY <1>0, <1>5 DEF TypeOK
  <2>2. rest \in Seq(Sounds)
    <3>. DEFINE snap == feeder[n].snap
    <3>1. snap \in Seq(Sounds)
      BY <2>1
    <3>. HIDE DEF snap
    <3>2. CASE recFed >= Len(snap)
      <4>1. Unfed(snap) = <<>>
        BY <3>2 DEF Unfed
      <4>. QED BY <4>1 DEF snap
    <3>3. CASE ~(recFed >= Len(snap))
      <4>1. Unfed(snap) \in Seq(Sounds)
        BY <2>1, <3>1, <3>3 DEF Unfed
      <4>. QED BY <4>1 DEF snap
    <3>. QED BY <3>2, <3>3
  <2>3. /\ Shows(after)
        /\ recFed' = recFed + Pushed(shell, rest)
        /\ feeder' = [feeder EXCEPT ![n] =
                        [at |-> IF Recording(after) THEN "asleep" ELSE "off",
                         snap |-> <<>>]]
    BY <1>5 DEF FeederPush
  <2>. HIDE DEF rest
  <2>4. Sound(after) /\ after \in Shells
    BY <1>0, <2>2, PushSound DEF Sound
  <2>5. Recording(after) =>
          Recording(shell)
          /\ after.session.secs = shell.session.secs + Pushed(shell, rest)
    BY <1>0, <2>2, PushSound
  <2>. HIDE DEF after
  <2>6. shell' = after /\ timers' \in [fade : BOOLEAN, dismiss : BOOLEAN]
    BY <1>0, <2>3, <2>4, ShowsTimers
  <2>7. recFed' \in Nat
    BY <2>1, <2>2, <2>3, PushedNat
  <2>8. feeder' \in [Presses -> [at : {"off", "asleep", "holding"}, snap : Seq(Sounds)]]
    BY <1>0, <2>3 DEF TypeOK
  <2>9. TypeOK'
    BY <1>0, <1>5, <2>4, <2>6, <2>7, <2>8 DEF FeederPush, TypeOK
  <2>10. FedOnce' /\ (Recording(shell') => key')
    BY <1>5, <2>3, <2>5, <2>6 DEF FeederPush, IInv, FedOnce
  <2>. QED BY <2>4, <2>6, <2>9, <2>10 DEF IInv
<1>6. ASSUME NEW n \in Presses, JobReads(n) PROVE IInv'
  <2>1. CASE lastPcm
    <3>1. TypeOK'
      BY <1>0, <1>6, <2>1 DEF JobReads, TypeOK, env
    <3>. QED BY <1>0, <1>6, <2>1, <3>1, SessionKept DEF JobReads, env
  <2>2. CASE ~lastPcm
    <3>1. Sound(SendError(shell)) /\ SendError(shell) \in Shells
          /\ SendError(shell).session = shell.session
      BY <1>0, SendErrorSound DEF Sound
    <3>2. shell' = SendError(shell) /\ timers' \in [fade : BOOLEAN, dismiss : BOOLEAN]
      BY <1>0, <1>6, <2>2, <3>1, ShowsTimers DEF JobReads
    <3>3. TypeOK'
      BY <1>0, <1>6, <2>2, <3>1, <3>2 DEF JobReads, TypeOK, env
    <3>. QED BY <1>6, <3>1, <3>2, <3>3, SessionKept DEF JobReads, env
  <2>. QED BY <2>1, <2>2
<1>7. ASSUME NEW n \in Presses, JobEnds(n) PROVE IInv'
  <2>1. \A s \in {TranscriptArrived(shell), SendError(shell)} :
          Sound(s) /\ s \in Shells /\ s.session = shell.session
    BY <1>0, TranscriptSound, SendErrorSound DEF Sound
  <2>2. PICK s \in {TranscriptArrived(shell), SendError(shell)} : Shows(s)
    BY <1>7 DEF JobEnds
  <2>3. shell' = s /\ timers' \in [fade : BOOLEAN, dismiss : BOOLEAN]
    BY <1>0, <2>1, <2>2, ShowsTimers
  <2>4. TypeOK'
    BY <1>0, <1>7, <2>1, <2>3 DEF JobEnds, TypeOK, env
  <2>. QED BY <1>7, <2>1, <2>3, <2>4, SessionKept DEF JobEnds, env
<1>8. ASSUME NEW n \in Presses, DogLooks(n) PROVE IInv'
  <2>1. TypeOK'
    BY <1>0, <1>8 DEF DogLooks, TypeOK, env
  <2>. QED BY <1>0, <1>8, <2>1, SessionKept DEF DogLooks, env
<1>9. ASSUME NEW n \in Presses, DogBites(n) PROVE IInv'
  <2>1. Sound(SendError(shell)) /\ SendError(shell) \in Shells
        /\ SendError(shell).session = shell.session
    BY <1>0, SendErrorSound DEF Sound
  <2>2. shell' = SendError(shell) /\ timers' \in [fade : BOOLEAN, dismiss : BOOLEAN]
    BY <1>0, <1>9, <2>1, ShowsTimers DEF DogBites
  <2>3. TypeOK'
    BY <1>0, <1>9, <2>1, <2>2 DEF DogBites, TypeOK, env
  <2>. QED BY <1>9, <2>1, <2>2, <2>3, SessionKept DEF DogBites, env
<1>10. CASE FadeLooks \/ DoneLooks
  <2>1. timers' \in [fade : BOOLEAN, dismiss : BOOLEAN]
    <3>1. timers \in [fade : BOOLEAN, dismiss : BOOLEAN]
      BY <1>0 DEF TypeOK
    <3>2. CASE FadeLooks
      <4>1. PICK b \in BOOLEAN : timers' = [fade |-> FALSE, dismiss |-> b]
        BY <3>2, <3>1 DEF FadeLooks
      <4>. QED BY <4>1
    <3>3. CASE DoneLooks
      BY <3>1, <3>3 DEF DoneLooks
    <3>. QED BY <1>10, <3>2, <3>3
  <2>2. TypeOK' /\ UNCHANGED <<shell, key, recFed>>
    BY <1>0, <1>10, <2>1 DEF FadeLooks, DoneLooks, TypeOK, env
  <2>. QED BY <1>0, <2>2, SessionKept
<1>11. CASE TimerDismisses
  <2>1. Sound(Dismiss(shell)) /\ Dismiss(shell) \in Shells
        /\ Dismiss(shell).session = shell.session
    BY <1>0, DismissSound DEF Sound
  <2>2. shell' = Dismiss(shell) /\ timers' \in [fade : BOOLEAN, dismiss : BOOLEAN]
    BY <1>0, <1>11, <2>1 DEF TimerDismisses, Emit, TypeOK
  <2>3. TypeOK'
    BY <1>0, <1>11, <2>1, <2>2 DEF TimerDismisses, TypeOK, env
  <2>. QED BY <1>11, <2>1, <2>2, <2>3, SessionKept DEF TimerDismisses, env
<1>12. CASE BootAnswered
  <2>1. PICK answer \in Answers :
          /\ shell' = BootApply(shell, answer)
          /\ timers' = [Emit(BootApply(shell, answer), timers) EXCEPT
                          !.dismiss = @ \/ answer = "unknown"]
    BY <1>12 DEF BootAnswered
  <2>2. Sound(shell') /\ shell' \in Shells /\ shell'.session = shell.session
    BY <1>0, <2>1, BootSound DEF Sound
  <2>3. timers' \in [fade : BOOLEAN, dismiss : BOOLEAN]
    BY <1>0, <2>1 DEF Emit, TypeOK
  <2>4. TypeOK'
    BY <1>0, <1>12, <2>2, <2>3 DEF BootAnswered, TypeOK, env
  <2>. QED BY <1>12, <2>2, <2>4, SessionKept DEF BootAnswered, env
<1>13. CASE SetLoggedIn
  <2>1. Sound(shell') /\ shell' \in Shells /\ shell'.session = shell.session
    BY <1>0, <1>13, FlagsSound DEF SetLoggedIn, Sound
  <2>2. TypeOK'
    BY <1>0, <1>13, <2>1 DEF SetLoggedIn, TypeOK, env
  <2>. QED BY <1>13, <2>1, <2>2, SessionKept DEF SetLoggedIn, env
<1>14. CASE FeedIsNewer
  <2>1. Sound(NoteUpdateAvailable(shell)) /\ NoteUpdateAvailable(shell) \in Shells
        /\ NoteUpdateAvailable(shell).session = shell.session
    BY <1>0, NoteSound DEF Sound
  <2>2. shell' = NoteUpdateAvailable(shell)
        /\ timers' \in [fade : BOOLEAN, dismiss : BOOLEAN]
    BY <1>0, <1>14, <2>1, ShowsTimers DEF FeedIsNewer
  <2>3. TypeOK'
    BY <1>0, <1>14, <2>1, <2>2 DEF FeedIsNewer, TypeOK, env
  <2>. QED BY <1>14, <2>1, <2>2, <2>3, SessionKept DEF FeedIsNewer, env
<1>15. CASE UpdateDue \/ InstallFails
  <2>1. TypeOK' /\ UNCHANGED <<shell, key, recFed>>
    BY <1>0, <1>15 DEF UpdateDue, InstallFails, TypeOK, env
  <2>. QED BY <1>0, <2>1, SessionKept
<1>16. CASE InstalledAndRestarted
  <2>1. shell' = [NewShell EXCEPT !.loggedIn = shell.loggedIn]
    BY <1>16 DEF InstalledAndRestarted
  <2>2. shell.loggedIn \in BOOLEAN
    BY <1>0 DEF Shells
  <2>3. Sound(shell') /\ ~Recording(shell')
    BY <2>1, <2>2 DEF NewShell, NoSession, Sound, Shells, Recording, Overlays, Toasts
  <2>4. TypeOK'
    <3>1. mic' \in [on : BOOLEAN, buf : Seq(Sounds)]
          /\ feeder' \in [Presses -> [at : {"off", "asleep", "holding"}, snap : Seq(Sounds)]]
      BY <1>16, EmptyBuffer DEF InstalledAndRestarted, IdleFeeder
    <3>2. count' \in [presses : 0..MaxPresses, restarts : 0..MaxRestarts,
                      logins : 0..MaxLogins]
      <4>1. count' = [count EXCEPT !.restarts = @ + 1]
        BY <1>16 DEF InstalledAndRestarted
      <4>2. count.restarts + 1 \in 0..MaxRestarts
        BY <1>0, <1>16 DEF InstalledAndRestarted, TypeOK
      <4>. QED BY <1>0, <4>1, <4>2 DEF TypeOK
    <3>. QED BY <1>16, <2>3, <3>1, <3>2 DEF InstalledAndRestarted, TypeOK, Sound, NoTimers
  <2>. QED BY <2>3, <2>4 DEF IInv, FedOnce
<1>17. CASE UNCHANGED vars
  <2>1. TypeOK' /\ UNCHANGED <<shell, key, recFed>>
    BY <1>0, <1>17 DEF vars, env, TypeOK
  <2>. QED BY <1>0, <2>1, SessionKept
<1>. QED
  BY <1>1, <1>2, <1>3, <1>4, <1>5, <1>6, <1>7, <1>8, <1>9, <1>10, <1>11, <1>12,
     <1>13, <1>14, <1>15, <1>16, <1>17 DEF Next

(***************************************************************************)
(* The invariant the other theorems rest on.                               *)
(***************************************************************************)
THEOREM Invariance == Spec => []IInv
BY Initiates, Preserves, PTL DEF Spec

-----------------------------------------------------------------------------
(* The properties of the runs.                                              *)

(***************************************************************************)
(* The shell's state is well typed in every behaviour.                     *)
(***************************************************************************)
THEOREM TypeCorrect == Spec => []TypeOK
<1>1. IInv => TypeOK
  BY DEF IInv
<1>. QED BY <1>1, Invariance, PTL

\* A busy line is never hidden and never looks finished.
THEOREM BusyLineIsShown == Spec => []InFlightIsShown
<1>1. IInv => InFlightIsShown
  BY DEF IInv, Sound, InFlightIsShown
<1>. QED BY <1>1, Invariance, PTL

\* A release whose session was closed as silent spawns no sender.
THEOREM SilenceStaysHere == Spec => SilenceIsNotSent
<1>. DEFINE Spawned == \E n \in Presses : job[n] = "none" /\ job'[n] = "spawned"
<1>1. IInv /\ [Next]_vars => (Spawned => shell'.lastStop \in Sent)
  <2>. SUFFICES ASSUME IInv, [Next]_vars, NEW p \in Presses,
                       job[p] = "none", job'[p] = "spawned"
                PROVE  shell'.lastStop \in Sent
    OBVIOUS
  <2>1. job \in [Presses -> {"none", "spawned", "sending", "ended"}]
    BY DEF IInv, TypeOK
  <2>2. CASE KeyReleased
    <3>1. Sound(shell') /\ ~Recording(shell') /\ (job' # job => shell'.inFlight)
      BY <2>2, ReleaseSound DEF IInv
    <3>2. job' # job
      OBVIOUS
    <3>. QED BY <3>1, <3>2 DEF Sound
  <2>3. ASSUME NEW n \in Presses, JobReads(n) \/ JobEnds(n) PROVE FALSE
    <3>1. job[n] # "none"
      BY <2>3 DEF JobReads, JobEnds
    <3>2. job' \in {[job EXCEPT ![n] = "sending"], [job EXCEPT ![n] = "ended"]}
      BY <2>3 DEF JobReads, JobEnds
    <3>. QED BY <2>1, <3>1, <3>2
  <2>4. CASE InstalledAndRestarted
    BY <2>4 DEF InstalledAndRestarted
  <2>5. CASE KeyPressed \/ MicSecond
    BY <2>5 DEF KeyPressed, MicSecond
  <2>6. ASSUME NEW n \in Presses,
               FeederSnapshot(n) \/ FeederPush(n) \/ DogLooks(n) \/ DogBites(n)
        PROVE  FALSE
    BY <2>6 DEF FeederSnapshot, FeederPush, DogLooks, DogBites
  <2>7. CASE FadeLooks \/ DoneLooks \/ TimerDismisses \/ BootAnswered \/ SetLoggedIn
             \/ FeedIsNewer \/ UpdateDue \/ InstallFails \/ UNCHANGED vars
    BY <2>7 DEF FadeLooks, DoneLooks, TimerDismisses, BootAnswered, SetLoggedIn,
                FeedIsNewer, UpdateDue, InstallFails, vars
  <2>. QED BY <2>2, <2>3, <2>4, <2>5, <2>6, <2>7 DEF Next
<1>. QED BY <1>1, Invariance, PTL DEF Spec, SilenceIsNotSent, Sent

\* The open session holds the seconds rec_fed counts, each once.
THEOREM SecondsAreFedOnce == Spec => []FedOnce
<1>1. IInv => FedOnce
  BY DEF IInv
<1>. QED BY <1>1, Invariance, PTL
=============================================================================
