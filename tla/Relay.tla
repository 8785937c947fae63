------------------------------- MODULE Relay -------------------------------
(***************************************************************************)
(* The way of a dictation from the key release to what the member reads:   *)
(* the sender threads of the shell (spawn_transcribe in tauri_app.rs,      *)
(* transcribe.rs, net.rs), the handler of the broker that answers them     *)
(* under its mutex, and the speech worker it calls (ev-worker).            *)
(*                                                                         *)
(* Every sending has a request id of its own and is never repeated.  What  *)
(* the ledger and the panel do with a fee is in modules Ledger and Broker; *)
(* here a dictation is charged or not.                                     *)
(***************************************************************************)
CONSTANTS Dictations,  \* key releases, each with its own sound
          Nothing      \* no sound, no dictation: not one of Dictations

VARIABLES lastPcm,   \* AppState::last_pcm: whose sound it holds
          sender,    \* sender[d]: where the thread of d is
          sound,     \* sound[d]: whose sound that thread sends
          request,   \* request[d]: what the broker does with its request
          holder,    \* whose handler holds the mutex of the broker
          charged,   \* the dictations a fee was settled for
          told       \* told[d]: what the member was told of d

relayVars == <<lastPcm, sender, sound, request, holder, charged, told>>

\* What the member is told when a request ends with no text: the broker's
\* refusal or the connection that failed in words, and with all of them that
\* there is no fee (friendly_broker_error; any other code and every broken
\* connection come to its last case).
NoFee == "no fee"

\* The thread of d has told the member m and ends.
Tells(d, m) ==
  /\ told' = [told EXCEPT ![d] = m]
  /\ sender' = [sender EXCEPT ![d] = "ended"]

-----------------------------------------------------------------------------
(* The shell.                                                              *)

\* mic_feed at the key release, and the thread the release starts.
Release(d) ==
  /\ sender[d] = "none"
  /\ lastPcm' = d
  /\ sender' = [sender EXCEPT ![d] = "started"]
  /\ UNCHANGED <<sound, request, holder, charged, told>>

\* The thread gets to run and copies the sound that is there by then.  (One
\* that finds it empty only clears the line: module Flow.)
Copies(d) ==
  /\ sender[d] = "started"
  /\ sound' = [sound EXCEPT ![d] = lastPcm]
  /\ sender' = [sender EXCEPT ![d] = "probing"]
  /\ UNCHANGED <<lastPcm, request, holder, charged, told>>

Goes(d, from, to) ==
  /\ sender[d] = from
  /\ sender' = [sender EXCEPT ![d] = to]
  /\ UNCHANGED <<lastPcm, sound, request, holder, charged, told>>

\* wl_up asks whether there is a local server.
LocalUp(d) == Goes(d, "probing", "local")
LocalDown(d) == Goes(d, "probing", "relay")

\* It gets the sound as a file in a form; its text is free.
LocalText(d) ==
  /\ sender[d] = "local"
  /\ Tells(d, "text")
  /\ UNCHANGED <<lastPcm, sound, request, holder, charged>>

\* It fails, or its answer has no text.
LocalNothing(d) == Goes(d, "local", "relay")

\* broker_transcribe without a login,
NotLoggedIn(d) ==
  /\ sender[d] = "relay"
  /\ Tells(d, "log in")
  /\ UNCHANGED <<lastPcm, sound, request, holder, charged>>

\* or with one: the request goes out under a new id.
Sends(d) ==
  /\ sender[d] = "relay"
  /\ sender' = [sender EXCEPT ![d] = "asking"]
  /\ request' = [request EXCEPT ![d] = "arrived"]
  /\ UNCHANGED <<lastPcm, sound, holder, charged, told>>

\* API_TIMEOUT, or the connection breaks.  The broker is not told.
GivesUp(d) ==
  /\ sender[d] = "asking"
  /\ Tells(d, NoFee)
  /\ UNCHANGED <<lastPcm, sound, request, holder, charged>>

\* The answer arrives: a text with its price, or a refusal.
Reads(d) ==
  /\ sender[d] = "asking"
  /\ request[d] \in {"text", "refused"}
  /\ Tells(d, IF request[d] = "text" THEN "text" ELSE NoFee)
  /\ UNCHANGED <<lastPcm, sound, request, holder, charged>>

-----------------------------------------------------------------------------
(* The broker and the worker.                                              *)

\* dispatch_inner takes the mutex of the broker.
Takes(d) ==
  /\ holder = Nothing
  /\ request[d] = "arrived"
  /\ holder' = d
  /\ UNCHANGED <<lastPcm, sender, sound, request, charged, told>>

\* Past every check, the hold is placed and the worker called; the handler
\* keeps the mutex.
CallsWorker(d) ==
  /\ holder = d
  /\ request[d] = "arrived"
  /\ request' = [request EXCEPT ![d] = "held"]
  /\ UNCHANGED <<lastPcm, sender, sound, holder, charged, told>>

Answers(d, at, answer) ==
  /\ holder = d
  /\ request[d] = at
  /\ holder' = Nothing
  /\ request' = [request EXCEPT ![d] = answer]

\* auth, ledger, gate or panel refuse.
Refuses(d) ==
  /\ Answers(d, "arrived", "refused")
  /\ UNCHANGED <<lastPcm, sender, sound, charged, told>>

\* WlBackend::run has a text, however long it took: the fee is settled, the
\* text kept under the request id, the answer written to whoever is there.
WorkerText(d) ==
  /\ Answers(d, "held", "text")
  /\ charged' = charged \cup {d}
  /\ UNCHANGED <<lastPcm, sender, sound, told>>

\* It has an empty one, after any failure or none: the hold is given back.
WorkerNothing(d) ==
  /\ Answers(d, "held", "refused")
  /\ UNCHANGED <<lastPcm, sender, sound, charged, told>>

-----------------------------------------------------------------------------

RelayInit ==
  /\ lastPcm = Nothing
  /\ sender = [d \in Dictations |-> "none"]
  /\ sound = [d \in Dictations |-> Nothing]
  /\ request = [d \in Dictations |-> "none"]
  /\ holder = Nothing
  /\ charged = {}
  /\ told = [d \in Dictations |-> "none"]

RelayNext ==
  \E d \in Dictations :
    \/ Release(d)
    \/ Copies(d)
    \/ LocalUp(d)
    \/ LocalDown(d)
    \/ LocalText(d)
    \/ LocalNothing(d)
    \/ NotLoggedIn(d)
    \/ Sends(d)
    \/ GivesUp(d)
    \/ Reads(d)
    \/ Takes(d)
    \/ CallsWorker(d)
    \/ Refuses(d)
    \/ WorkerText(d)
    \/ WorkerNothing(d)

RelaySpec == RelayInit /\ [][RelayNext]_relayVars

-----------------------------------------------------------------------------
(* Properties.                                                             *)

\* A dictation the member was told is free was not charged (the sentences
\* of friendly_broker_error).
FreeMeansFree == \A d \in Dictations : told[d] = NoFee => d \notin charged
=============================================================================
