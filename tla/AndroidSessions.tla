--------------------------- MODULE AndroidSessions ---------------------------
(***************************************************************************)
(* Android phones (src/android/android_dialog, src/android/scrcpy_receiver *)
(* and App's wiring of them): `scrcpy_sessions_` and                       *)
(* `active_android_serial_`, both under `scrcpy_mutex_`, `active_source_`, *)
(* and every thread that touches them:                                     *)
(*                                                                         *)
(*   - one worker per receiver (worker_ and the callbacks it makes),       *)
(*   - the threads the pairing panel starts (android_pair_and_connect),    *)
(*   - the detached threads that disconnect phones (android_disconnect),   *)
(*     which the UI starts and every worker starts at its end,             *)
(*   - the UI thread, which lays the source dots out and handles clicks.   *)
(*                                                                         *)
(* A critical section of scrcpy_mutex_ is one step, except the one that    *)
(* replaces a session: it stops receivers, and so joins their workers,     *)
(* with the mutex held.                                                    *)
(*                                                                         *)
(* A phone is its adb serial: it keeps its connect port.  adb and the      *)
(* phone may refuse anything; the tunnels they keep are not modelled, nor  *)
(* is what the threads write to the usage log or ask of the renderer.  The *)
(* other protocols share active_source_ and are "Other" here.              *)
(***************************************************************************)
EXTENDS Naturals, Sequences, FiniteSets, SequencesExt

CONSTANTS
    Phones,      \* serials
    NoPhone,     \* the empty serial
    Slots,       \* the ScrcpyReceivers that may exist at a time
    Connectors,  \* the panel's threads
    Clicks,      \* disconnect threads of the UI
    Nobody       \* holds a free mutex

\* A receiver's worker starts one disconnect thread, named for the receiver.
Droppers == Slots \cup Clicks
Threads == Connectors \cup Droppers

ASSUME PhonesAssumption == NoPhone \notin Phones
ASSUME ThreadsAssumption ==
    /\ Connectors \cap Droppers = {}
    /\ Slots \cap Clicks = {}
    /\ Nobody \notin Connectors \cup Slots

VARIABLES
    sessions,   \* scrcpy_sessions_
    active,     \* active_android_serial_
    source,     \* active_source_
    mutex,      \* who keeps scrcpy_mutex_ across steps
    phone,      \* cfg_.device_serial of a receiver; NoPhone if there is none
    running,    \* receivers whose running_ is set
    worker,     \* where a receiver's worker is; "none" if not joinable
    pc,         \* where each thread is
    target,     \* serial (connectors, droppers); NoPhone drops all
    todo,       \* receivers the thread has yet to stop
    gone,       \* serials of `stopped`
    building,   \* the receiver a connector has started and not listed yet
    dots,       \* the Android dots of source_btns_
    choosing,   \* the UI thread is between the two halves of a selection
    excuse      \* why active_android_serial_ may be of a phone that is gone

receiverVars == <<phone, running, worker>>
threadVars == <<pc, target, todo, gone, building>>
uiVars == <<dots, choosing>>
vars == <<sessions, active, source, mutex, receiverVars, threadVars, uiVars, excuse>>

Init ==
    /\ sessions = <<>>
    /\ active = NoPhone
    /\ source = "None"
    /\ mutex = Nobody
    /\ phone = [s \in Slots |-> NoPhone]
    /\ running = {}
    /\ worker = [s \in Slots |-> "none"]
    /\ pc = [t \in Threads |-> "off"]
    /\ target = [t \in Threads |-> NoPhone]
    /\ todo = [t \in Threads |-> <<>>]
    /\ gone = [d \in Droppers |-> {}]
    /\ building = [c \in Connectors |-> Nobody]
    /\ dots = {}
    /\ choosing = FALSE
    /\ excuse = "none"

-----------------------------------------------------------------------------
At(t, location) == pc[t] = location
Goto(t, location) == pc' = [pc EXCEPT ![t] = location]
MutexFree == mutex = Nobody

\* The thread ends.
Returns(t) == Goto(t, "off") /\ target' = [target EXCEPT ![t] = NoPhone]

\* The listed receivers of a serial, and the others.
Matching(p) == {s \in ToSet(sessions) : p = NoPhone \/ phone[s] = p}
Others(p) == ToSet(sessions) \ Matching(p)

\* A part of the list, in the list's order.  There is one such sequence.
PlaceOf(s) == CHOOSE i \in DOMAIN sessions : sessions[i] = s
InOrder(S) ==
    {t \in [1..Cardinality(S) -> S] :
        /\ ToSet(t) = S
        /\ \A i, j \in DOMAIN t : i < j => PlaceOf(t[i]) < PlaceOf(t[j])}

Listed == {phone[s] : s \in ToSet(sessions)}

\* active_source_ becomes ours only if nothing else is shown.
ClaimedBy(kind) == source' = IF source = "None" THEN kind ELSE source

\* A receiver may be made of s: no other is left of it, nor of its thread.
Free(s) == phone[s] = NoPhone /\ At(s, "off")

-----------------------------------------------------------------------------
(* The worker of receiver s: worker_, the video callback that              *)
(* start_android_session_ gives it, and the disconnect callback.           *)

Works(s, from, to) ==
    /\ worker[s] = from
    /\ worker' = [worker EXCEPT ![s] = to]

WorkerKeeps == UNCHANGED <<sessions, mutex, phone, running, uiVars>>

\* A frame arrives and is decoded.
WorkerReads(s) ==
    /\ s \in running
    /\ Works(s, "read", "claim")
    /\ WorkerKeeps /\ UNCHANGED <<active, source, threadVars, excuse>>

Claim(s) ==
    /\ Works(s, "claim", IF source = "None" THEN "adopt" ELSE "check")
    /\ ClaimedBy("Android")
    /\ WorkerKeeps /\ UNCHANGED <<active, threadVars, excuse>>

Adopt(s) ==
    /\ MutexFree
    /\ Works(s, "adopt", "check")
    /\ active' = IF active = NoPhone THEN phone[s] ELSE active
    /\ excuse' = IF active = NoPhone THEN "none" ELSE excuse
    /\ WorkerKeeps /\ UNCHANGED <<source, threadVars>>

\* Only the active phone's frames go on to Submit, which looks at
\* active_source_ once more; so ends the callback.
CheckActive(s) ==
    /\ MutexFree
    /\ Works(s, "check", IF active = phone[s] THEN "submit" ELSE "read")
    /\ WorkerKeeps /\ UNCHANGED <<active, source, threadVars, excuse>>

Submit(s) ==
    /\ Works(s, "submit", "read")
    /\ WorkerKeeps /\ UNCHANGED <<active, source, threadVars, excuse>>

\* The stream ends: on_disconnect_ starts a thread to drop the session.
StreamEnds(s) ==
    /\ Works(s, "read", "done")
    /\ Goto(s, "take")
    /\ target' = [target EXCEPT ![s] = phone[s]]
    /\ WorkerKeeps /\ UNCHANGED <<active, source, todo, gone, building, excuse>>

\* ... because stop() has shut the socket down, or because the phone left.
WorkerStops(s) == s \notin running /\ StreamEnds(s)
PhoneLeaves(s) == s \in running /\ StreamEnds(s)

-----------------------------------------------------------------------------
(* ScrcpyReceiver::stop, of each receiver in todo[t].                      *)

StopBegin(t) ==
    /\ At(t, "stop")
    /\ running' = running \ {Head(todo[t])}
    /\ Goto(t, "join")
    /\ UNCHANGED <<sessions, active, source, mutex, phone, worker, target, todo, gone,
                   building, uiVars, excuse>>

\* Mutant: the worker is not waited for.
StopEndAtOnce(t) ==
    LET s == Head(todo[t]) IN
    /\ At(t, "join")
    /\ todo' = [todo EXCEPT ![t] = Tail(@)]
    /\ UNCHANGED worker
    /\ Goto(t, IF Len(todo[t]) > 1 THEN "stop"
               ELSE IF t \in Connectors THEN "erase" ELSE "settle")
    /\ IF t \in Droppers
       THEN /\ gone' = [gone EXCEPT ![t] = @ \cup {phone[s]}]
            /\ phone' = [phone EXCEPT ![s] = NoPhone]
       ELSE UNCHANGED <<gone, phone>>
    /\ UNCHANGED <<sessions, active, source, mutex, running, target, building, uiVars, excuse>>

\* The worker has ended and is joined.  android_disconnect owns the receiver
\* and destroys it; a replacement leaves it in the list for now.
StopEnd(t) ==
    LET s == Head(todo[t]) IN
    /\ At(t, "join")
    /\ worker[s] = "done"
    /\ worker' = [worker EXCEPT ![s] = "none"]
    /\ todo' = [todo EXCEPT ![t] = Tail(@)]
    /\ Goto(t, IF Len(todo[t]) > 1 THEN "stop"
               ELSE IF t \in Connectors THEN "erase" ELSE "settle")
    /\ IF t \in Droppers
       THEN /\ gone' = [gone EXCEPT ![t] = @ \cup {phone[s]}]
            /\ phone' = [phone EXCEPT ![s] = NoPhone]
       ELSE UNCHANGED <<gone, phone>>
    /\ UNCHANGED <<sessions, active, source, mutex, running, target, building, uiVars, excuse>>

-----------------------------------------------------------------------------
(* android_pair_and_connect. *)

\* The panel's Connect button, or its Enter key.
Connect(c, p) ==
    /\ At(c, "off")
    /\ target' = [target EXCEPT ![c] = p]
    /\ Goto(c, "replace")
    /\ UNCHANGED <<sessions, active, source, mutex, receiverVars, todo, gone, building,
                   uiVars, excuse>>

\* Sessions of that phone are stopped, under the mutex.
Replace(c) ==
    LET old == Matching(target[c]) IN
    /\ At(c, "replace")
    /\ MutexFree
    /\ \E stopped \in InOrder(old) : todo' = [todo EXCEPT ![c] = stopped]
    /\ mutex' = IF old = {} THEN Nobody ELSE c
    /\ Goto(c, IF old = {} THEN "pair" ELSE "stop")
    /\ UNCHANGED <<sessions, active, source, receiverVars, target, gone, building,
                   uiVars, excuse>>

\* ... and erased, and the mutex is released.
EraseReplaced(c) ==
    /\ At(c, "erase")
    /\ phone' = [s \in Slots |-> IF s \in Matching(target[c]) THEN NoPhone ELSE phone[s]]
    /\ sessions' \in InOrder(Others(target[c]))
    /\ mutex' = Nobody
    /\ excuse' = IF target[c] = active THEN "replaced" ELSE excuse
    /\ Goto(c, "pair")
    /\ UNCHANGED <<active, source, running, worker, target, todo, gone, building,
                   uiVars>>

\* Pairing, connecting or starting the receiver fails.
ConnectFails(c) ==
    /\ At(c, "pair")
    /\ Returns(c)
    /\ UNCHANGED <<sessions, active, source, mutex, receiverVars, todo, gone,
                   building, uiVars, excuse>>

\* ScrcpyReceiver::start: the phone connects back and a worker reads from it,
\* before anybody has listed the session.
StartReceiver(c, s) ==
    /\ At(c, "pair")
    /\ MutexFree    \* pick_local_port
    /\ Free(s)
    /\ phone' = [phone EXCEPT ![s] = target[c]]
    /\ running' = running \cup {s}
    /\ worker' = [worker EXCEPT ![s] = "read"]
    /\ building' = [building EXCEPT ![c] = s]
    /\ Goto(c, "push")
    /\ UNCHANGED <<sessions, active, source, mutex, target, todo, gone, uiVars, excuse>>

\* The model name has been asked for; the session is listed and made active.
PushSession(c) ==
    /\ At(c, "push")
    /\ MutexFree
    /\ active' = target[c]
    /\ excuse' = "none"
    /\ sessions' = Append(sessions, building[c])
    /\ building' = [building EXCEPT ![c] = Nobody]
    /\ Goto(c, "store")
    /\ UNCHANGED <<source, mutex, receiverVars, target, todo, gone, uiVars>>

StoreSource(c) ==
    /\ At(c, "store")
    /\ source' = "Android"
    /\ Returns(c)
    /\ UNCHANGED <<sessions, active, mutex, receiverVars, todo, gone, building, uiVars, excuse>>

-----------------------------------------------------------------------------
(* android_disconnect. *)

\* Mutant: the receivers are stopped with the mutex held.
DropTakeLocked(d) ==
    LET taken == Matching(target[d]) IN
    /\ At(d, "take")
    /\ MutexFree
    /\ sessions' \in InOrder(Others(target[d]))
    /\ \E stopped \in InOrder(taken) : todo' = [todo EXCEPT ![d] = stopped]
    /\ mutex' = IF taken = {} THEN Nobody ELSE d
    /\ Goto(d, IF taken = {} THEN "settle" ELSE "stop")
    /\ UNCHANGED <<active, source, receiverVars, target, gone, building, uiVars, excuse>>

\* Takes the sessions out of the list.
DropTake(d) ==
    LET taken == Matching(target[d]) IN
    /\ At(d, "take")
    /\ MutexFree
    /\ sessions' \in InOrder(Others(target[d]))
    /\ \E stopped \in InOrder(taken) : todo' = [todo EXCEPT ![d] = stopped]
    /\ Goto(d, IF taken = {} THEN "settle" ELSE "stop")
    /\ UNCHANGED <<active, source, mutex, receiverVars, target, gone, building,
                   uiVars, excuse>>

\* Mutant: the screen is only freed when nobody is left.
ActiveGoneIfLast(d) == sessions = <<>>

ActiveGone(d) == active = NoPhone \/ active \in gone[d]

\* The last session takes over, or the waiting screen.
Fallback == IF sessions = <<>> THEN NoPhone ELSE phone[Last(sessions)]

Settle(d) ==
    /\ At(d, "settle")
    /\ MutexFree
    /\ active' = IF ActiveGone(d) THEN Fallback ELSE active
    /\ excuse' = IF ActiveGone(d) THEN "none" ELSE excuse
    /\ source' = IF sessions = <<>> /\ source = "Android" THEN "None" ELSE source
    /\ gone' = [gone EXCEPT ![d] = {}]
    /\ Returns(d)
    /\ UNCHANGED <<sessions, mutex, receiverVars, todo, building, uiVars>>

-----------------------------------------------------------------------------
(* The UI thread. *)

UiKeeps == UNCHANGED <<sessions, mutex, receiverVars, todo, gone, building>>

Draw ==
    /\ ~choosing
    /\ MutexFree
    /\ dots' = Listed
    /\ UiKeeps /\ UNCHANGED <<active, source, pc, target, choosing, excuse>>

\* A click on a dot that was there when the dots were last laid out.
Select(p) ==
    /\ ~choosing
    /\ p \in dots
    /\ MutexFree
    /\ active' = p
    /\ excuse' = "click"
    /\ choosing' = TRUE
    /\ UiKeeps /\ UNCHANGED <<source, pc, target, dots>>

Selected ==
    /\ choosing
    /\ source' = "Android"
    /\ choosing' = FALSE
    /\ UiKeeps /\ UNCHANGED <<active, pc, target, dots, excuse>>

\* "Disconnect" in a dot's menu, or in the panel, which drops every phone.
Disconnect(d, p) ==
    /\ ~choosing
    /\ At(d, "off")
    /\ p \in dots \cup {NoPhone}
    /\ target' = [target EXCEPT ![d] = p]
    /\ Goto(d, "take")
    /\ UiKeeps /\ UNCHANGED <<active, source, uiVars, excuse>>

(* The other protocols: a frame, the end of the last stream, a selection.  *)
OtherFrame ==
    /\ source = "None"
    /\ ClaimedBy("Other")
    /\ UiKeeps /\ UNCHANGED <<active, pc, target, uiVars, excuse>>

OtherEnds ==
    /\ source = "Other"
    /\ source' = "None"
    /\ UiKeeps /\ UNCHANGED <<active, pc, target, uiVars, excuse>>

SelectOther ==
    /\ ~choosing
    /\ source' = "Other"
    /\ UiKeeps /\ UNCHANGED <<active, pc, target, uiVars, excuse>>

-----------------------------------------------------------------------------
WorkerStep(s) == Claim(s) \/ Adopt(s) \/ CheckActive(s) \/ Submit(s) \/ WorkerStops(s)
DropStep(d) == DropTake(d) \/ StopBegin(d) \/ StopEnd(d) \/ Settle(d)
ReplaceStep(c) == Replace(c) \/ StopBegin(c) \/ StopEnd(c) \/ EraseReplaced(c)

ConnectStep(c) ==
    \/ ReplaceStep(c) \/ ConnectFails(c) \/ PushSession(c) \/ StoreSource(c)
    \/ (\E p \in Phones : Connect(c, p))
    \/ (\E s \in Slots : StartReceiver(c, s))

UiStep ==
    \/ Draw \/ Selected \/ SelectOther
    \/ (\E p \in Phones : Select(p))
    \/ (\E d \in Clicks, p \in Phones \cup {NoPhone} : Disconnect(d, p))

Next ==
    \/ \E s \in Slots : WorkerReads(s) \/ PhoneLeaves(s) \/ WorkerStep(s)
    \/ \E c \in Connectors : ConnectStep(c)
    \/ \E d \in Droppers : DropStep(d)
    \/ UiStep \/ OtherFrame \/ OtherEnds

Spec == Init /\ [][Next]_vars

\* Threads run when they can, and adb answers; phones and users do as they
\* like.
FairSpec ==
    /\ Spec
    /\ \A s \in Slots : WF_vars(WorkerStep(s))
    /\ \A d \in Droppers : WF_vars(DropStep(d))
    /\ \A c \in Connectors : WF_vars(ReplaceStep(c))

-----------------------------------------------------------------------------
(* Properties *)

TypeOK ==
    /\ sessions \in Seq(Slots) /\ IsInjective(sessions)
    /\ active \in Phones \cup {NoPhone}
    /\ source \in {"None", "Android", "Other"}
    /\ mutex \in Connectors \cup {Nobody}
    /\ phone \in [Slots -> Phones \cup {NoPhone}]
    /\ running \subseteq Slots
    /\ worker \in [Slots -> {"none", "read", "claim", "adopt", "check", "submit", "done"}]
    /\ pc \in [Threads -> {"off", "replace", "erase", "pair", "push", "store",
                           "take", "stop", "join", "settle"}]
    /\ target \in [Threads -> Phones \cup {NoPhone}]
    /\ todo \in [Threads -> Seq(Slots)]
    /\ gone \in [Droppers -> SUBSET Phones]
    /\ building \in [Connectors -> Slots \cup {Nobody}]
    /\ dots \subseteq Phones
    /\ choosing \in BOOLEAN
    /\ excuse \in {"none", "click", "replaced"}

\* No receiver is destroyed, or taken for a new phone, before its worker has
\* been joined, whoever of the UI, its own worker and a replacement drops it.
ReceiversJoined == \A s \in Slots : phone[s] = NoPhone => worker[s] = "none"

\* Nobody is between two steps of a callback, a connection or a disconnect.
Quiet ==
    /\ \A t \in Threads : At(t, "off")
    /\ \A s \in Slots : worker[s] \in {"none", "read", "done"}
    /\ ~choosing

\* Once everything has settled the active phone is one with a session, unless
\* the user has clicked on a dot whose phone was gone or a replacement erased
\* the session.
ActiveListed == (Quiet /\ excuse = "none") => active \in Listed \cup {NoPhone}

\* Whoever stops receivers under the mutex gives it back: the UI thread takes
\* it for every frame it draws.
MutexReleased == mutex # Nobody ~> mutex = Nobody

(* What the code intends and does not keep on every path; see the README.   *)

\* The same whatever the user clicks on, and whichever replacement fails.
ActiveAlwaysListed == Quiet => active \in Listed \cup {NoPhone}

\* When phones are mirroring and the screen is Android's, one of them is on it,
\* as long as the user has not clicked on a dot that was stale.
SomePhoneShown ==
    (Quiet /\ source = "Android" /\ sessions # <<>> /\ excuse # "click") => active \in Listed
=============================================================================
