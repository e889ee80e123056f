---------------------------- MODULE SourceArbiter ----------------------------
(***************************************************************************)
(* Who has the screen, and what the usage log says about it (src/app,      *)
(* src/usage_log): `active_source_`, which the callbacks of every receiver *)
(* claim and free with compare_exchange; the source dots; the rows App     *)
(* writes when a device comes and goes; and App::shutdown.                 *)
(*                                                                         *)
(* The AirPlay server's registry is SourcePicker here, which               *)
(* AirPlaySources implements: a device has an RTSP handler and at most one *)
(* mirror handler.  Each change of the registry is followed, with no lock  *)
(* held, by a call of App's sources callback with the list as it was.      *)
(* Miracast has one session.  Android's sessions have their own module and *)
(* only take, use and free the screen here.  Cast shows no pictures: its   *)
(* receiver does not decrypt them yet, and calls no video callback.  Where *)
(* the threads of these two are is asked when the shutdown comes to them.  *)
(***************************************************************************)
EXTENDS Integers, FiniteSets

CONSTANTS
    Devices,    \* iOS devices
    None,       \* active_source_id_ is empty
    MaxSessions \* devices that come, and claims of the screen by Miracast

Setups == {"setup"} \X Devices     \* RTSP handlers
Mirrors == {"mirror"} \X Devices   \* mirror handlers
Threads == Setups \cup Mirrors \cup {<<"ui">>, <<"miracast">>, <<"cast">>, <<"android">>}

\* What a session is filed under: a device, or all of Miracast.
Keys == Devices \cup {"Android"}

Protocols == {"AirPlay", "Miracast", "Android"}

ASSUME DevicesAssumption == None \notin Devices /\ "Android" \notin Devices
ASSUME MaxSessionsAssumption == MaxSessions \in Nat

VARIABLES
    known, streaming, chosen,  \* the AirPlay registry
    source,     \* active_source_
    pc,         \* where each thread is
    after,      \* where it goes after the sources callback
    snapshot,   \* the list it gives that callback
    logged,     \* airplay_logged_sources_
    open,       \* g_open_sessions
    balance,    \* session_start rows less session_end rows
    phase,      \* how far App has come with its shutdown
    closing,    \* sessions close_all_open_sessions has yet to end
    begun,      \* of these, those so far
    stale       \* the user has clicked on the dot of a device that was gone

registryVars == <<known, streaming, chosen>>
threadVars == <<pc, after, snapshot>>
logVars == <<logged, open, balance>>
quitVars == <<phase, closing>>
vars == <<registryVars, source, threadVars, logVars, quitVars, begun, stale>>

AirPlay == INSTANCE SourcePicker

Init ==
    /\ AirPlay!Init
    /\ source = "None"
    /\ pc = [t \in Threads |-> "off"]
    /\ after = [t \in Threads |-> "off"]
    /\ snapshot = [t \in Threads |-> {}]
    /\ logged = {} /\ open = {} /\ balance = [k \in Keys |-> 0]
    /\ phase = "run" /\ closing = {}
    /\ begun = 0
    /\ stale = FALSE

-----------------------------------------------------------------------------
At(t, location) == pc[t] = location
Goto(t, location) == pc' = [pc EXCEPT ![t] = location]

\* Mutant: the thread comes back to where it was.
NotifyBack(t, next) ==
    /\ Goto(t, "tell")
    /\ snapshot' = [snapshot EXCEPT ![t] = known']
    /\ after' = [after EXCEPT ![t] = pc[t]]

\* The thread has changed the registry and is about to tell App, which may
\* take its time; it goes on from there to `next`.
Notify(t, next) ==
    /\ Goto(t, "tell")
    /\ snapshot' = [snapshot EXCEPT ![t] = known']
    /\ after' = [after EXCEPT ![t] = next]

\* compare_exchange_strong of active_source_, for a receiver that has a frame.
Claim(protocol) == source' = IF source = "None" THEN protocol ELSE source

\* A device comes or Miracast claims, as long as the bound lasts.
Begin == begun < MaxSessions /\ begun' = begun + 1

\* The log is not touched, nor the shutdown.
Elsewhere == UNCHANGED <<logVars, quitVars>>

-----------------------------------------------------------------------------
(* The AirPlay server's threads of device d. *)

\* A handler that ends waits, with sources_mutex_ held, for a decoder whose
\* callback waits for that mutex: both wait for ever, and whoever asks for the
\* mutex with them.
Locked == \E d \in Devices : At(<<"mirror", d>>, "stuck")

\* It takes a second connection of the device (AirPlaySources, StopDrains).
Jams(d) ==
    /\ At(<<"mirror", d>>, "live") /\ ~Locked
    /\ Goto(<<"mirror", d>>, "stuck")
    /\ Elsewhere /\ UNCHANGED <<registryVars, source, after, snapshot, begun, stale>>

\* The RTSP handler can take a request; none is read once the server stops,
\* and one at work by then is one that came just before.
Serves(t) == At(t, "off") /\ phase \in {"run", "close"}

\* A SETUP: the device is registered.
Setup(d) ==
    LET t == <<"setup", d>> IN
    /\ Serves(t) /\ ~Locked
    /\ d \notin known => Begin
    /\ d \in known => UNCHANGED begun
    /\ AirPlay!Announce(d)
    /\ Notify(t, "off")
    /\ Elsewhere /\ UNCHANGED <<source, stale>>

\* The mirror connection is accepted.
Connect(d) ==
    LET t == <<"mirror", d>> IN
    /\ At(t, "off") /\ phase \in {"run", "close"} /\ ~Locked
    /\ d \notin known => Begin
    /\ d \in known => UNCHANGED begun
    /\ AirPlay!Stream(d)
    /\ Notify(t, "live")
    /\ Elsewhere /\ UNCHANGED <<source, stale>>

\* A picture, for App only if the device is the chosen one.
Picture(d) ==
    LET t == <<"mirror", d>> IN
    /\ At(t, "live") /\ chosen = d /\ phase \in {"run", "close"} /\ ~Locked
    /\ Goto(t, "claim")
    /\ Elsewhere /\ UNCHANGED <<registryVars, source, after, snapshot, begun, stale>>

\* stream_end: nobody is left, or somebody is.
Ends(d) ==
    LET t == <<"mirror", d>> IN
    /\ At(t, "live") /\ ~Locked
    /\ AirPlay!Drop(d)
    /\ Notify(t, IF known' = {} THEN "bye" ELSE "off")
    /\ Elsewhere /\ UNCHANGED <<source, begun, stale>>


\* ... since the server stops, or since the device has left.
StopsStreaming(d) == phase = "airplay" /\ Ends(d)
Leaves(d) == phase # "airplay" /\ Ends(d)

\* The callback made, its caller takes sources_mutex_ again, and goes on.
GoesOn(t) == Goto(t, IF Locked THEN "stuck" ELSE after[t])

\* Mutant: the callback forgets what it has logged.
TellForgetful(t) ==
    LET started == snapshot[t] \ logged
        ended == logged \ snapshot[t]
    IN  /\ At(t, "tell")
        /\ UNCHANGED logged
        /\ open' = (open \ ended) \cup started
        /\ balance' = [k \in Keys |-> balance[k] + (IF k \in started THEN 1 ELSE 0)
                                                 - (IF k \in ended THEN 1 ELSE 0)]
        /\ GoesOn(t)
        /\ snapshot' = [snapshot EXCEPT ![t] = {}]
        /\ after' = [after EXCEPT ![t] = "off"]
        /\ UNCHANGED <<registryVars, source, quitVars, begun, stale>>

\* The sources callback, under airplay_sources_mutex_: a row for everyone who
\* has come and everyone who has gone, as far as this list knows.
Tell(t) ==
    LET started == snapshot[t] \ logged
        ended == logged \ snapshot[t]
    IN  /\ At(t, "tell")
        /\ logged' = snapshot[t]
        /\ open' = (open \ ended) \cup started
        /\ balance' = [k \in Keys |-> balance[k] + (IF k \in started THEN 1 ELSE 0)
                                                 - (IF k \in ended THEN 1 ELSE 0)]
        /\ GoesOn(t)
        /\ snapshot' = [snapshot EXCEPT ![t] = {}]
        /\ after' = [after EXCEPT ![t] = "off"]
        /\ UNCHANGED <<registryVars, source, quitVars, begun, stale>>

\* App's video callback claims the screen if it is free; it then looks whose
\* it is, and hands the renderer the picture or drops it.
ClaimAirPlay(t) ==
    /\ At(t, "claim")
    /\ Claim("AirPlay")
    /\ stale' = (stale /\ source # "None")
    /\ Goto(t, "live")
    /\ Elsewhere /\ UNCHANGED <<registryVars, after, snapshot, begun>>

\* Mutant: a session that ends leaves the screen as it is.
ByeNothing(t) ==
    /\ Goto(t, "off")
    /\ Elsewhere /\ UNCHANGED <<registryVars, source, after, snapshot, begun, stale>>

\* on_disconnect_: the screen is freed if it is still AirPlay's.
ByeAirPlay(t) ==
    /\ source' = IF source = "AirPlay" THEN "None" ELSE source
    /\ stale' = (stale /\ source # "AirPlay")
    /\ Goto(t, "off")
    /\ Elsewhere /\ UNCHANGED <<registryVars, after, snapshot, begun>>

\* The last stream has ended ...
LastBye(d) == At(<<"mirror", d>>, "bye") /\ ByeAirPlay(<<"mirror", d>>)

\* ... or a request is the TEARDOWN of the whole session, which leaves the
\* registry alone.
Teardown(d) == Serves(<<"setup", d>>) /\ ByeAirPlay(<<"setup", d>>)

-----------------------------------------------------------------------------
(* Miracast's session. *)

Miracast == <<"miracast">>

\* The thread waits for a message of the sender, in the handshake or, from
\* then on, whenever the first byte of one has come.  It waits with no timeout.
Accept ==
    /\ At(Miracast, "off") /\ phase \in {"run", "close", "airplay"}
    /\ Goto(Miracast, "read")
    /\ Elsewhere /\ UNCHANGED <<registryVars, source, after, snapshot, begun, stale>>

MessageBegins ==
    /\ At(Miracast, "live") /\ phase # "miracast"
    /\ Goto(Miracast, "read")
    /\ Elsewhere /\ UNCHANGED <<registryVars, source, after, snapshot, begun, stale>>

\* The sender streams, or goes on streaming.
MessageEnds ==
    /\ At(Miracast, "read")
    /\ Goto(Miracast, "live")
    /\ Elsewhere /\ UNCHANGED <<registryVars, source, after, snapshot, begun, stale>>

\* Decodes a picture, and claims the screen; whoever claims it logs a start.
PictureMiracast ==
    /\ At(Miracast, "live") /\ phase # "miracast"
    /\ source = "None" => Begin
    /\ source # "None" => UNCHANGED begun
    /\ Claim("Miracast")
    /\ Goto(Miracast, IF source = "None" THEN "start" ELSE "live")
    /\ Elsewhere /\ UNCHANGED <<registryVars, after, snapshot, stale>>

LogStart ==
    /\ At(Miracast, "start")
    /\ open' = open \cup {"Android"}
    /\ balance' = [balance EXCEPT !["Android"] = @ + 1]
    /\ Goto(Miracast, "live")
    /\ UNCHANGED <<registryVars, source, after, snapshot, logged, quitVars, begun, stale>>

\* The session ends, with its decoder joined, and frees the screen if it is
\* still its own; whoever frees it logs an end.  A handshake that fails has
\* claimed nothing, and ends the same way.
SessionEnds ==
    /\ source' = IF source = "Miracast" THEN "None" ELSE source
    /\ Goto(Miracast, IF source = "Miracast" THEN "end" ELSE "off")
    /\ Elsewhere /\ UNCHANGED <<registryVars, after, snapshot, begun, stale>>

MiracastStops == phase = "miracast" /\ At(Miracast, "live") /\ SessionEnds
MiracastLeaves ==
    \/ phase # "miracast" /\ At(Miracast, "live") /\ SessionEnds
    \/ At(Miracast, "read") /\ SessionEnds

LogEnd ==
    /\ At(Miracast, "end")
    /\ open' = open \ {"Android"}
    /\ balance' = [balance EXCEPT !["Android"] = @ - 1]
    /\ Goto(Miracast, "off")
    /\ UNCHANGED <<registryVars, source, after, snapshot, logged, quitVars, begun, stale>>

-----------------------------------------------------------------------------
(* Android's sessions, as far as the screen is concerned. *)

OthersKeep == UNCHANGED <<registryVars, threadVars, logVars, quitVars, begun>>

\* A new session, which a thread that connects may bring up at any time, or a
\* click on an Android dot.
AndroidTakes ==
    /\ phase # "done"
    /\ source' = "Android" /\ stale' = FALSE
    /\ OthersKeep

\* The last session has gone.
AndroidFrees ==
    /\ source = "Android"
    /\ source' = "None"
    /\ OthersKeep /\ UNCHANGED stale

-----------------------------------------------------------------------------
(* The UI thread: Renderer::run, and then App::shutdown. *)

Ui == <<"ui">>
UiRuns == phase = "run" /\ At(Ui, "off")
UiKeeps == UNCHANGED <<after, snapshot, logVars, quitVars, begun>>

\* A click on a dot, laid out before, gives AirPlay the screen before it asks
\* for the device, which may have gone.
Select(d) ==
    /\ UiRuns
    /\ begun > 0
    /\ source' = "AirPlay"
    /\ stale' = (known = {})
    /\ Goto(Ui, d)
    /\ UiKeeps /\ UNCHANGED <<registryVars>>

\* set_active_source
Choose(d) ==
    /\ At(Ui, d) /\ ~Locked /\ d \in known /\ chosen # d
    /\ AirPlay!Choose(d)
    /\ Notify(Ui, "off")
    /\ Elsewhere /\ UNCHANGED <<source, begun, stale>>

ChooseNothing(d) ==
    /\ At(Ui, d) /\ ~Locked /\ (d \notin known \/ chosen = d)
    /\ Goto(Ui, "off")
    /\ UiKeeps /\ UNCHANGED <<registryVars, source, stale>>

Cast == <<"cast">>
Android == <<"android">>

QuitKeeps == UNCHANGED <<registryVars, source, after, snapshot, logged, begun, stale>>
StopKeeps == QuitKeeps /\ UNCHANGED <<open, balance, closing>>

\* The window is closed; shutdown looks which sessions are open ...
Quit ==
    /\ UiRuns
    /\ phase' = "close" /\ closing' = open
    /\ QuitKeeps /\ UNCHANGED <<pc, open, balance>>

\* ... ends each, open or not by now ...
CloseSession(k) ==
    /\ phase = "close"
    /\ k \in closing
    /\ closing' = closing \ {k}
    /\ open' = open \ {k}
    /\ balance' = [balance EXCEPT ![k] = @ - 1]
    /\ QuitKeeps /\ UNCHANGED <<pc, phase>>

\* ... writes app_stop, and stops AirPlay, whose threads are joined ...
StopAirPlay ==
    /\ phase = "close" /\ closing = {}
    /\ phase' = "airplay"
    /\ StopKeeps /\ UNCHANGED pc

\* ... then Miracast ...
StopMiracast ==
    /\ phase = "airplay"
    /\ \A t \in Setups \cup Mirrors : At(t, "off")
    /\ phase' = "miracast"
    /\ StopKeeps /\ UNCHANGED pc

\* ... then Cast, which has no sender, or one whose connection it closes, or one
\* it has accepted too late to be closed ...
StopCast ==
    /\ phase = "miracast" /\ At(Miracast, "off")
    /\ phase' = "cast"
    /\ \E where \in {"off", "live", "late"} : Goto(Cast, where)
    /\ StopKeeps

CastEnds ==
    /\ phase = "cast" /\ At(Cast, "live")
    /\ Goto(Cast, "off")
    /\ StopKeeps /\ UNCHANGED phase

\* The late one is served until it leaves.
CastLeaves ==
    /\ phase = "cast" /\ At(Cast, "late")
    /\ Goto(Cast, "off")
    /\ StopKeeps /\ UNCHANGED phase

\* ... then Android's sessions, each of which closes its socket and joins its
\* worker: one that streams, or one that waits for scrcpy_mutex_, which a thread
\* that joins it, to replace it, does not give back (AndroidSessions, MutexReleased).
StopAndroid ==
    /\ phase = "cast" /\ At(Cast, "off")
    /\ phase' = "android"
    /\ \E where \in {"off", "live", "stuck"} : Goto(Android, where)
    /\ StopKeeps

AndroidEnds ==
    /\ phase = "android" /\ At(Android, "live")
    /\ Goto(Android, "off")
    /\ StopKeeps /\ UNCHANGED phase

\* No receiver is left; the sound and the window come next.
ShutdownDone ==
    /\ phase = "android" /\ At(Android, "off")
    /\ phase' = "done"
    /\ StopKeeps /\ UNCHANGED pc

-----------------------------------------------------------------------------
\* What a thread does of its own accord.
AirPlayStep(d) ==
    \/ Tell(<<"setup", d>>) \/ Tell(<<"mirror", d>>)
    \/ ClaimAirPlay(<<"mirror", d>>)
    \/ StopsStreaming(d) \/ LastBye(d)
MiracastStep == LogStart \/ MiracastStops \/ LogEnd
ShutdownStep ==
    \/ (\E k \in Keys : CloseSession(k))
    \/ StopAirPlay \/ StopMiracast
    \/ StopCast \/ CastEnds \/ StopAndroid \/ AndroidEnds \/ ShutdownDone

\* What takes a device or the user to happen.
Event(d) ==
    \/ Setup(d) \/ Teardown(d) \/ Connect(d) \/ Picture(d)
    \/ Leaves(d) \/ Jams(d) \/ Select(d)

Next ==
    \/ \E d \in Devices : AirPlayStep(d) \/ Event(d) \/ Choose(d) \/ ChooseNothing(d)
    \/ Accept \/ MessageBegins \/ MessageEnds \/ PictureMiracast \/ MiracastLeaves \/ MiracastStep
    \/ AndroidTakes \/ AndroidFrees \/ CastLeaves
    \/ Tell(Ui) \/ Quit \/ ShutdownStep

Spec == Init /\ [][Next]_vars

\* Threads run when they can; devices and the user do as they like.
FairSpec ==
    /\ Spec
    /\ \A d \in Devices : WF_vars(AirPlayStep(d))
    /\ WF_vars(MiracastStep)
    /\ WF_vars(ShutdownStep)

-----------------------------------------------------------------------------
(* Properties *)

TypeOK ==
    /\ AirPlay!TypeOK
    /\ source \in {"None"} \cup Protocols
    /\ pc \in [Threads -> {"off", "tell", "live", "claim", "read", "start", "bye", "end",
                       "late", "stuck"} \cup Devices]
    /\ after \in [Threads -> {"off", "live", "bye"}]
    /\ snapshot \in [Threads -> SUBSET Devices]
    /\ logged \subseteq Devices
    /\ open \subseteq Keys
    /\ balance \in [Keys -> Int]
    /\ stale \in BOOLEAN
    /\ phase \in {"run", "close", "airplay", "miracast", "cast", "android", "done"}
    /\ closing \subseteq Keys
    /\ begun \in 0 .. MaxSessions

Quiet == \A t \in Threads : At(t, "off") \/ At(t, "live")

\* Once everything has settled, a protocol that has the screen has a session
\* that can give it back: no claim outlives its owner, whatever a frame that
\* comes late, a TEARDOWN, a click and the end of a stream do to each other.
\* (A click on the dot of a device that is gone takes it for nobody.)
ScreenReleased ==
    (Quiet /\ ~stale) =>
        /\ source = "AirPlay" => known # {}
        /\ source = "Miracast" => At(Miracast, "live")

\* Until the shutdown the log and App agree who is mirroring: a device's rows
\* alternate, and the session is open exactly between a start and its end,
\* though lists may reach the callback out of order.
RowsAlternate ==
    phase = "run" =>
        \A d \in Devices : /\ balance[d] = IF d \in logged THEN 1 ELSE 0
                           /\ d \in open <=> d \in logged

\* The four waits that nobody need end: for AirPlay's handlers that wait for each
\* other; for a Miracast sender that stays silent within a message, whose socket
\* stop() closes only after it has joined the thread that reads it; for a Cast
\* sender that was accepted as stop() closed the one before; and for an Android
\* worker that somebody joins with the mutex it waits for.
Waits ==
    \/ phase = "airplay" /\ Locked
    \/ phase = "miracast" /\ At(Miracast, "read")
    \/ phase = "cast" /\ At(Cast, "late")
    \/ phase = "android" /\ At(Android, "stuck")


(* What the code intends and does not keep on every path; see the README.   *)

\* A session_start in the log has a session_end once the program has ended.
LogBalanced == phase = "done" => \A k \in Keys : balance[k] = 0

\* A shutdown that has begun ends, if nothing asks for the watchdog (app.cpp:631).
ShutdownAlwaysEnds == phase = "close" ~> phase = "done"

\* A claim has an owner, on whatever dot the user clicks (a click stores AirPlay
\* before it asks for the device, app.cpp:238).
AlwaysReleased == Quiet /\ source = "AirPlay" => known # {}

\* When the callbacks have all been made the log knows who is registered.
LogCurrent == (Quiet /\ phase = "run") => logged = known

\* AirPlay keeps the screen for a device that streams.
ScreenStreams == (Quiet /\ ~stale /\ source = "AirPlay") => streaming # {}
=============================================================================
