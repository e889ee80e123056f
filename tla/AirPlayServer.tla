--------------------------- MODULE AirPlayServer ---------------------------
(***************************************************************************)
(* The life of an AirPlayServer: start(), which brings up the control      *)
(* server, the mirror, event and timing listeners and the mDNS service one *)
(* after another, any of which may fail, and stop(), which App::shutdown() *)
(* and the destructor both call (airplay_server.cpp:151-313, 984-1148,     *)
(* mdns_service.cpp:466-676).                                              *)
(*                                                                         *)
(* The control and mirror servers are RtspServer and AirPlaySources; here  *)
(* they are on or off, and some handler of theirs may have come to wait    *)
(* for ever.  A thread is none, running, ended or joined; what it polls is *)
(* running_, or a socket that another thread closes.                       *)
(***************************************************************************)
EXTENDS Naturals

CONSTANTS
    Drainers, \* event connections, each with its thread
    MaxAudio  \* audio threads at once

VARIABLES
    phase,     \* where the main thread is in start(), stop() and after
    running,   \* running_
    stopped,   \* stopped_
    rtsp,      \* the control server accepts
    thread,    \* mirror_thread_, event_thread_, timing_thread_, mDNS listener
    open,      \* which of event_sock_, timing_sock_ and the mDNS socket are open
    backend,   \* MdnsService's
    answering, \* the mDNS service's own running flag
    draining,  \* detached threads of the event channel that run
    audio,     \* audio_threads_
    stuck      \* which of the two servers have a handler that will not end

serverVars == <<phase, running, stopped, rtsp, thread, open, backend,
                answering, draining, audio, stuck>>

Threads == {"mirror", "event", "timing", "mdns"}

TypeOK ==
    /\ phase \in {"new", "starting", "mirror", "event", "timing", "mdns", "up",
                  "down", "unregister", "joinMdns", "stopRtsp", "joinMirror",
                  "closeEvent", "joinEvent", "closeTiming", "joinTiming",
                  "waitAudio", "idle", "destroyed"}
    /\ running \in BOOLEAN /\ stopped \in BOOLEAN /\ rtsp \in BOOLEAN
    /\ thread \in [Threads -> {"none", "run", "ended", "joined"}]
    /\ open \subseteq {"event", "timing", "mdns"}
    /\ backend \in {"None", "Bonjour", "Builtin"}
    /\ answering \in BOOLEAN
    /\ draining \subseteq Drainers
    /\ audio \in 0..MaxAudio
    /\ stuck \subseteq {"mirror", "rtsp"}

Init ==
    /\ phase = "new"
    /\ running = FALSE /\ stopped = FALSE /\ rtsp = FALSE
    /\ thread = [t \in Threads |-> "none"]
    /\ open = {}
    /\ backend = "None"
    /\ answering = FALSE
    /\ draining = {}
    /\ audio = 0
    /\ stuck = {}

handlerVars == <<draining, audio, stuck>>

Runs(t) == thread' = [thread EXCEPT ![t] = "run"]

(***************************************************************************)
(* start().                                                                *)
(***************************************************************************)

\* The key pair and the decoders, then the control server.
StartRtsp ==
    /\ phase = "new"
    /\ rtsp' = TRUE
    /\ phase' = "starting"
    /\ UNCHANGED <<running, stopped, thread, open, backend, answering, handlerVars>>

\* One of them fails: start() returns false.
StartFails ==
    /\ phase = "new"
    /\ phase' = "down"
    /\ UNCHANGED <<running, stopped, rtsp, thread, open, backend, answering, handlerVars>>

StartMirror ==
    /\ phase = "starting"
    /\ running' = TRUE /\ stopped' = FALSE
    /\ Runs("mirror")
    /\ phase' = "event"
    /\ UNCHANGED <<rtsp, open, backend, answering, handlerVars>>

\* start_event_listener(), start_timing_listener(): a socket and a thread,
\* or neither.
StartListener(t, next) ==
    /\ phase = t
    /\ \/ Runs(t) /\ open' = open \cup {t}
       \/ UNCHANGED <<thread, open>>
    /\ phase' = next
    /\ UNCHANGED <<running, stopped, rtsp, backend, answering, handlerVars>>

StartEvent == StartListener("event", "timing")
StartTiming == StartListener("timing", "mdns")

\* register_airplay(): Bonjour takes the service over.
RegisterBonjour ==
    /\ phase = "mdns"
    /\ backend' = "Bonjour"
    /\ phase' = "up"
    /\ UNCHANGED <<running, stopped, rtsp, thread, open, answering, handlerVars>>

\* The built-in responder: a socket, a thread, the announcement.
RegisterBuiltin ==
    /\ phase = "mdns"
    /\ backend' = "Builtin" /\ answering' = TRUE
    /\ open' = open \cup {"mdns"}
    /\ Runs("mdns")
    /\ phase' = "up"
    /\ UNCHANGED <<running, stopped, rtsp, handlerVars>>

\* No address or no socket; or bind or the multicast group fails, and the
\* socket stays open.  start() goes on.
RegisterFails ==
    /\ phase = "mdns"
    /\ \E leak \in BOOLEAN : open' = IF leak THEN open \cup {"mdns"} ELSE open
    /\ phase' = "up"
    /\ UNCHANGED <<running, stopped, rtsp, thread, backend, answering, handlerVars>>

(***************************************************************************)
(* The threads.                                                            *)
(***************************************************************************)

\* Each loop polls with a timeout and leaves when its flag is down; the mirror
\* server's joins its handlers then.
ThreadEnds(t) ==
    /\ thread[t] = "run"
    /\ IF t = "mdns" THEN ~answering ELSE ~running
    /\ t \notin stuck
    /\ thread' = [thread EXCEPT ![t] = "ended"]
    /\ UNCHANGED <<phase, running, stopped, rtsp, open, backend, answering, handlerVars>>

\* A mirror handler holds sources_mutex_ and waits for the decoder whose picture
\* waits for that mutex (AirPlaySources), or a handler of the control server waits
\* for the mutex too, or for an endpoint that is not its own (RtspServer).
Jams(s) ==
    /\ IF s = "mirror" THEN thread["mirror"] = "run" ELSE rtsp
    /\ stuck' = stuck \cup {s}
    /\ UNCHANGED <<phase, running, stopped, rtsp, thread, open, backend, answering,
                   draining, audio>>

threadKeeps == <<phase, running, stopped, rtsp, thread, open, backend, answering>>

\* event_accept_loop(): a connection, drained by a detached thread.
EventConnects(d) ==
    /\ thread["event"] = "run" /\ "event" \in open
    /\ d \notin draining
    /\ draining' = draining \cup {d}
    /\ UNCHANGED <<audio, stuck, threadKeeps>>

\* The peer closes it, or running_ is seen to be down, within a second.
DrainerEnds(d) ==
    /\ d \in draining
    /\ draining' = draining \ {d}
    /\ UNCHANGED <<audio, stuck, threadKeeps>>

\* A SETUP of an audio stream, on a handler of the control server.
AudioStarts ==
    /\ rtsp
    /\ audio < MaxAudio
    /\ audio' = audio + 1
    /\ UNCHANGED <<draining, stuck, threadKeeps>>

\* Mutant: a refused stream is uncounted although it was never counted.
AudioEndsUncounted ==
    /\ audio' = audio - 1
    /\ UNCHANGED <<draining, stuck, threadKeeps>>

\* audio_receive_loop() ends: its sockets are closed or running_ is down.
AudioEnds ==
    /\ audio > 0
    /\ audio' = audio - 1
    /\ UNCHANGED <<draining, stuck, threadKeeps>>

(***************************************************************************)
(* stop() and the destructor.                                              *)
(***************************************************************************)

\* Mutant: the latch is taken and running_ is left up.
StopKeepsRunning ==
    /\ phase \in {"up", "down"} /\ ~stopped
    /\ stopped' = TRUE
    /\ phase' = "unregister"
    /\ UNCHANGED <<running, rtsp, thread, open, backend, answering, handlerVars>>

\* Mutant: the control server is stopped while it is still advertised.
StopBeginsWithRtsp ==
    /\ phase \in {"up", "down"} /\ ~stopped
    /\ stopped' = TRUE /\ running' = FALSE /\ rtsp' = FALSE
    /\ phase' = "unregister"
    /\ UNCHANGED <<thread, open, backend, answering, handlerVars>>

\* The first call takes the latch; running_ goes down.
StopBegins ==
    /\ phase \in {"up", "down"} /\ ~stopped
    /\ stopped' = TRUE
    /\ running' = FALSE
    /\ phase' = "unregister"
    /\ UNCHANGED <<rtsp, thread, open, backend, answering, handlerVars>>

\* Mutant: the service is unregistered by its Bonjour half only.
UnregisterBonjour ==
    /\ phase = "unregister"
    /\ backend' = "None"
    /\ phase' = "stopRtsp"
    /\ UNCHANGED <<running, stopped, rtsp, thread, open, answering, handlerVars>>

\* unregister(): nothing, the Bonjour references, or the responder's flag
\* and socket, before its thread is joined.
Unregister ==
    /\ phase = "unregister"
    /\ IF backend = "Builtin"
       THEN answering' = FALSE /\ open' = open \ {"mdns"} /\ phase' = "joinMdns"
       ELSE UNCHANGED <<answering, open>> /\ phase' = "stopRtsp"
    /\ backend' = "None"
    /\ UNCHANGED <<running, stopped, rtsp, thread, handlerVars>>

\* A thread is joined if it was ever started.
Joins(t, at, next) ==
    /\ phase = at
    /\ thread[t] # "run"
    /\ thread' = [thread EXCEPT ![t] = IF @ = "ended" THEN "joined" ELSE @]
    /\ phase' = next
    /\ UNCHANGED <<running, stopped, rtsp, open, backend, answering, handlerVars>>

JoinMdns == Joins("mdns", "joinMdns", "stopRtsp")

\* rtsp_.stop() returns once it has joined its handlers (RtspServer).
StopRtsp ==
    /\ phase = "stopRtsp"
    /\ "rtsp" \notin stuck
    /\ rtsp' = FALSE
    /\ phase' = "joinMirror"
    /\ UNCHANGED <<running, stopped, thread, open, backend, answering, handlerVars>>

JoinMirror == Joins("mirror", "joinMirror", "closeEvent")

CloseListener(t, at, next) ==
    /\ phase = at
    /\ open' = open \ {t}
    /\ phase' = next
    /\ UNCHANGED <<running, stopped, rtsp, thread, backend, answering, handlerVars>>

CloseEvent == CloseListener("event", "closeEvent", "joinEvent")
JoinEvent == Joins("event", "joinEvent", "closeTiming")
CloseTiming == CloseListener("timing", "closeTiming", "joinTiming")
JoinTiming == Joins("timing", "joinTiming", "waitAudio")

\* Audio threads are waited for two seconds; some may still run then.
StopWaits ==
    /\ phase = "waitAudio"
    /\ phase' = "idle"
    /\ UNCHANGED <<running, stopped, rtsp, thread, open, backend, answering, handlerVars>>

\* ~AirPlayServer: stop() once more, which the latch makes nothing.
Destroy ==
    /\ phase = "idle"
    /\ phase' = "destroyed"
    /\ UNCHANGED <<running, stopped, rtsp, thread, open, backend, answering, handlerVars>>

StopStep ==
    \/ Unregister \/ JoinMdns \/ StopRtsp \/ JoinMirror
    \/ CloseEvent \/ JoinEvent \/ CloseTiming \/ JoinTiming
    \/ StopWaits \/ Destroy

Next ==
    \/ StartRtsp \/ StartFails \/ StartMirror \/ StartEvent \/ StartTiming
    \/ RegisterBonjour \/ RegisterBuiltin \/ RegisterFails
    \/ \E t \in Threads : ThreadEnds(t)
    \/ \E d \in Drainers : EventConnects(d) \/ DrainerEnds(d)
    \/ AudioStarts \/ AudioEnds
    \/ \E s \in {"mirror", "rtsp"} : Jams(s)
    \/ StopBegins \/ StopStep

Spec == Init /\ [][Next]_serverVars

\* Threads that can end do: each ends once, so that none is kept waiting by the
\* others.
Fairness ==
    /\ WF_serverVars(StopStep)
    /\ WF_serverVars(\E t \in Threads : ThreadEnds(t))

FairSpec == Spec /\ Fairness

(***************************************************************************)
(* Properties.                                                             *)
(***************************************************************************)

\* No std::thread of the server is joinable when it is destroyed (that would
\* end the program), whichever part of start() failed.
NoThreadLeft ==
    phase = "destroyed" => \A t \in Threads : thread[t] \in {"none", "joined"}

\* What is advertised can be reached: the service is registered after the
\* control server listens and unregistered before it stops.
AdvertisedServed == backend # "None" => rtsp

Stops == phase \in {"unregister", "joinMdns", "stopRtsp", "joinMirror", "closeEvent",
                     "joinEvent", "closeTiming", "joinTiming", "waitAudio", "idle"}

\* stop() is at the join of a thread whose handler will not end.
Waits ==
    \/ phase = "stopRtsp" /\ "rtsp" \in stuck
    \/ phase = "joinMirror" /\ "mirror" \in stuck

\* stop() and the destructor end, whatever start() brought up, unless they have come to
\* wait for a handler of one of the two servers that itself waits for ever.
StopEnds == []<>(Stops => Waits)

(***************************************************************************)
(* What the code intends and does not keep on every path.                  *)
(***************************************************************************)

\* No detached thread that uses the server outlives it.
NoDetachedLeft == phase = "destroyed" => draining = {} /\ audio = 0

\* No socket outlives the server.
NoSocketLeft == phase = "destroyed" => open = {}

\* stop() ends, whatever the handlers do.
StopAlwaysEnds == []<>~Stops

\* An audio stream is only accepted by a server that runs; handlers answer
\* from rtsp_.start() on, running_ is set after it.
AudioWhileRunning == [][audio' > audio => running]_serverVars
=============================================================================
