---------------------------- MODULE CastReceiver ---------------------------
(***************************************************************************)
(* cast/cast_receiver.cpp: an accept thread that gives one sender at a     *)
(* time to a client thread, the client's handler with its TLS handshake    *)
(* and message loop, a WebRTC thread that the first OFFER starts, the      *)
(* mDNS responder, and start() and stop() around them.                     *)
(*                                                                         *)
(* Closing a socket wakes the thread that waits on it.  What senders send  *)
(* is external, and so is whether they send anything.                      *)
(***************************************************************************)
EXTENDS Naturals

CONSTANTS
    Nobody,     \* no connection
    Senders     \* connections, each with its handler thread

VARIABLES
    main,       \* where start() and stop() are
    running,    \* running_
    contexts,   \* ssl_ctx and dtls_ctx exist
    listening,  \* listen_sock is open
    mdns,       \* the service: none, Bonjour's, or the state of mdns_thread
    accepting,  \* where the accept thread is
    fresh,      \* the connection it has accepted and not handed over
    thread,     \* client_thread: whose it is
    hpc,        \* where each handler is
    open,       \* connections whose socket is open
    clientSock, \* client_sock
    clientSsl,  \* client_ssl
    mirroring,  \* mirroring_active
    session,    \* session_id: the sender that launched the application
    webrtc,     \* webrtc_thread
    offered,    \* whose offer ice_ufrag and ice_pwd answer
    served      \* whose offer the WebRTC thread works for

castVars == <<main, running, contexts, listening, mdns, accepting, fresh, thread,
              hpc, open, clientSock, clientSsl, mirroring, session, webrtc,
              offered, served>>

clientVars == <<hpc, open, clientSock, clientSsl>>
appVars == <<mirroring, session, webrtc, offered, served>>
acceptVars == <<accepting, fresh, thread>>

Someone == Senders \cup {Nobody}

TypeOK ==
    /\ main \in {"off", "failed", "run", "closeListen", "closeClient", "joinAccept",
                 "joinClient", "joinWebrtc", "mdns", "cleanup", "stopped"}
    /\ running \in BOOLEAN /\ contexts \in BOOLEAN /\ listening \in BOOLEAN
    /\ mdns \in {"none", "bonjour", "run", "told", "ended"}
    /\ accepting \in {"none", "check", "accept", "join", "ended"}
    /\ fresh \in Someone /\ thread \in Someone
    /\ hpc \in [Senders -> {"out", "enter", "peek", "tls", "read", "unlist", "close",
                            "notify", "done", "joined"}]
    /\ open \subseteq Senders
    /\ clientSock \in Someone /\ clientSsl \in Someone
    /\ mirroring \in BOOLEAN /\ session \in Someone
    /\ webrtc \in {"none", "run", "ended"}
    /\ offered \in Someone /\ served \in Someone

Init ==
    /\ main = "off" /\ running = FALSE /\ contexts = FALSE
    /\ listening = FALSE /\ mdns = "none"
    /\ accepting = "none" /\ fresh = Nobody /\ thread = Nobody
    /\ hpc = [c \in Senders |-> "out"] /\ open = {}
    /\ clientSock = Nobody /\ clientSsl = Nobody
    /\ mirroring = FALSE /\ session = Nobody
    /\ webrtc = "none" /\ offered = Nobody /\ served = Nobody

(***************************************************************************)
(* start().                                                                *)
(***************************************************************************)

\* Certificate, contexts and listener; the service, which may fail; then
\* running_ and the accept thread.
Start ==
    /\ main = "off"
    /\ contexts' = TRUE /\ listening' = TRUE
    /\ mdns' \in {"none", "bonjour", "run"}
    /\ running' = TRUE
    /\ accepting' = "check"
    /\ main' = "run"
    /\ UNCHANGED <<fresh, thread, clientVars, appVars>>

\* The certificate, a context or the listener fails; what exists is kept.
StartFails ==
    /\ main = "off"
    /\ contexts' \in BOOLEAN
    /\ listening' \in {FALSE, contexts'}
    /\ main' = "failed"
    /\ UNCHANGED <<running, mdns, acceptVars, clientVars, appVars>>

(***************************************************************************)
(* The accept thread.                                                      *)
(***************************************************************************)

acceptKeeps == <<main, running, contexts, listening, mdns, clientSock, clientSsl,
                 appVars>>

\* The loop's condition.
Check ==
    /\ accepting = "check"
    /\ accepting' = IF running THEN "accept" ELSE "ended"
    /\ UNCHANGED <<fresh, thread, hpc, open, acceptKeeps>>

\* accept() fails, as it does when the listener is closed.
AcceptFails ==
    /\ accepting = "accept" /\ ~listening
    /\ accepting' = "check"
    /\ UNCHANGED <<fresh, thread, hpc, open, acceptKeeps>>

AcceptClient(c) ==
    /\ accepting = "accept" /\ listening
    /\ hpc[c] = "out"
    /\ open' = open \cup {c}
    /\ fresh' = c
    /\ accepting' = "join"
    /\ UNCHANGED <<thread, hpc, acceptKeeps>>

\* The client thread, once it was joined, is the new connection's.
HandOver ==
    /\ thread' = fresh
    /\ hpc' = [c \in Senders |-> IF c = fresh THEN "enter"
                                 ELSE IF c = thread THEN "joined" ELSE hpc[c]]
    /\ fresh' = Nobody
    /\ accepting' = "check"
    /\ UNCHANGED <<open, acceptKeeps>>

\* Mutant: a sender that still talks is not waited for.
StartClientAtOnce == accepting = "join" /\ HandOver

\* One client at a time: the one before is waited for.
StartClient ==
    /\ accepting = "join"
    /\ thread # Nobody => hpc[thread] = "done"
    /\ HandOver

(***************************************************************************)
(* handle_client().                                                        *)
(***************************************************************************)

handlerKeeps == <<main, running, contexts, listening, mdns, acceptVars>>

Moves(c, to) == hpc' = [hpc EXCEPT ![c] = to]

\* Mutant: the socket is registered after the handshake only.
RegisterLater(c) ==
    /\ hpc[c] = "enter"
    /\ Moves(c, "peek")
    /\ UNCHANGED <<open, clientSock, clientSsl, appVars, handlerKeeps>>

\* Under client_mutex the socket is registered for stop().
Register(c) ==
    /\ hpc[c] = "enter"
    /\ clientSock' = c
    /\ Moves(c, "peek")
    /\ UNCHANGED <<open, clientSsl, appVars, handlerKeeps>>

\* The first bytes have come, and look like TLS.
PeekSucceeds(c) ==
    /\ hpc[c] = "peek" /\ c \in open
    /\ Moves(c, "tls")
    /\ UNCHANGED <<open, clientSock, clientSsl, appVars, handlerKeeps>>

\* The handshake is done; client_ssl is set under client_mutex.
TlsSucceeds(c) ==
    /\ hpc[c] = "tls" /\ c \in open
    /\ clientSsl' = c
    /\ Moves(c, "read")
    /\ UNCHANGED <<open, clientSock, appVars, handlerKeeps>>

\* No data, no TLS, no handshake: the socket is closed, client_sock keeps it.
GivesUp(c) ==
    /\ hpc[c] \in {"peek", "tls"}
    /\ open' = open \ {c}
    /\ Moves(c, "notify")
    /\ UNCHANGED <<clientSock, clientSsl, appVars, handlerKeeps>>

\* Peek and handshake end by themselves when the peer or stop() closes.
HandshakeFails(c) == c \notin open /\ GivesUp(c)

messageKeeps == <<clientVars, handlerKeeps>>

\* LAUNCH and STOP; the status that answers has what they leave.
Launch(c) ==
    /\ hpc[c] = "read" /\ c \in open
    /\ mirroring' = TRUE /\ session' = c
    /\ UNCHANGED <<webrtc, offered, served, messageKeeps>>

StopApplication(c) ==
    /\ hpc[c] = "read" /\ c \in open
    /\ mirroring' = FALSE /\ session' = Nobody
    /\ UNCHANGED <<webrtc, offered, served, messageKeeps>>

\* OFFER: new credentials are answered with; the thread is started unless
\* there is one already, which goes on with what it was given.
Offer(c) ==
    /\ hpc[c] = "read" /\ c \in open
    /\ offered' = c
    /\ IF webrtc = "none" THEN webrtc' = "run" /\ served' = c
                          ELSE UNCHANGED <<webrtc, served>>
    /\ UNCHANGED <<mirroring, session, messageKeeps>>

\* Mutant: the application of a sender that is gone stays active.
LoopEndsActive(c) ==
    /\ hpc[c] = "read"
    /\ Moves(c, "unlist")
    /\ UNCHANGED <<open, clientSock, clientSsl, appVars, handlerKeeps>>

\* A message cannot be read: the loop ends.
LoopEnds(c) ==
    /\ hpc[c] = "read"
    /\ mirroring' = FALSE
    /\ Moves(c, "unlist")
    /\ UNCHANGED <<open, clientSock, clientSsl, session, webrtc, offered, served,
                   handlerKeeps>>

\* Under client_mutex the connection is taken back.
Unregister(c) ==
    /\ hpc[c] = "unlist"
    /\ clientSsl' = Nobody /\ clientSock' = Nobody
    /\ Moves(c, "close")
    /\ UNCHANGED <<open, appVars, handlerKeeps>>

CloseClient(c) ==
    /\ hpc[c] = "close"
    /\ open' = open \ {c}
    /\ Moves(c, "notify")
    /\ UNCHANGED <<clientSock, clientSsl, appVars, handlerKeeps>>

\* on_disconnect_, after which the thread is at its end.
Notify(c) ==
    /\ hpc[c] = "notify"
    /\ Moves(c, "done")
    /\ UNCHANGED <<open, clientSock, clientSsl, appVars, handlerKeeps>>

(***************************************************************************)
(* run_webrtc_receiver() and mdns_listen_loop().                           *)
(***************************************************************************)

\* recvfrom() times out after a second; running_ is looked at.
WebrtcEnds ==
    /\ webrtc = "run" /\ ~running
    /\ webrtc' = "ended"
    /\ UNCHANGED <<messageKeeps, mirroring, session, offered, served>>

MdnsEnds ==
    /\ mdns = "told"
    /\ mdns' = "ended"
    /\ UNCHANGED <<main, running, contexts, listening, acceptVars, clientVars, appVars>>

(***************************************************************************)
(* stop().                                                                 *)
(***************************************************************************)

StopBegins ==
    /\ main = "run"
    /\ running' = FALSE
    /\ main' = "closeListen"
    /\ UNCHANGED <<contexts, listening, mdns, acceptVars, clientVars, appVars>>

StopListening ==
    /\ main = "closeListen"
    /\ listening' = FALSE
    /\ main' = "closeClient"
    /\ UNCHANGED <<running, contexts, mdns, acceptVars, clientVars, appVars>>

\* Under client_mutex the registered connection is closed.
StopClient ==
    /\ main = "closeClient"
    /\ open' = open \ {clientSock}
    /\ clientSock' = Nobody
    /\ main' = "joinAccept"
    /\ UNCHANGED <<running, contexts, listening, mdns, acceptVars, hpc, clientSsl, appVars>>

JoinAccept ==
    /\ main = "joinAccept" /\ accepting = "ended"
    /\ main' = "joinClient"
    /\ UNCHANGED <<running, contexts, listening, mdns, acceptVars, clientVars, appVars>>

ClientJoined ==
    /\ hpc' = [c \in Senders |-> IF c = thread THEN "joined" ELSE hpc[c]]
    /\ thread' = Nobody
    /\ UNCHANGED <<running, contexts, listening, mdns, accepting, fresh, open,
                   clientSock, clientSsl, appVars>>

JoinClient ==
    /\ main = "joinClient"
    /\ thread # Nobody => hpc[thread] = "done"
    /\ main' = "joinWebrtc"
    /\ ClientJoined

\* Mutant: the WebRTC thread is left to end by itself.
JoinNoWebrtc ==
    /\ main = "joinWebrtc"
    /\ main' = "mdns"
    /\ UNCHANGED <<running, contexts, listening, mdns, acceptVars, clientVars, appVars>>

JoinWebrtc ==
    /\ main = "joinWebrtc" /\ webrtc \in {"none", "ended"}
    /\ webrtc' = "none"
    /\ main' = "mdns"
    /\ UNCHANGED <<running, contexts, listening, mdns, acceptVars, clientVars,
                   mirroring, session, offered, served>>

\* cleanup(): the service first, its thread included.
StopMdns ==
    /\ main = "mdns"
    /\ \/ mdns = "run" /\ mdns' = "told" /\ UNCHANGED main
       \/ mdns \in {"none", "bonjour", "ended"} /\ mdns' = "none" /\ main' = "cleanup"
    /\ UNCHANGED <<running, contexts, listening, acceptVars, clientVars, appVars>>

\* Then what sockets are left, and the contexts.
Cleanup ==
    /\ main = "cleanup"
    /\ open' = open \ {clientSock}
    /\ clientSock' = Nobody
    /\ contexts' = FALSE
    /\ main' = "stopped"
    /\ UNCHANGED <<running, listening, mdns, acceptVars, hpc, clientSsl, appVars>>

(***************************************************************************)
(* The specification.                                                      *)
(***************************************************************************)

AcceptStep == Check \/ AcceptFails \/ StartClient

\* What a handler does without its peer.
HandlerStep(c) ==
    \/ Register(c) \/ HandshakeFails(c) \/ (c \notin open /\ LoopEnds(c))
    \/ Unregister(c) \/ CloseClient(c) \/ Notify(c)

PeerStep(c) ==
    \/ PeekSucceeds(c) \/ TlsSucceeds(c) \/ GivesUp(c)
    \/ Launch(c) \/ StopApplication(c) \/ Offer(c) \/ LoopEnds(c)

StopStep ==
    \/ StopListening \/ StopClient \/ JoinAccept \/ JoinClient \/ JoinWebrtc
    \/ StopMdns \/ Cleanup

Next ==
    \/ Start \/ StartFails \/ StopBegins \/ StopStep
    \/ AcceptStep \/ WebrtcEnds \/ MdnsEnds
    \/ \E c \in Senders : AcceptClient(c) \/ HandlerStep(c) \/ PeerStep(c)

Spec == Init /\ [][Next]_castVars

\* Threads that can run do; nothing is asked of senders.
Fairness ==
    /\ WF_castVars(AcceptStep) /\ WF_castVars(StopStep)
    /\ WF_castVars(WebrtcEnds) /\ WF_castVars(MdnsEnds)
    /\ \A c \in Senders : WF_castVars(HandlerStep(c))

FairSpec == Spec /\ Fairness

(***************************************************************************)
(* Properties.                                                             *)
(***************************************************************************)

\* Senders are served one at a time, which is what client_sock, client_ssl
\* and the session's fields, one of each, rely on.
OneHandler ==
    /\ \A c \in Senders : hpc[c] \notin {"out", "joined"} => thread = c
    /\ clientSsl # Nobody => hpc[clientSsl] \in {"read", "unlist"}

\* The contexts live as long as a thread may use them, and when stop() has
\* returned nothing runs and nothing is open ("Join all worker threads
\* BEFORE freeing", cast_receiver.cpp:1513).
ContextsOutlive ==
    /\ (\E c \in Senders : hpc[c] \in {"tls", "read", "unlist"}) \/ webrtc = "run" => contexts
    /\ main = "stopped" =>
          /\ accepting = "ended" /\ thread = Nobody /\ webrtc = "none" /\ mdns = "none"
          /\ open = {} /\ ~listening

\* The status tells of an application only while the sender that launched
\* it is connected, and with its session.
StatusTrue == mirroring => session # Nobody /\ hpc[session] = "read"

\* stop() is at work; a handler has registered its socket after stop() had
\* closed what was registered, and its sender, whom nobody closes any more,
\* keeps it.
Stops == main \in {"closeListen", "closeClient", "joinAccept", "joinClient",
                   "joinWebrtc", "mdns", "cleanup"}
Late ==
    /\ main \in {"joinAccept", "joinClient"}
    /\ clientSock # Nobody /\ hpc[clientSock] \in {"peek", "tls", "read"}
    /\ clientSock \in open

\* stop() returns, whatever senders do, unless one that came late keeps it.
StopReturns == []<>(Stops => Late)

(***************************************************************************)
(* What the code intends and does not keep on every path.                  *)
(***************************************************************************)

\* stop() returns: a handler "still in peek/SSL_accept" does not keep it
\* ("the join in stop() would freeze the app", cast_receiver.cpp:1239).
StopNeverFreezes == []<>~Stops

\* The socket that stop() closes has not been closed yet.
ClosedOnce == [][(clientSock # Nobody /\ main' = "joinAccept" /\ main = "closeClient")
                    => clientSock \in open]_castVars

\* The WebRTC thread works for the offer that was answered last.
OfferServed == webrtc = "run" => served = offered
=============================================================================
