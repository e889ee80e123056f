----------------------------- MODULE RtspServer -----------------------------
(***************************************************************************)
(* The control server: network/tcp_server.cpp, which accepts connections   *)
(* and owns the handler threads, with network/rtsp_server.cpp on top of    *)
(* it, whose handlers answer requests and whose disconnect_ip() closes the *)
(* connections of a device from another thread.                            *)
(*                                                                         *)
(* What a request asks for is not looked at, except whether it is the      *)
(* TEARDOWN that ends the connection.  Other parts of the program open and *)
(* close sockets too; a handle that the server has given back may be       *)
(* theirs next.                                                            *)
(***************************************************************************)
EXTENDS SocketTable, Naturals, FiniteSets

CONSTANTS
    Conns,    \* connections, each with its handler thread
    Ips,      \* addresses of devices
    IpOf,     \* the address a connection comes from
    Kickers,  \* threads that call disconnect_ip(), once each
    Listener, \* what the listening socket's handle denotes
    Other     \* an endpoint of another part of the program

VARIABLES
    table,     \* the system's handles
    shut,      \* handles whose endpoint has been shut down
    running,   \* running_
    listening, \* listen_sock_
    accepting, \* where the accept thread is
    accepted,  \* the connection whose context it is about to list
    clients,   \* clients_: the connections with a context
    sock,      \* ClientCtx::sock, and the handler's copy of it
    hpc,       \* where each handler is
    entries,   \* clients_by_ip_, a multimap: how often it has a pair
    main,      \* where start() and stop() are
    toShut,    \* stop(): contexts whose socket is yet to be shut down
    toJoin,    \* stop(): contexts whose thread is yet to be joined
    asked,     \* the kickers that have called disconnect_ip()
    kicking    \* the handles each of them still has to close

rtspVars == <<table, shut, running, listening, accepting, accepted, clients,
              sock, hpc, entries, main, toShut, toJoin, asked, kicking>>

Endpoints == Conns \cup {Listener, Other, Nobody}

\* The handler of c is past its registration and before its removal.
Tracked(c) == hpc[c] \in {"read", "respond", "last", "unlist"}

TypeOK ==
    /\ table \in [Handles -> Endpoints]
    /\ shut \subseteq Handles
    /\ running \in BOOLEAN
    /\ listening \in Handles \cup {NoHandle}
    /\ accepting \in {"none", "poll", "select", "listing", "ended"}
    /\ accepted \in Conns \cup {Nobody}
    /\ clients \subseteq Conns
    /\ sock \in [Conns -> Handles \cup {NoHandle}]
    /\ hpc \in [Conns -> {"out", "enter", "read", "respond", "last",
                          "unlist", "close", "done", "joined"}]
    /\ entries \in [Ips \X Handles -> Nat]
    /\ main \in {"off", "failed", "run", "close", "accept", "shutdown",
                 "join", "stopped"}
    /\ toShut \subseteq Conns
    /\ toJoin \subseteq Conns
    /\ asked \subseteq Kickers
    /\ kicking \in [Kickers -> SUBSET Handles]

Init ==
    /\ table = [h \in Handles |-> Nobody]
    /\ shut = {}
    /\ running = FALSE
    /\ listening = NoHandle
    /\ accepting = "none"
    /\ accepted = Nobody
    /\ clients = {}
    /\ sock = [c \in Conns |-> NoHandle]
    /\ hpc = [c \in Conns |-> "out"]
    /\ entries = [e \in Ips \X Handles |-> 0]
    /\ main = "off"
    /\ toShut = {}
    /\ toJoin = {}
    /\ asked = {}
    /\ kicking = [k \in Kickers |-> {}]

kickVars == <<asked, kicking>>

mainVars == <<main, toShut, toJoin>>
acceptVars == <<accepting, accepted>>

Opens(h, endpoint) ==
    /\ h \in FreeHandles(table)
    /\ table' = Bound(table, h, endpoint)
    /\ shut' = shut \ {h}

Closes(h) ==
    /\ table' = Closed(table, h)
    /\ shut' = shut \ {h}

(***************************************************************************)
(* start().                                                                *)
(***************************************************************************)

\* The socket is made, bound and listens; the accept thread runs.
Start ==
    /\ main = "off"
    /\ \E h \in Handles : Opens(h, Listener) /\ listening' = h
    /\ running' = TRUE
    /\ accepting' = "poll"
    /\ main' = "run"
    /\ UNCHANGED <<accepted, clients, sock, hpc, entries, toShut, toJoin, kickVars>>

\* socket(), bind() or listen() fails: the handle is closed again.
StartFails ==
    /\ main = "off"
    /\ main' = "failed"
    /\ UNCHANGED <<table, shut, running, listening, acceptVars, clients, sock,
                   hpc, entries, toShut, toJoin, kickVars>>

(***************************************************************************)
(* accept_loop().                                                          *)
(***************************************************************************)

\* The loop's conditions, then select(); it polls, so it comes back here.
Poll ==
    /\ accepting = "poll"
    /\ accepting' = IF running /\ listening # NoHandle THEN "select" ELSE "ended"
    /\ UNCHANGED <<table, shut, running, listening, accepted, clients, sock,
                   hpc, entries, mainVars, kickVars>>

\* select() times out or fails, or accept() does.
NothingAccepted ==
    /\ accepting = "select"
    /\ accepting' = "poll"
    /\ UNCHANGED <<table, shut, running, listening, accepted, clients, sock,
                   hpc, entries, mainVars, kickVars>>

\* accept(): the handler's thread runs before its context is listed.
AcceptClient(c) ==
    /\ accepting = "select"
    /\ listening # NoHandle /\ table[listening] = Listener
    /\ hpc[c] = "out"
    /\ \E h \in Handles : Opens(h, c) /\ sock' = [sock EXCEPT ![c] = h]
    /\ hpc' = [hpc EXCEPT ![c] = "enter"]
    /\ accepted' = c
    /\ accepting' = "listing"
    /\ UNCHANGED <<running, listening, clients, entries, mainVars, kickVars>>

\* reap_finished_clients_locked(): contexts that say done are joined.
Reaped == {c \in clients : hpc[c] = "done"}

\* Under clients_mutex_: finished contexts go, the new one is listed.
ListClient ==
    /\ accepting = "listing"
    /\ clients' = (clients \ Reaped) \cup {accepted}
    /\ hpc' = [c \in Conns |-> IF c \in Reaped THEN "joined" ELSE hpc[c]]
    /\ accepting' = "poll"
    /\ accepted' = Nobody
    /\ UNCHANGED <<table, shut, running, listening, sock, entries, mainVars, kickVars>>

(***************************************************************************)
(* handle_client().                                                        *)
(***************************************************************************)

handlerKeeps == <<running, listening, acceptVars, clients, sock, mainVars, kickVars>>

\* The handler's socket is listed under its address.
Enter(c) ==
    /\ hpc[c] = "enter"
    /\ entries' = [entries EXCEPT ![<<IpOf[c], sock[c]>>] = @ + 1]
    /\ hpc' = [hpc EXCEPT ![c] = "read"]
    /\ UNCHANGED <<table, shut, handlerKeeps>>

\* A recv() on this handle cannot wait.
Dead(h) == table[h] = Nobody \/ h \in shut

\* parse_request(): a whole request comes, from whom the handle denotes.
Receive(c) ==
    /\ hpc[c] = "read"
    /\ ~Dead(sock[c])
    /\ \E next \in {"respond", "last"} : hpc' = [hpc EXCEPT ![c] = next]
    /\ UNCHANGED <<table, shut, entries, handlerKeeps>>

\* parse_request() returns no method: the peer has closed the connection.
PeerEnds(c) ==
    /\ hpc[c] = "read"
    /\ ~Dead(sock[c])
    /\ hpc' = [hpc EXCEPT ![c] = "unlist"]
    /\ UNCHANGED <<table, shut, entries, handlerKeeps>>

\* parse_request() returns no method: the socket was closed or shut down.
ReadFails(c) ==
    /\ hpc[c] = "read"
    /\ Dead(sock[c])
    /\ hpc' = [hpc EXCEPT ![c] = "unlist"]
    /\ UNCHANGED <<table, shut, entries, handlerKeeps>>

\* The method's handler returns and the response is sent, to whomever; a
\* TEARDOWN that does not keep the connection ends the loop.
Respond(c) ==
    /\ \/ hpc[c] = "respond" /\ hpc' = [hpc EXCEPT ![c] = "read"]
       \/ hpc[c] = "last"    /\ hpc' = [hpc EXCEPT ![c] = "unlist"]
    /\ UNCHANGED <<table, shut, entries, handlerKeeps>>

\* Mutant: every pair that is equal is erased, not the first one only.
UnlistAll(c) ==
    /\ hpc[c] = "unlist"
    /\ entries' = [entries EXCEPT ![<<IpOf[c], sock[c]>>] = 0]
    /\ hpc' = [hpc EXCEPT ![c] = "close"]
    /\ UNCHANGED <<table, shut, handlerKeeps>>

\* The first pair equal to the handler's own is erased.
Unlist(c) ==
    /\ hpc[c] = "unlist"
    /\ entries' = [entries EXCEPT ![<<IpOf[c], sock[c]>>] = @ - 1]
    /\ hpc' = [hpc EXCEPT ![c] = "close"]
    /\ UNCHANGED <<table, shut, handlerKeeps>>

\* close_socket(client), then done.
CloseClient(c) ==
    /\ hpc[c] = "close"
    /\ Closes(sock[c])
    /\ hpc' = [hpc EXCEPT ![c] = "done"]
    /\ UNCHANGED <<entries, handlerKeeps>>

(***************************************************************************)
(* disconnect_ip(), called by AirPlayServer::disconnect_source(), and the  *)
(* rest of the program.                                                    *)
(***************************************************************************)

kickKeeps == <<running, listening, acceptVars, clients, sock, hpc, entries, mainVars>>

\* Under clients_mutex_ the handles of the address are copied.
KickRead(k) ==
    /\ k \notin asked
    /\ asked' = asked \cup {k}
    /\ \E ip \in Ips :
         kicking' = [kicking EXCEPT ![k] = {h \in Handles : entries[<<ip, h>>] > 0}]
    /\ UNCHANGED <<table, shut, kickKeeps>>

\* After the mutex is released each of them is closed, by its number.
KickClose(k) ==
    /\ \E h \in kicking[k] : Closes(h) /\ kicking' = [kicking EXCEPT ![k] = @ \ {h}]
    /\ UNCHANGED <<asked, kickKeeps>>

otherKeeps == <<running, listening, acceptVars, clients, sock, hpc, entries,
                mainVars, kickVars>>

\* Another part opens a socket, on any handle that is free.
OtherOpens == (\E h \in Handles : Opens(h, Other)) /\ UNCHANGED otherKeeps

\* Another part closes its own socket.
OtherCloses ==
    /\ \E h \in Handles : table[h] = Other /\ Closes(h)
    /\ UNCHANGED otherKeeps

(***************************************************************************)
(* stop(), called once by AirPlayServer::stop().                           *)
(***************************************************************************)

stopKeeps == <<sock, entries, kickVars>>

StopRunning ==
    /\ main \in {"run", "failed"}
    /\ running' = FALSE
    /\ main' = "close"
    /\ UNCHANGED <<table, shut, listening, acceptVars, clients, hpc, toShut,
                   toJoin, stopKeeps>>

StopListening ==
    /\ main = "close"
    /\ IF listening = NoHandle THEN UNCHANGED <<table, shut>> ELSE Closes(listening)
    /\ listening' = NoHandle
    /\ main' = "accept"
    /\ UNCHANGED <<running, acceptVars, clients, hpc, toShut, toJoin, stopKeeps>>

\* clients_ is swapped out, under clients_mutex_.
TakeClients ==
    /\ toShut' = clients
    /\ toJoin' = clients
    /\ clients' = {}
    /\ main' = "shutdown"
    /\ UNCHANGED <<table, shut, running, listening, acceptVars, hpc, stopKeeps>>

\* Mutant: the contexts are taken without waiting for the accept thread.
StopAcceptingUnjoined == main = "accept" /\ TakeClients

\* The accept thread is joined first: nobody adds a context any more.
StopAccepting ==
    /\ main = "accept"
    /\ accepting \in {"none", "ended"}
    /\ TakeClients

\* Mutant: the sockets are not shut down, handlers are only waited for.
ForgetClient(c) ==
    /\ main = "shutdown"
    /\ c \in toShut
    /\ toShut' = toShut \ {c}
    /\ UNCHANGED <<table, shut, running, listening, acceptVars, clients, hpc,
                   main, toJoin, stopKeeps>>

\* shutdown() on the handle in the context, whatever it denotes by now.
ShutClient(c) ==
    /\ main = "shutdown"
    /\ c \in toShut
    /\ toShut' = toShut \ {c}
    /\ shut' = IF table[sock[c]] = Nobody THEN shut ELSE shut \cup {sock[c]}
    /\ UNCHANGED <<table, running, listening, acceptVars, clients, hpc, main,
                   toJoin, stopKeeps>>

AllShut ==
    /\ main = "shutdown" /\ toShut = {}
    /\ main' = "join"
    /\ UNCHANGED <<table, shut, running, listening, acceptVars, clients, hpc,
                   toShut, toJoin, stopKeeps>>

\* Each thread is joined.
JoinClient(c) ==
    /\ main = "join"
    /\ c \in toJoin /\ hpc[c] = "done"
    /\ toJoin' = toJoin \ {c}
    /\ hpc' = [hpc EXCEPT ![c] = "joined"]
    /\ UNCHANGED <<table, shut, running, listening, acceptVars, clients, main,
                   toShut, stopKeeps>>

StopEnds ==
    /\ main = "join" /\ toJoin = {}
    /\ main' = "stopped"
    /\ UNCHANGED <<table, shut, running, listening, acceptVars, clients, hpc,
                   toShut, toJoin, stopKeeps>>

(***************************************************************************)
(* The specification.                                                      *)
(***************************************************************************)

AcceptStep == Poll \/ NothingAccepted \/ ListClient

\* What a handler does without its peer.
HandlerStep(c) == Enter(c) \/ ReadFails(c) \/ Respond(c) \/ Unlist(c) \/ CloseClient(c)

StopStep ==
    \/ StopListening \/ StopAccepting \/ AllShut \/ StopEnds
    \/ \E c \in Conns : ShutClient(c) \/ JoinClient(c)

Next ==
    \/ Start \/ StartFails \/ StopRunning
    \/ AcceptStep \/ StopStep
    \/ \E c \in Conns : AcceptClient(c) \/ Receive(c) \/ PeerEnds(c) \/ HandlerStep(c)
    \/ \E k \in Kickers : KickRead(k) \/ KickClose(k)
    \/ OtherOpens \/ OtherCloses

Spec == Init /\ [][Next]_rtspVars

\* Threads that can run do; nothing is asked of peers, kicks or others.
Fairness ==
    /\ WF_rtspVars(AcceptStep)
    /\ WF_rtspVars(StopStep)
    /\ \A c \in Conns : WF_rtspVars(HandlerStep(c))

FairSpec == Spec /\ Fairness

(***************************************************************************)
(* Properties.                                                             *)
(***************************************************************************)

\* When stop() has returned no handler runs and no connection is open: the
\* objects the handlers use may be destroyed ("no detached thread can
\* outlive this server", tcp_server.cpp:96).
StoppedClean ==
    main = "stopped" =>
        /\ accepting \in {"none", "ended"}
        /\ \A c \in Conns : hpc[c] \in {"out", "joined"}
        /\ \A h \in Handles : table[h] \notin Conns

\* clients_by_ip_ has a pair exactly as often as there are handlers with
\* it, also while two handlers of one device hold the same number because
\* the first one's socket was closed under it: disconnect_ip() then reaches
\* every connection of the device and nobody else's.
EntriesMatch ==
    \A ip \in Ips, h \in Handles :
        entries[<<ip, h>>] =
            Cardinality({c \in Conns : IpOf[c] = ip /\ sock[c] = h /\ Tracked(c)})

\* A handler waits for an endpoint that is not its own: its socket was
\* closed by disconnect_ip() and the number given out again.
ReadsAnother == \E c \in Conns : hpc[c] = "read" /\ table[sock[c]] \notin {c, Nobody}

Stops == main \in {"close", "accept", "shutdown", "join"}

\* stop() returns, unless again and again a handler waits on somebody else's
\* endpoint: the shutdown that should wake it may have come before.
StopReturns == []<>(Stops => ReadsAnother)

(***************************************************************************)
(* What the code intends and does not keep on every path.                  *)
(***************************************************************************)

\* A handle is closed only by the thread that it was given to.
NoStrayClose ==
    [][\A c \in Conns : (hpc[c] = "close" /\ hpc'[c] = "done") =>
           table[sock[c]] \in {c, Nobody}]_rtspVars

\* stop() returns, whatever happened to the handles before.
StopAlwaysReturns == []<>~Stops
=============================================================================
