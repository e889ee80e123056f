---------------------------- MODULE Control_proofs ----------------------------
(***************************************************************************)
(* Proofs about the control channel as MCControl composes it: pairing by   *)
(* PIN and the session keys, the life of the AirPlay server, and the       *)
(* control server with its handler threads, for any number of clients,     *)
(* PINs, connections, addresses and handles.                               *)
(***************************************************************************)

EXTENDS MCControl, FiniteSetTheorems, TLAPS

(***************************************************************************)
(* Pairing by PIN: one PIN and one session for all clients.                *)
(***************************************************************************)

\* The property is inductive with the types.
PinInv == Pin!TypeOK /\ Pin!SessionUsesPin /\ Pin!ShownIsCurrent

\* It holds before the first client has asked.
LEMMA PinBegins == Pin!Init => PinInv
<1>1. Pin!Init => Pin!TypeOK
  <2> SUFFICES ASSUME Pin!Init  PROVE Pin!TypeOK
    OBVIOUS
  <2>1. srp \in Pin!Session
    BY DEF Pin!Init, Pin!Session
  <2>2. active \in BOOLEAN /\ late \in BOOLEAN
    BY Zenon DEF Pin!Init
  <2>3. starting \in [Clients -> Pins \cup {NoPin}]
    BY DEF Pin!Init
  <2>4. current \in Pins \cup {NoPin} /\ shown \in Pins \cup {NoPin}
    BY DEF Pin!Init
  <2> QED
    BY <2>1, <2>2, <2>3, <2>4 DEF Pin!TypeOK
<1>2. Pin!Init => Pin!SessionUsesPin /\ Pin!ShownIsCurrent
  BY DEF Pin!Init, Pin!SessionUsesPin, Pin!ShownIsCurrent
<1> QED
  BY <1>1, <1>2 DEF PinInv

\* Every request of every client keeps it: what changes the PIN ends the session,
\* and what starts a session takes the PIN of now.
LEMMA PinKept ==
    ASSUME PinInv, Pin!Next \/ UNCHANGED pinV
    PROVE  PinInv'
<1> USE ClientsAssumption
    DEF PinInv, Pin!TypeOK, Pin!Session, Pin!SessionUsesPin, Pin!ShownIsCurrent
<1>1. CASE UNCHANGED pinV
  BY <1>1 DEF pinV
<1>2. CASE Pin!Next
  <2> PICK c \in Clients :
        \/ Pin!PinStart(c) \/ Pin!PinShow(c)
        \/ Pin!StepOne(c) \/ Pin!StepOneFails(c)
        \/ Pin!StepTwoAborts(c) \/ Pin!StepThree(c)
        \/ \E pin \in Pins : Pin!StepTwoAccepts(c, pin) \/ Pin!StepTwoRefuses(c, pin)
    BY <1>2 DEF Pin!Next
  <2>1. CASE Pin!PinStart(c)
    BY <2>1 DEF Pin!PinStart
  <2>2. CASE Pin!PinShow(c)
    BY <2>2 DEF Pin!PinShow
  <2>3. CASE Pin!StepOne(c)
    BY <2>3 DEF Pin!StepOne, Pin!StartSession
  <2>4. CASE Pin!StepOneFails(c)
    BY <2>4 DEF Pin!StepOneFails
  <2>5. CASE Pin!StepTwoAborts(c)
    BY <2>5 DEF Pin!StepTwoAborts
  <2>6. CASE Pin!StepThree(c)
    BY <2>6 DEF Pin!StepThree
  <2>7. CASE \E pin \in Pins : Pin!StepTwoAccepts(c, pin)
    <3>1. Pin!TypeOK'
      BY <2>7 DEF Pin!StepTwoAccepts
    <3>2. Pin!SessionUsesPin' /\ Pin!ShownIsCurrent'
      BY <2>7 DEF Pin!StepTwoAccepts
    <3> QED
      BY <3>1, <3>2 DEF PinInv
  <2>8. CASE \E pin \in Pins : Pin!StepTwoRefuses(c, pin)
    BY <2>8 DEF Pin!StepTwoRefuses
  <2> QED
    BY <2>1, <2>2, <2>3, <2>4, <2>5, <2>6, <2>7, <2>8
<1> QED
  BY <1>1, <1>2

(***************************************************************************)
(* The session keys: pairing_ and fairplay_ without a mutex.               *)
(***************************************************************************)

\* What the two objects hold of a client nobody has come between.
Theirs(c) ==
    /\ \A d \in Clients \ {c} : inside[d] = "idle"
    /\ progress[c] = "none" => inside[c] = "setup"
    /\ progress[c] = "setup" => state = "Setup"
    /\ progress[c] = "keys" => state = "Handshake" /\ session = c
    /\ progress[c] \in {"verified", "challenged", "ready"} =>
         state = "Finished" /\ session = c
    /\ progress[c] = "ready" => keymsg = c
    /\ progress[c] # "refused" /\ key[c] # "wrong"

\* A call that has begun is one that the client's progress allows.
CallsInOrder ==
    \A c \in Clients :
        /\ inside[c] = "setup" => progress[c] = "none"
        /\ inside[c] = "phase1" => progress[c] = "setup"
        /\ inside[c] = "phase2" => progress[c] = "keys"
        /\ inside[c] = "challenge" => progress[c] = "verified"
        /\ inside[c] = "handshake" => progress[c] = "challenged"
        /\ inside[c] = "key" => progress[c] = "ready"

KeysTheirs == \A c \in Clients : alone[c] /\ ~torn => Theirs(c)

VerifyInv == Verify!TypeOK /\ CallsInOrder /\ KeysTheirs

\* It holds before the first call.
LEMMA VerifyBegins == Verify!Init => VerifyInv
  BY DEF Verify!Init, VerifyInv, Verify!TypeOK, Verify!States, Verify!Progress,
     CallsInOrder, KeysTheirs

\* Every call's begin and end keeps it.
LEMMA VerifyKept ==
    ASSUME VerifyInv, Verify!Next \/ UNCHANGED verifyV
    PROVE  VerifyInv'
<1> USE ClientsAssumption
<1>1. CASE UNCHANGED verifyV
  BY <1>1 DEF verifyV, VerifyInv, Verify!TypeOK, CallsInOrder, KeysTheirs, Theirs
<1>2. ASSUME NEW c \in Clients, NEW call \in Verify!Calls, Verify!Begin(c, call)
      PROVE  VerifyInv'
  <2>1. Verify!TypeOK'
    BY <1>2 DEF Verify!Begin, VerifyInv, Verify!TypeOK, Verify!Progress
  <2>2. CallsInOrder'
    BY <1>2 DEF Verify!Begin, Verify!Asks, VerifyInv, Verify!TypeOK, CallsInOrder
  <2>3. ASSUME NEW d \in Clients, alone'[d], ~torn'  PROVE Theirs(d)'
    <3>1. d = c
      BY <1>2, <2>3 DEF Verify!Begin
    <3>2. CASE call = "setup"
      BY <1>2, <2>3, <3>1, <3>2 DEF Verify!Begin, VerifyInv, Verify!TypeOK, Theirs
    <3>3. CASE call # "setup"
      <4>1. alone[c] /\ ~torn
        BY <1>2, <2>3, <3>1, <3>3 DEF Verify!Begin
      <4>2. Theirs(c)
        BY <4>1 DEF VerifyInv, KeysTheirs
      <4>3. progress[c] # "none"
        BY <1>2, <3>3 DEF Verify!Begin, Verify!Asks
      <4> QED
        BY <1>2, <3>1, <3>3, <4>2, <4>3 DEF Verify!Begin, VerifyInv, Verify!TypeOK,
           Theirs
    <3> QED
      BY <3>2, <3>3
  <2> QED
    BY <2>1, <2>2, <2>3 DEF VerifyInv, KeysTheirs
<1>3. ASSUME NEW c \in Clients,
             \/ Verify!PairSetup(c) \/ Verify!PhaseOne(c) \/ Verify!PhaseTwo(c)
             \/ Verify!TornCall(c) \/ Verify!Challenge(c) \/ Verify!Handshake(c)
             \/ Verify!DeriveKey(c)
      PROVE  VerifyInv'
  <2> DEFINE Ends(step) == Verify!Leaves(c, step)
  <2>1. PICK step \in Verify!Progress \ {"none"} : Ends(step)
    BY <1>3 DEF Verify!PairSetup, Verify!PhaseOne, Verify!PhaseTwo, Verify!TornCall,
       Verify!Challenge, Verify!Handshake, Verify!DeriveKey, Verify!Progress
  <2>2. inside[c] # "idle" /\ UNCHANGED <<torn, alone>>
    BY <1>3 DEF Verify!PairSetup, Verify!PhaseOne, Verify!PhaseTwo, Verify!TornCall,
       Verify!Challenge, Verify!Handshake, Verify!DeriveKey, Verify!PairingCalls
  <2>3. Verify!TypeOK'
    <3>1. /\ inside' \in [Clients -> Verify!Calls \cup {"idle"}]
          /\ progress' \in [Clients -> Verify!Progress]
      BY <2>1 DEF Verify!Leaves, VerifyInv, Verify!TypeOK
    <3>2. /\ state' \in Verify!States /\ session' \in Clients \cup {Nobody}
          /\ keymsg' \in Clients \cup {Nobody}
          /\ key' \in [Clients -> {"none", "right", "wrong"}]
      BY <1>3 DEF Verify!PairSetup, Verify!PhaseOne, Verify!PhaseTwo, Verify!TornCall,
         Verify!Challenge, Verify!Handshake, Verify!DeriveKey, VerifyInv, Verify!TypeOK,
         Verify!States
    <3> QED
      BY <2>2, <3>1, <3>2 DEF VerifyInv, Verify!TypeOK
  <2>4. CallsInOrder'
    BY <2>1 DEF Verify!Leaves, VerifyInv, Verify!TypeOK, CallsInOrder
  <2>5. ASSUME NEW d \in Clients, alone'[d], ~torn'  PROVE Theirs(d)'
    <3>1. Theirs(d) /\ ~torn
      BY <2>2, <2>5 DEF VerifyInv, KeysTheirs
    <3>2. d = c
      BY <2>2, <3>1 DEF Theirs
    <3> USE <3>1, <3>2 DEF Theirs, VerifyInv, CallsInOrder, Verify!TypeOK, Verify!Leaves
    <3>3. CASE Verify!PairSetup(c)
      BY <3>3 DEF Verify!PairSetup
    <3>4. CASE Verify!PhaseOne(c)
      BY <3>4 DEF Verify!PhaseOne
    <3>5. CASE Verify!PhaseTwo(c)
      BY <3>5 DEF Verify!PhaseTwo
    <3>6. CASE Verify!Challenge(c)
      BY <3>6 DEF Verify!Challenge
    <3>7. CASE Verify!Handshake(c)
      BY <3>7 DEF Verify!Handshake
    <3>8. CASE Verify!DeriveKey(c)
      BY <3>8 DEF Verify!DeriveKey
    <3> QED
      BY <1>3, <3>3, <3>4, <3>5, <3>6, <3>7, <3>8 DEF Verify!TornCall
  <2> QED
    BY <2>3, <2>4, <2>5 DEF VerifyInv, KeysTheirs
<1> QED
  BY <1>1, <1>2, <1>3 DEF Verify!Next

(***************************************************************************)
(* The server's life.                                                      *)
(***************************************************************************)

\* From this phase of stop() on the thread is joined, or was never started.
JoinedFrom(t) ==
    CASE t = "mdns"   -> {"stopRtsp", "joinMirror", "closeEvent", "joinEvent",
                          "closeTiming", "joinTiming", "waitAudio", "idle", "destroyed"}
      [] t = "mirror" -> {"closeEvent", "joinEvent", "closeTiming", "joinTiming",
                          "waitAudio", "idle", "destroyed"}
      [] t = "event"  -> {"closeTiming", "joinTiming", "waitAudio", "idle", "destroyed"}
      [] t = "timing" -> {"waitAudio", "idle", "destroyed"}

\* The listener of the built-in responder runs only while it is the backend,
\* or while stop() is about to join it.
ListenerOwned ==
    thread["mdns"] \in {"run", "ended"} =>
        (phase \in {"up", "unregister"} /\ backend = "Builtin") \/ phase = "joinMdns"

ThreadsJoined ==
    \A t \in Server!Threads : phase \in JoinedFrom(t) => thread[t] \in {"none", "joined"}

\* The service is registered after the control server listens, and only then.
RegisteredServed ==
    /\ phase \in {"starting", "event", "timing", "mdns", "up"} => rtsp
    /\ phase \notin {"up", "unregister"} => backend = "None"
    /\ phase = "unregister" /\ backend # "None" => rtsp

ServerInv ==
    Server!TypeOK /\ ListenerOwned /\ ThreadsJoined /\ RegisteredServed

\* It holds of a server that was never started.
LEMMA ServerBegins == Server!Init => ServerInv
<1>1. Server!Init => Server!TypeOK
  <2>1. Server!Init => /\ running \in BOOLEAN /\ stopped \in BOOLEAN
                       /\ rtsp \in BOOLEAN /\ answering \in BOOLEAN
    BY Zenon DEF Server!Init
  <2>2. Server!Init => thread \in [Server!Threads -> {"none", "run", "ended", "joined"}]
    BY DEF Server!Init
  <2>3. Server!Init => audio \in 0..MaxAudio /\ open = {} /\ draining = {} /\ stuck = {}
    BY MaxAssumption DEF Server!Init
  <2>4. Server!Init => phase = "new" /\ backend = "None"
    BY DEF Server!Init
  <2> QED
    BY <2>1, <2>2, <2>3, <2>4 DEF Server!TypeOK
<1>2. Server!Init => ListenerOwned /\ ThreadsJoined /\ RegisteredServed
  BY DEF Server!Init, Server!Threads, ListenerOwned, ThreadsJoined, RegisteredServed,
     JoinedFrom
<1> QED
  BY <1>1, <1>2 DEF ServerInv

\* Every step of start(), stop() and the threads keeps it.
LEMMA ServerKept ==
    ASSUME ServerInv, Server!Next \/ UNCHANGED serverV
    PROVE  ServerInv'
<1> USE MaxAssumption DEF ServerInv, Server!handlerVars, Server!TypeOK, Server!Threads,
        ListenerOwned, ThreadsJoined, RegisteredServed, JoinedFrom
<1>1. CASE Server!StartRtsp
  BY <1>1 DEF Server!StartRtsp
<1>2. CASE Server!StartFails
  BY <1>2 DEF Server!StartFails
<1>3. CASE Server!StartMirror
  BY <1>3 DEF Server!StartMirror, Server!Runs
<1>4. CASE Server!StartEvent
  BY <1>4 DEF Server!StartEvent, Server!StartListener, Server!Runs
<1>5. CASE Server!StartTiming
  BY <1>5 DEF Server!StartTiming, Server!StartListener, Server!Runs
<1>6. CASE Server!RegisterBonjour
  BY <1>6 DEF Server!RegisterBonjour
<1>7. CASE Server!RegisterBuiltin
  BY <1>7 DEF Server!RegisterBuiltin, Server!Runs
<1>8. CASE Server!RegisterFails
  BY <1>8 DEF Server!RegisterFails
<1>9. CASE Server!StopBegins
  BY <1>9 DEF Server!StopBegins
<1>10. CASE Server!Unregister
  BY <1>10 DEF Server!Unregister
<1>11. CASE Server!JoinMdns
  BY <1>11 DEF Server!JoinMdns, Server!Joins
<1>12. CASE Server!StopRtsp
  BY <1>12 DEF Server!StopRtsp
<1>13. CASE Server!JoinMirror
  BY <1>13 DEF Server!JoinMirror, Server!Joins
<1>14. CASE Server!CloseEvent
  BY <1>14 DEF Server!CloseEvent, Server!CloseListener
<1>15. CASE Server!JoinEvent
  BY <1>15 DEF Server!JoinEvent, Server!Joins
<1>16. CASE Server!CloseTiming
  BY <1>16 DEF Server!CloseTiming, Server!CloseListener
<1>17. CASE Server!JoinTiming
  BY <1>17 DEF Server!JoinTiming, Server!Joins
<1>18. CASE Server!StopWaits
  BY <1>18 DEF Server!StopWaits
<1>19. CASE Server!Destroy
  BY <1>19 DEF Server!Destroy
<1>20. CASE Server!AudioStarts
  BY <1>20 DEF Server!AudioStarts, Server!threadKeeps
<1>21. CASE Server!AudioEnds
  BY <1>21 DEF Server!AudioEnds, Server!threadKeeps
<1>22. ASSUME NEW t \in Server!Threads, Server!ThreadEnds(t)
      PROVE  ServerInv'
  BY <1>22 DEF Server!ThreadEnds
<1>23. ASSUME NEW d \in Drainers, Server!EventConnects(d) \/ Server!DrainerEnds(d)
      PROVE  ServerInv'
  BY <1>23 DEF Server!EventConnects, Server!DrainerEnds, Server!threadKeeps
<1>24. ASSUME NEW s \in {"mirror", "rtsp"}, Server!Jams(s)
      PROVE  ServerInv'
  BY <1>24 DEF Server!Jams
<1>25. CASE UNCHANGED serverV
  BY <1>25 DEF serverV
<1> QED
  BY <1>1, <1>2, <1>3, <1>4, <1>5, <1>6, <1>7, <1>8, <1>9, <1>10, <1>11, <1>12, <1>13,
     <1>14, <1>15, <1>16, <1>17, <1>18, <1>19, <1>20, <1>21, <1>22, <1>23, <1>24, <1>25
  DEF Server!Next, Server!StopStep

(***************************************************************************)
(* The control server: its accept thread, its handlers, the threads that   *)
(* close their handles, and stop().                                        *)
(***************************************************************************)

\* A handle that denotes a connection is the one its handler was given, and the
\* handler has not closed it.
HandlesHeld ==
    \A h \in Handles : table[h] \in Conns =>
        sock[table[h]] = h /\ hpc[table[h]] \notin {"out", "done", "joined"}

\* A handler that has run was given a handle.
SocketsGiven == \A c \in Conns : hpc[c] # "out" => sock[c] \in Handles

\* A connection has been accepted exactly while it is about to be listed.
AcceptedListed == accepted # Nobody <=> accepting = "listing"

\* Every thread has somebody who will join it.
Accounted ==
    \A c \in Conns : hpc[c] \notin {"out", "joined"} =>
        c \in clients \cup toJoin \/ c = accepted

\* Who is listed, or waits to be, has begun.
Begun == \A c \in Conns : c \in clients \cup toShut \cup {accepted} => hpc[c] # "out"

\* What there is at each place of start() and stop().
ServerPlaces ==
    /\ main \in {"off", "failed"} => accepting = "none"
    /\ main \in {"off", "failed", "run", "close", "accept"} => toJoin = {}
    /\ main \in {"shutdown", "join", "stopped"} =>
         accepting \in {"none", "ended"} /\ clients = {}
    /\ main = "stopped" => toJoin = {}

\* However many connections may come, so many have come by now.
FewHandlers == IsFiniteSet({c \in Conns : hpc[c] # "out"})

RtspPlaces ==
    /\ HandlesHeld /\ SocketsGiven
    /\ AcceptedListed /\ Accounted /\ Begun
    /\ ServerPlaces

RtspInv == Rtsp!TypeOK /\ RtspPlaces /\ FewHandlers /\ Rtsp!EntriesMatch

\* The handlers that have put this pair into clients_by_ip_.
Holders(ip, h) == {c \in Conns : IpOf[c] = ip /\ sock[c] = h /\ Rtsp!Tracked(c)}

\* A set of handlers is finite.
LEMMA HoldersFinite ==
    ASSUME FewHandlers, NEW ip, NEW h
    PROVE  IsFiniteSet(Holders(ip, h))
<1>1. Holders(ip, h) \subseteq {c \in Conns : hpc[c] # "out"}
  BY DEF Holders, Rtsp!Tracked
<1> QED
  BY <1>1, FS_Subset DEF FewHandlers

\* RtspServer counts as FiniteSets does.
LEMMA Counts == \A S : Rtsp!Cardinality(S) = Cardinality(S)
  BY DEF Rtsp!Cardinality, Cardinality

\* What is said of the pairs, by the handlers that have them.
LEMMA Matching ==
    /\ Rtsp!EntriesMatch <=>
         \A ip \in Ips, h \in Handles : entries[<<ip, h>>] = Cardinality(Holders(ip, h))
    /\ Rtsp!EntriesMatch' <=>
         \A ip \in Ips, h \in Handles : entries'[<<ip, h>>] = Cardinality(Holders(ip, h)')
<1>1. Rtsp!EntriesMatch <=>
        \A ip \in Ips, h \in Handles : entries[<<ip, h>>] = Rtsp!Cardinality(Holders(ip, h))
  BY Zenon DEF Rtsp!EntriesMatch, Holders
<1>2. Rtsp!EntriesMatch' <=>
        \A ip \in Ips, h \in Handles : entries'[<<ip, h>>] = Rtsp!Cardinality(Holders(ip, h)')
  BY Zenon DEF Rtsp!EntriesMatch, Holders
<1> QED
  BY <1>1, <1>2, Counts

\* The pairs match after a step at which no handler comes or goes.
LEMMA EntriesStay ==
    ASSUME Rtsp!EntriesMatch, UNCHANGED entries,
           \A c \in Conns : Rtsp!Tracked(c)' <=> Rtsp!Tracked(c),
           \A c \in Conns : Rtsp!Tracked(c) => sock'[c] = sock[c]
    PROVE  Rtsp!EntriesMatch'
<1>1. \A ip, h : Holders(ip, h)' = Holders(ip, h)
  BY DEF Holders
<1> QED
  BY <1>1, Matching

\* A handler puts its own pair in.
LEMMA PairAdded ==
    ASSUME FewHandlers, Rtsp!EntriesMatch, Rtsp!TypeOK, SocketsGiven,
           NEW c \in Conns, Rtsp!Enter(c)
    PROVE  Rtsp!EntriesMatch' /\ entries' \in [Ips \X Handles -> Nat]
<1>1. sock[c] \in Handles /\ IpOf[c] \in Ips
  BY ConnsAssumption DEF Rtsp!Enter, SocketsGiven
<1>2. ~Rtsp!Tracked(c) /\ Rtsp!Tracked(c)' /\ sock' = sock
  BY DEF Rtsp!Enter, Rtsp!Tracked, Rtsp!TypeOK, Rtsp!handlerKeeps
<1>3. \A d \in Conns \ {c} : Rtsp!Tracked(d)' <=> Rtsp!Tracked(d)
  BY DEF Rtsp!Enter, Rtsp!Tracked, Rtsp!TypeOK
<1>4. ASSUME NEW ip \in Ips, NEW h \in Handles
      PROVE  entries'[<<ip, h>>] = Cardinality(Holders(ip, h)') /\ entries'[<<ip, h>>] \in Nat
  <2>1. entries[<<ip, h>>] = Cardinality(Holders(ip, h)) /\ entries[<<ip, h>>] \in Nat
    BY Matching DEF Rtsp!TypeOK
  <2>2. CASE ip = IpOf[c] /\ h = sock[c]
    <3>1. Holders(ip, h)' = Holders(ip, h) \cup {c} /\ c \notin Holders(ip, h)
      BY <1>2, <1>3, <2>2 DEF Holders
    <3>2. Cardinality(Holders(ip, h)') = Cardinality(Holders(ip, h)) + 1
      BY <3>1, HoldersFinite, FS_AddElement
    <3>3. entries'[<<ip, h>>] = entries[<<ip, h>>] + 1
      BY <1>1, <2>2 DEF Rtsp!Enter, Rtsp!TypeOK
    <3> QED
      BY <2>1, <3>2, <3>3
  <2>3. CASE ~(ip = IpOf[c] /\ h = sock[c])
    <3>1. Holders(ip, h)' = Holders(ip, h)
      BY <1>2, <1>3, <2>3 DEF Holders
    <3>2. entries'[<<ip, h>>] = entries[<<ip, h>>]
      BY <1>1, <2>3 DEF Rtsp!Enter, Rtsp!TypeOK
    <3> QED
      BY <2>1, <3>1, <3>2
  <2> QED
    BY <2>2, <2>3
<1>5. entries' \in [Ips \X Handles -> Nat]
  BY <1>1, <1>4 DEF Rtsp!Enter, Rtsp!TypeOK
<1> QED
  BY <1>4, <1>5, Matching

\* A handler takes one of its pairs out: it has one.
LEMMA PairRemoved ==
    ASSUME FewHandlers, Rtsp!EntriesMatch, Rtsp!TypeOK, SocketsGiven,
           NEW c \in Conns, Rtsp!Unlist(c)
    PROVE  Rtsp!EntriesMatch' /\ entries' \in [Ips \X Handles -> Nat]
<1>1. sock[c] \in Handles /\ IpOf[c] \in Ips
  BY ConnsAssumption DEF Rtsp!Unlist, SocketsGiven
<1>2. Rtsp!Tracked(c) /\ ~Rtsp!Tracked(c)' /\ sock' = sock
  BY DEF Rtsp!Unlist, Rtsp!Tracked, Rtsp!TypeOK, Rtsp!handlerKeeps
<1>3. \A d \in Conns \ {c} : Rtsp!Tracked(d)' <=> Rtsp!Tracked(d)
  BY DEF Rtsp!Unlist, Rtsp!Tracked, Rtsp!TypeOK
<1>4. ASSUME NEW ip \in Ips, NEW h \in Handles
      PROVE  entries'[<<ip, h>>] = Cardinality(Holders(ip, h)') /\ entries'[<<ip, h>>] \in Nat
  <2>1. entries[<<ip, h>>] = Cardinality(Holders(ip, h)) /\ entries[<<ip, h>>] \in Nat
    BY Matching DEF Rtsp!TypeOK
  <2>2. CASE ip = IpOf[c] /\ h = sock[c]
    <3>1. Holders(ip, h)' = Holders(ip, h) \ {c} /\ c \in Holders(ip, h)
      BY <1>2, <1>3, <2>2 DEF Holders
    <3>2. Cardinality(Holders(ip, h)') = Cardinality(Holders(ip, h)) - 1
      BY <3>1, HoldersFinite, FS_RemoveElement
    <3>3. entries'[<<ip, h>>] = entries[<<ip, h>>] - 1
      BY <1>1, <2>2 DEF Rtsp!Unlist, Rtsp!TypeOK
    <3>4. IsFiniteSet(Holders(ip, h)')
      BY <3>1, HoldersFinite, FS_RemoveElement
    <3>5. Cardinality(Holders(ip, h)') \in Nat
      BY <3>4, FS_CardinalityType
    <3> QED
      BY <2>1, <3>2, <3>3, <3>5
  <2>3. CASE ~(ip = IpOf[c] /\ h = sock[c])
    <3>1. Holders(ip, h)' = Holders(ip, h)
      BY <1>2, <1>3, <2>3 DEF Holders
    <3>2. entries'[<<ip, h>>] = entries[<<ip, h>>]
      BY <1>1, <2>3 DEF Rtsp!Unlist, Rtsp!TypeOK
    <3> QED
      BY <2>1, <3>1, <3>2
  <2> QED
    BY <2>2, <2>3
<1>5. entries' \in [Ips \X Handles -> Nat]
  BY <1>1, <1>4 DEF Rtsp!Unlist, Rtsp!TypeOK
<1> QED
  BY <1>4, <1>5, Matching

\* Every step of the control server keeps the types.
LEMMA RtspTyped ==
    ASSUME RtspInv, Rtsp!Next \/ UNCHANGED rtspV
    PROVE  Rtsp!TypeOK'
<1> USE ConnsAssumption DEF RtspInv, RtspPlaces, SocketsGiven, AcceptedListed, Begun,
        Rtsp!TypeOK, Rtsp!Endpoints
<1>1. CASE Rtsp!Start
  BY <1>1 DEF Rtsp!Start, Rtsp!Opens, Rtsp!kickVars, Rtsp!FreeHandles, Rtsp!Bound
<1>2. CASE Rtsp!StartFails
  BY <1>2 DEF Rtsp!StartFails, Rtsp!kickVars, Rtsp!acceptVars
<1>3. CASE Rtsp!StopRunning
  BY <1>3 DEF Rtsp!StopRunning, Rtsp!acceptVars, Rtsp!stopKeeps, Rtsp!kickVars
<1>4. CASE Rtsp!Poll
  BY <1>4 DEF Rtsp!Poll, Rtsp!mainVars, Rtsp!kickVars
<1>5. CASE Rtsp!NothingAccepted
  BY <1>5 DEF Rtsp!NothingAccepted, Rtsp!mainVars, Rtsp!kickVars
<1>6. CASE Rtsp!ListClient
  BY <1>6 DEF Rtsp!ListClient, Rtsp!Reaped, Rtsp!mainVars, Rtsp!kickVars
<1>7. CASE Rtsp!StopListening
  BY <1>7 DEF Rtsp!StopListening, Rtsp!Closes, Rtsp!acceptVars, Rtsp!stopKeeps,
     Rtsp!kickVars, Rtsp!Closed
<1>8. CASE Rtsp!StopAccepting
  BY <1>8 DEF Rtsp!StopAccepting, Rtsp!TakeClients, Rtsp!acceptVars, Rtsp!stopKeeps,
     Rtsp!kickVars
<1>9. CASE Rtsp!AllShut
  BY <1>9 DEF Rtsp!AllShut, Rtsp!acceptVars, Rtsp!stopKeeps, Rtsp!kickVars
<1>10. CASE Rtsp!StopEnds
  BY <1>10 DEF Rtsp!StopEnds, Rtsp!acceptVars, Rtsp!stopKeeps, Rtsp!kickVars
<1>11. ASSUME NEW c \in Conns, Rtsp!ShutClient(c)  PROVE Rtsp!TypeOK'
  BY <1>11 DEF Rtsp!ShutClient, Rtsp!acceptVars, Rtsp!stopKeeps, Rtsp!kickVars
<1>12. ASSUME NEW c \in Conns, Rtsp!JoinClient(c)  PROVE Rtsp!TypeOK'
  BY <1>12 DEF Rtsp!JoinClient, Rtsp!acceptVars, Rtsp!stopKeeps, Rtsp!kickVars
<1>13. ASSUME NEW c \in Conns, Rtsp!AcceptClient(c)  PROVE Rtsp!TypeOK'
  BY <1>13 DEF Rtsp!AcceptClient, Rtsp!Opens, Rtsp!mainVars, Rtsp!kickVars,
     Rtsp!FreeHandles, Rtsp!Bound
<1>14. ASSUME NEW c \in Conns, Rtsp!Receive(c)  PROVE Rtsp!TypeOK'
  BY <1>14 DEF Rtsp!Receive, Rtsp!handlerKeeps, Rtsp!acceptVars, Rtsp!mainVars,
     Rtsp!kickVars
<1>15. ASSUME NEW c \in Conns, Rtsp!PeerEnds(c)  PROVE Rtsp!TypeOK'
  BY <1>15 DEF Rtsp!PeerEnds, Rtsp!handlerKeeps, Rtsp!acceptVars, Rtsp!mainVars,
     Rtsp!kickVars
<1>16. ASSUME NEW c \in Conns, Rtsp!ReadFails(c)  PROVE Rtsp!TypeOK'
  BY <1>16 DEF Rtsp!ReadFails, Rtsp!handlerKeeps, Rtsp!acceptVars, Rtsp!mainVars,
     Rtsp!kickVars
<1>17. ASSUME NEW c \in Conns, Rtsp!Respond(c)  PROVE Rtsp!TypeOK'
  BY <1>17 DEF Rtsp!Respond, Rtsp!handlerKeeps, Rtsp!acceptVars, Rtsp!mainVars,
     Rtsp!kickVars
<1>18. ASSUME NEW c \in Conns, Rtsp!Enter(c)  PROVE Rtsp!TypeOK'
  BY <1>18, PairAdded DEF Rtsp!Enter, Rtsp!handlerKeeps, Rtsp!acceptVars,
     Rtsp!mainVars, Rtsp!kickVars
<1>19. ASSUME NEW c \in Conns, Rtsp!Unlist(c)  PROVE Rtsp!TypeOK'
  BY <1>19, PairRemoved DEF Rtsp!Unlist, Rtsp!handlerKeeps, Rtsp!acceptVars,
     Rtsp!mainVars, Rtsp!kickVars
<1>20. ASSUME NEW c \in Conns, Rtsp!CloseClient(c)  PROVE Rtsp!TypeOK'
  BY <1>20 DEF Rtsp!CloseClient, Rtsp!Closes, Rtsp!handlerKeeps, Rtsp!acceptVars,
     Rtsp!mainVars, Rtsp!kickVars, Rtsp!Closed
<1>21. ASSUME NEW k \in Kickers, Rtsp!KickRead(k)  PROVE Rtsp!TypeOK'
  BY <1>21 DEF Rtsp!KickRead, Rtsp!kickKeeps, Rtsp!acceptVars, Rtsp!mainVars
<1>22. ASSUME NEW k \in Kickers, Rtsp!KickClose(k)  PROVE Rtsp!TypeOK'
  BY <1>22 DEF Rtsp!KickClose, Rtsp!Closes, Rtsp!kickKeeps, Rtsp!acceptVars,
     Rtsp!mainVars, Rtsp!Closed
<1>23. CASE Rtsp!OtherOpens
  BY <1>23 DEF Rtsp!OtherOpens, Rtsp!Opens, Rtsp!otherKeeps, Rtsp!acceptVars,
     Rtsp!mainVars, Rtsp!kickVars, Rtsp!FreeHandles, Rtsp!Bound
<1>24. CASE Rtsp!OtherCloses
  BY <1>24 DEF Rtsp!OtherCloses, Rtsp!Closes, Rtsp!otherKeeps, Rtsp!acceptVars,
     Rtsp!mainVars, Rtsp!kickVars, Rtsp!Closed
<1>25. CASE UNCHANGED rtspV
  BY <1>25 DEF rtspV
<1> QED
  BY <1>1, <1>2, <1>3, <1>4, <1>5, <1>6, <1>7, <1>8, <1>9, <1>10, <1>11, <1>12, <1>13,
     <1>14, <1>15, <1>16, <1>17, <1>18, <1>19, <1>20, <1>21, <1>22, <1>23, <1>24,
     <1>25
     DEF Rtsp!Next, Rtsp!AcceptStep, Rtsp!StopStep, Rtsp!HandlerStep

\* It keeps what is at its places.
LEMMA RtspPlacesKept ==
    ASSUME RtspInv, Rtsp!Next \/ UNCHANGED rtspV
    PROVE  RtspPlaces'
<1> USE ConnsAssumption DEF RtspInv, RtspPlaces, HandlesHeld, SocketsGiven, AcceptedListed,
        Accounted, Begun, ServerPlaces, Rtsp!TypeOK, Rtsp!Endpoints
<1>1. CASE Rtsp!Start
  BY <1>1 DEF Rtsp!Start, Rtsp!Opens, Rtsp!kickVars, Rtsp!FreeHandles, Rtsp!Bound
<1>2. CASE Rtsp!StartFails
  BY <1>2 DEF Rtsp!StartFails, Rtsp!kickVars, Rtsp!acceptVars
<1>3. CASE Rtsp!StopRunning
  BY <1>3 DEF Rtsp!StopRunning, Rtsp!acceptVars, Rtsp!stopKeeps, Rtsp!kickVars
<1>4. CASE Rtsp!Poll
  BY <1>4 DEF Rtsp!Poll, Rtsp!mainVars, Rtsp!kickVars
<1>5. CASE Rtsp!NothingAccepted
  BY <1>5 DEF Rtsp!NothingAccepted, Rtsp!mainVars, Rtsp!kickVars
<1>6. CASE Rtsp!ListClient
  BY <1>6 DEF Rtsp!ListClient, Rtsp!Reaped, Rtsp!mainVars, Rtsp!kickVars
<1>7. CASE Rtsp!StopListening
  BY <1>7 DEF Rtsp!StopListening, Rtsp!Closes, Rtsp!acceptVars, Rtsp!stopKeeps,
     Rtsp!kickVars, Rtsp!Closed
<1>8. CASE Rtsp!StopAccepting
  BY <1>8 DEF Rtsp!StopAccepting, Rtsp!TakeClients, Rtsp!acceptVars, Rtsp!stopKeeps,
     Rtsp!kickVars
<1>9. CASE Rtsp!AllShut
  BY <1>9 DEF Rtsp!AllShut, Rtsp!acceptVars, Rtsp!stopKeeps, Rtsp!kickVars
<1>10. CASE Rtsp!StopEnds
  BY <1>10 DEF Rtsp!StopEnds, Rtsp!acceptVars, Rtsp!stopKeeps, Rtsp!kickVars
<1>11. ASSUME NEW c \in Conns, Rtsp!ShutClient(c)  PROVE RtspPlaces'
  BY <1>11 DEF Rtsp!ShutClient, Rtsp!acceptVars, Rtsp!stopKeeps, Rtsp!kickVars
<1>12. ASSUME NEW c \in Conns, Rtsp!JoinClient(c)  PROVE RtspPlaces'
  BY <1>12 DEF Rtsp!JoinClient, Rtsp!acceptVars, Rtsp!stopKeeps, Rtsp!kickVars
<1>13. ASSUME NEW c \in Conns, Rtsp!AcceptClient(c)  PROVE RtspPlaces'
  BY <1>13 DEF Rtsp!AcceptClient, Rtsp!Opens, Rtsp!mainVars, Rtsp!kickVars,
     Rtsp!FreeHandles, Rtsp!Bound
<1>14. ASSUME NEW c \in Conns, Rtsp!Receive(c)  PROVE RtspPlaces'
  BY <1>14 DEF Rtsp!Receive, Rtsp!handlerKeeps, Rtsp!acceptVars, Rtsp!mainVars,
     Rtsp!kickVars
<1>15. ASSUME NEW c \in Conns, Rtsp!PeerEnds(c)  PROVE RtspPlaces'
  BY <1>15 DEF Rtsp!PeerEnds, Rtsp!handlerKeeps, Rtsp!acceptVars, Rtsp!mainVars,
     Rtsp!kickVars
<1>16. ASSUME NEW c \in Conns, Rtsp!ReadFails(c)  PROVE RtspPlaces'
  BY <1>16 DEF Rtsp!ReadFails, Rtsp!handlerKeeps, Rtsp!acceptVars, Rtsp!mainVars,
     Rtsp!kickVars
<1>17. ASSUME NEW c \in Conns, Rtsp!Respond(c)  PROVE RtspPlaces'
  <2>1. /\ hpc[c] \in {"respond", "last"} /\ hpc'[c] \in {"read", "unlist"}
        /\ \A d \in Conns \ {c} : hpc'[d] = hpc[d]
    BY <1>17 DEF Rtsp!Respond
  <2> QED
    BY <1>17, <2>1 DEF Rtsp!Respond, Rtsp!handlerKeeps, Rtsp!acceptVars,
       Rtsp!mainVars,
       Rtsp!kickVars
<1>18. ASSUME NEW c \in Conns, Rtsp!Enter(c)  PROVE RtspPlaces'
  BY <1>18 DEF Rtsp!Enter, Rtsp!handlerKeeps, Rtsp!acceptVars, Rtsp!mainVars,
     Rtsp!kickVars
<1>19. ASSUME NEW c \in Conns, Rtsp!Unlist(c)  PROVE RtspPlaces'
  BY <1>19 DEF Rtsp!Unlist, Rtsp!handlerKeeps, Rtsp!acceptVars, Rtsp!mainVars,
     Rtsp!kickVars
<1>20. ASSUME NEW c \in Conns, Rtsp!CloseClient(c)  PROVE RtspPlaces'
  BY <1>20 DEF Rtsp!CloseClient, Rtsp!Closes, Rtsp!handlerKeeps, Rtsp!acceptVars,
     Rtsp!mainVars, Rtsp!kickVars, Rtsp!Closed
<1>21. ASSUME NEW k \in Kickers, Rtsp!KickRead(k)  PROVE RtspPlaces'
  BY <1>21 DEF Rtsp!KickRead, Rtsp!kickKeeps, Rtsp!acceptVars, Rtsp!mainVars
<1>22. ASSUME NEW k \in Kickers, Rtsp!KickClose(k)  PROVE RtspPlaces'
  BY <1>22 DEF Rtsp!KickClose, Rtsp!Closes, Rtsp!kickKeeps, Rtsp!acceptVars,
     Rtsp!mainVars, Rtsp!Closed
<1>23. CASE Rtsp!OtherOpens
  BY <1>23 DEF Rtsp!OtherOpens, Rtsp!Opens, Rtsp!otherKeeps, Rtsp!acceptVars,
     Rtsp!mainVars, Rtsp!kickVars, Rtsp!FreeHandles, Rtsp!Bound
<1>24. CASE Rtsp!OtherCloses
  BY <1>24 DEF Rtsp!OtherCloses, Rtsp!Closes, Rtsp!otherKeeps, Rtsp!acceptVars,
     Rtsp!mainVars, Rtsp!kickVars, Rtsp!Closed
<1>25. CASE UNCHANGED rtspV
  BY <1>25 DEF rtspV
<1> QED
  BY <1>1, <1>2, <1>3, <1>4, <1>5, <1>6, <1>7, <1>8, <1>9, <1>10, <1>11, <1>12, <1>13,
     <1>14, <1>15, <1>16, <1>17, <1>18, <1>19, <1>20, <1>21, <1>22, <1>23, <1>24,
     <1>25
     DEF Rtsp!Next, Rtsp!AcceptStep, Rtsp!StopStep, Rtsp!HandlerStep

\* A step brings one connection at most.
LEMMA FewHandlersKept ==
    ASSUME RtspInv, Rtsp!Next \/ UNCHANGED rtspV
    PROVE  FewHandlers'
<1> DEFINE Begins == {c \in Conns : hpc[c] # "out"}
<1>1. CASE \E c \in Conns : Rtsp!AcceptClient(c)
  <2> PICK c \in Conns : Rtsp!AcceptClient(c)
    BY <1>1
  <2>1. Begins' \subseteq Begins \cup {c}
    BY DEF Rtsp!AcceptClient, RtspInv, Rtsp!TypeOK
  <2>2. IsFiniteSet(Begins \cup {c})
    BY FS_AddElement DEF RtspInv, FewHandlers
  <2> QED
    BY <2>1, <2>2, FS_Subset DEF FewHandlers
<1>2. CASE ~\E c \in Conns : Rtsp!AcceptClient(c)
  <2>1. Begins' \subseteq Begins
    <3> USE DEF RtspInv, Rtsp!TypeOK
    <3>1. CASE Rtsp!ListClient
      BY <3>1 DEF Rtsp!ListClient, Rtsp!Reaped
    <3>2. ASSUME NEW c \in Conns, hpc[c] # "out",
                 hpc' = [hpc EXCEPT ![c] = hpc'[c]]
          PROVE  Begins' \subseteq Begins
      BY <3>2
    <3>3. CASE UNCHANGED hpc
      BY <3>3
    <3>4. \/ Rtsp!ListClient \/ UNCHANGED hpc
          \/ \E c \in Conns : hpc[c] # "out" /\ hpc' = [hpc EXCEPT ![c] = hpc'[c]]
      BY <1>2 DEF Rtsp!Next, Rtsp!AcceptStep, Rtsp!StopStep, Rtsp!HandlerStep, rtspV,
         Rtsp!Start, Rtsp!StartFails, Rtsp!StopRunning, Rtsp!Poll, Rtsp!NothingAccepted,
         Rtsp!StopListening, Rtsp!StopAccepting, Rtsp!TakeClients, Rtsp!AllShut,
         Rtsp!StopEnds, Rtsp!ShutClient, Rtsp!JoinClient, Rtsp!Receive, Rtsp!PeerEnds,
         Rtsp!ReadFails, Rtsp!Respond, Rtsp!Enter, Rtsp!Unlist, Rtsp!CloseClient,
         Rtsp!KickRead, Rtsp!KickClose, Rtsp!OtherOpens, Rtsp!OtherCloses,
         Rtsp!kickKeeps, Rtsp!otherKeeps
    <3> QED
      BY <3>1, <3>2, <3>3, <3>4
  <2> QED
    BY <2>1, FS_Subset DEF RtspInv, FewHandlers
<1> QED
  BY <1>1, <1>2

\* It keeps the pairs: only Enter and Unlist touch them.
LEMMA RtspEntriesKept ==
    ASSUME RtspInv, Rtsp!Next \/ UNCHANGED rtspV
    PROVE  Rtsp!EntriesMatch'
<1>1. CASE \E c \in Conns : Rtsp!Enter(c)
  BY <1>1, PairAdded DEF RtspInv, RtspPlaces
<1>2. CASE \E c \in Conns : Rtsp!Unlist(c)
  BY <1>2, PairRemoved DEF RtspInv, RtspPlaces
<1>3. CASE ~\E c \in Conns : Rtsp!Enter(c) \/ Rtsp!Unlist(c)
  <2>1. UNCHANGED entries
    BY <1>3 DEF Rtsp!Next, Rtsp!AcceptStep, Rtsp!StopStep, Rtsp!HandlerStep, rtspV,
       Rtsp!Start, Rtsp!StartFails, Rtsp!StopRunning, Rtsp!Poll, Rtsp!NothingAccepted,
       Rtsp!ListClient, Rtsp!StopListening, Rtsp!StopAccepting, Rtsp!TakeClients,
       Rtsp!AllShut, Rtsp!StopEnds, Rtsp!ShutClient, Rtsp!JoinClient, Rtsp!AcceptClient,
       Rtsp!Receive, Rtsp!PeerEnds, Rtsp!ReadFails, Rtsp!Respond, Rtsp!CloseClient,
       Rtsp!KickRead, Rtsp!KickClose, Rtsp!OtherOpens, Rtsp!OtherCloses,
       Rtsp!handlerKeeps, Rtsp!stopKeeps, Rtsp!kickKeeps, Rtsp!otherKeeps
  <2>2. \A c \in Conns : /\ Rtsp!Tracked(c)' <=> Rtsp!Tracked(c)
                         /\ Rtsp!Tracked(c) => sock'[c] = sock[c]
    <3> USE DEF RtspInv, Rtsp!TypeOK, Rtsp!Tracked
    <3>1. CASE Rtsp!ListClient
      BY <3>1 DEF Rtsp!ListClient, Rtsp!Reaped
    <3>2. CASE \E c \in Conns :
            \/ Rtsp!AcceptClient(c) \/ Rtsp!Receive(c) \/ Rtsp!PeerEnds(c)
            \/ Rtsp!ReadFails(c) \/ Rtsp!Respond(c) \/ Rtsp!CloseClient(c)
            \/ Rtsp!JoinClient(c)
      BY <3>2 DEF Rtsp!AcceptClient, Rtsp!Receive, Rtsp!PeerEnds, Rtsp!ReadFails,
         Rtsp!Respond, Rtsp!CloseClient, Rtsp!JoinClient, Rtsp!handlerKeeps,
         Rtsp!stopKeeps
    <3>3. CASE UNCHANGED <<hpc, sock>>
      BY <3>3
    <3> QED
      BY <1>3, <3>1, <3>2, <3>3
      DEF Rtsp!Next, Rtsp!AcceptStep, Rtsp!StopStep, Rtsp!HandlerStep, rtspV, Rtsp!Start,
          Rtsp!StartFails, Rtsp!StopRunning, Rtsp!Poll, Rtsp!NothingAccepted,
          Rtsp!StopListening, Rtsp!StopAccepting, Rtsp!TakeClients, Rtsp!AllShut,
          Rtsp!StopEnds, Rtsp!ShutClient, Rtsp!KickRead, Rtsp!KickClose,
          Rtsp!OtherOpens, Rtsp!OtherCloses, Rtsp!stopKeeps, Rtsp!kickKeeps,
          Rtsp!otherKeeps
  <2> QED
    BY <2>1, <2>2, EntriesStay DEF RtspInv
<1> QED
  BY <1>1, <1>2, <1>3

\* Nothing runs before start().
LEMMA RtspBegins == Rtsp!Init => RtspInv
<1> SUFFICES ASSUME Rtsp!Init  PROVE RtspInv
  OBVIOUS
<1> USE ConnsAssumption
<1>1. Rtsp!TypeOK
  <2>1. accepts \in BOOLEAN
    BY Zenon DEF Rtsp!Init
  <2>2. /\ table \in [Handles -> Rtsp!Endpoints] /\ sock \in [Conns -> Handles \cup {NoHandle}]
        /\ entries \in [Ips \X Handles -> Nat] /\ kicking \in [Kickers -> SUBSET Handles]
    BY DEF Rtsp!Init, Rtsp!Endpoints
  <2>3. hpc \in [Conns -> {"out"}]
    BY DEF Rtsp!Init
  <2> QED
    BY <2>1, <2>2, <2>3 DEF Rtsp!Init, Rtsp!TypeOK
<1>2. RtspPlaces
  BY DEF Rtsp!Init, RtspPlaces, HandlesHeld, SocketsGiven, AcceptedListed, Accounted,
     Begun, ServerPlaces
<1>3. {c \in Conns : hpc[c] # "out"} = {}
  BY DEF Rtsp!Init
<1>4. FewHandlers
  BY <1>3, FS_EmptySet DEF FewHandlers
<1>5. Rtsp!EntriesMatch
  <2>1. \A ip, h : Holders(ip, h) = {}
    BY DEF Rtsp!Init, Holders, Rtsp!Tracked
  <2>2. \A ip \in Ips, h \in Handles : entries[<<ip, h>>] = 0
    BY DEF Rtsp!Init
  <2> QED
    BY <2>1, <2>2, FS_EmptySet, Matching
<1> QED
  BY <1>1, <1>2, <1>4, <1>5 DEF RtspInv

\* What the property says of stop(): the accept thread was joined first, and then
\* everybody who was listed.
LEMMA RtspHolds == RtspInv => Rtsp!StoppedClean /\ Rtsp!EntriesMatch
<1> SUFFICES ASSUME RtspInv  PROVE Rtsp!StoppedClean
  BY DEF RtspInv
<1> SUFFICES ASSUME main = "stopped"
             PROVE  /\ accepting \in {"none", "ended"}
                    /\ \A c \in Conns : hpc[c] \in {"out", "joined"}
                    /\ \A h \in Handles : table[h] \notin Conns
  BY DEF Rtsp!StoppedClean
<1>1. /\ accepting \in {"none", "ended"} /\ clients = {} /\ toJoin = {}
      /\ accepted \notin Conns
  BY ConnsAssumption DEF RtspInv, RtspPlaces, ServerPlaces, AcceptedListed
<1>2. \A c \in Conns : hpc[c] \in {"out", "joined"}
  BY <1>1 DEF RtspInv, RtspPlaces, Accounted
<1> QED
  BY <1>1, <1>2 DEF RtspInv, RtspPlaces, HandlesHeld

(***************************************************************************)
(* The theorems.                                                           *)
(***************************************************************************)

\* After stop() no handler runs and no connection is open, and clients_by_ip_ has
\* what the handlers hold, for any connections, whoever closes their handles and
\* however often a number is given out again (tcp_server.cpp, rtsp_server.cpp).
THEOREM ControlServerClean == Spec => []RtspSafe
<1>1. Init => RtspInv
  BY RtspBegins DEF Init
<1>2. RtspInv /\ [Next]_vars => RtspInv'
  BY RtspTyped, RtspPlacesKept, FewHandlersKept, RtspEntriesKept DEF Next, vars,
     RtspInv
<1>3. RtspInv => RtspSafe
  BY RtspHolds DEF RtspSafe
<1> QED
  BY <1>1, <1>2, <1>3, PTL DEF Spec

\* A session that goes on is one of the PIN of now, the PIN on the screen can be
\* entered or came late, and a client that nobody comes between is not refused and
\* gets its key, for any number of clients and PINs (airplay_server.cpp, pairing.cpp).
THEOREM PairingHolds == Spec => []PairingSafe
<1>1. Init => PinInv /\ VerifyInv
  BY PinBegins, VerifyBegins DEF Init
<1>2. PinInv /\ [Next]_vars => PinInv'
  BY PinKept DEF Next, vars
<1>3. VerifyInv /\ [Next]_vars => VerifyInv'
  BY VerifyKept DEF Next, vars
<1>4. VerifyInv => Verify!AloneSucceeds
  BY DEF VerifyInv, KeysTheirs, Theirs, Verify!AloneSucceeds
<1>5. PinInv /\ VerifyInv => PairingSafe
  BY <1>4 DEF PinInv, PairingSafe
<1> QED
  BY <1>1, <1>2, <1>3, <1>5, PTL DEF Spec

\* No thread of the server is joinable when it is destroyed, whichever part of
\* start() failed, and what is advertised is served (airplay_server.cpp).
THEOREM ServerJoined == Spec => []ServerSafe
<1>1. Init => ServerInv
  BY ServerBegins DEF Init
<1>2. ServerInv /\ [Next]_vars => ServerInv'
  BY ServerKept DEF Next, vars
<1>3. ServerInv => Server!NoThreadLeft
  BY DEF ServerInv, ThreadsJoined, JoinedFrom, Server!Threads, Server!NoThreadLeft
<1>4. ServerInv => Server!AdvertisedServed
  BY DEF ServerInv, RegisteredServed, Server!AdvertisedServed
<1>5. ServerInv => ServerSafe
  BY <1>3, <1>4 DEF ServerSafe
<1> QED
  BY <1>1, <1>2, <1>5, PTL DEF Spec
=============================================================================
