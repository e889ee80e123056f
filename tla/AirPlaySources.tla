--------------------------- MODULE AirPlaySources ---------------------------
(***************************************************************************)
(* The source registry of the AirPlay server (src/airplay/airplay_server): *)
(* `sources_`, `active_source_id_` and `next_source_number_`, all under    *)
(* `sources_mutex_`, and every thread that touches them:                   *)
(*                                                                         *)
(*   - one handler thread per mirror TCP connection (mirror_receive_loop), *)
(*   - one RTSP handler thread per device (handle_setup, handle_teardown), *)
(*   - the detached audio threads (audio_receive_loop),                    *)
(*   - the UI thread (set_active_source) and the detached threads the UI   *)
(*     starts to drop a device (disconnect_source),                        *)
(*   - the thread that stops the server.                                   *)
(*                                                                         *)
(* A critical section of sources_mutex_ is one step, with one exception:   *)
(* erasing a source holds sources_mutex_ while the decoder's destructor    *)
(* asks for the decoder's video_mutex_, which a handler that decodes holds *)
(* while its callback asks for sources_mutex_.                             *)
(*                                                                         *)
(* Every section that notifies ends with the notification, and the mutex   *)
(* is free from there on: what the callbacks do with the lists they are    *)
(* given, and in which order they get them, is not modelled here, nor is   *)
(* what App does with a picture or with on_disconnect_().                  *)
(***************************************************************************)
EXTENDS Naturals, FiniteSets, SocketTable

CONSTANTS
    Ips,           \* client IPs: the keys of sources_
    Conns,         \* slots for mirror handler threads
    PeerOf,        \* the device a connection, audio stream or disconnect is of
    AudioThreads,  \* slots for audio threads
    Kickers,       \* slots for the UI's disconnect threads
    NoIp,          \* active_source_id_ is empty
    MaxNumber      \* no new session once next_source_number_ is beyond this

Threads == Conns \cup Ips \cup AudioThreads \cup Kickers

ASSUME ThreadsAssumption ==
    /\ PeerOf \in [Conns \cup AudioThreads \cup Kickers -> Ips]
    /\ NoIp \notin Ips
    /\ Nobody \notin Threads
    /\ Conns \cap (Ips \cup AudioThreads \cup Kickers) = {}
    /\ Ips \cap (AudioThreads \cup Kickers) = {}
    /\ AudioThreads \cap Kickers = {}

ASSUME MaxNumberAssumption == MaxNumber \in Nat

VARIABLES
    running,     \* running_
    reg,         \* the keys of sources_
    sources,     \* their values; NoSource outside reg
    nextNumber,  \* next_source_number_
    active,      \* active_source_id_
    mutex,       \* who keeps sources_mutex_ across steps
    pc,          \* where each thread is
    sock,        \* client of a mirror handler, data_sock of an audio thread,
                 \* kick of a disconnect thread
    prev,        \* prev_sock of a mirror handler
    dangling,    \* mirror handlers whose `dec` points into an erased source
    table        \* the system's socket handles

registryVars == <<reg, sources, nextNumber, active>>
vars == <<running, registryVars, mutex, pc, sock, prev, dangling, table>>

\* The part of a MirrorSource the control flow depends on.  The audio
\* stream's two UDP sockets live and die together and are one handle.
Source == [number : Nat, mirror_sock : Handles \cup {NoHandle},
           audio_sock : Handles \cup {NoHandle},
           has_aes_key : BOOLEAN, has_aes_iv : BOOLEAN, paused : BOOLEAN]
\* Mutant: a source starts with socket 0 instead of INVALID_SOCK.
ZeroSource == [number |-> 0, mirror_sock |-> 0, audio_sock |-> NoHandle,
               has_aes_key |-> FALSE, has_aes_iv |-> FALSE, paused |-> FALSE]

NoSource == [number |-> 0, mirror_sock |-> NoHandle, audio_sock |-> NoHandle,
             has_aes_key |-> FALSE, has_aes_iv |-> FALSE, paused |-> FALSE]

Locations ==
    {"off", "start", "replace", "check", "recv", "grab", "decode", "deliver",
     "forward", "end", "erasing", "close",  \* mirror handlers
     "key", "streams",                      \* RTSP handlers
     "poll",                                \* audio threads, and "close"
     "kick"}                                \* disconnect threads

Init ==
    /\ running = TRUE
    /\ reg = {}
    /\ sources = [ip \in Ips |-> NoSource]
    /\ nextNumber = 1
    /\ active = NoIp
    /\ mutex = Nobody
    /\ pc = [t \in Threads |-> "off"]
    /\ sock = [t \in Threads |-> NoHandle]
    /\ prev = [c \in Conns |-> NoHandle]
    /\ dangling = {}
    /\ table = [h \in Handles |-> Nobody]

-----------------------------------------------------------------------------
(* The registry's own operators. *)

Streaming == {ip \in Ips : sources[ip].mirror_sock # NoHandle}

\* get_or_create_source_locked: the source of ip, a fresh one if need be.
SourceOf(ip) == IF ip \in reg THEN sources[ip]
                              ELSE [NoSource EXCEPT !.number = nextNumber]

\* ... and the registry once that source, updated to src, is in place.
Store(ip, src) ==
    /\ reg' = reg \cup {ip}
    /\ sources' = [sources EXCEPT ![ip] = src]
    /\ nextNumber' = IF ip \in reg THEN nextNumber ELSE nextNumber + 1

\* The registry once the source of ip, which is there, is src.
Update(ip, src) ==
    /\ sources' = [sources EXCEPT ![ip] = src]
    /\ UNCHANGED <<reg, nextNumber>>

At(t, location) == pc[t] = location
Goto(t, location) == pc' = [pc EXCEPT ![t] = location]

\* The thread is about to enter a critical section of sources_mutex_.
Locked(t, location) == At(t, location) /\ mutex = Nobody

\* Steps that move one thread and nothing else.
Moves(t, location) ==
    /\ Goto(t, location)
    /\ UNCHANGED <<running, registryVars, mutex, sock, prev, dangling, table>>

\* A mirror handler's slot is still its own.
OwnsSlot(c) == /\ PeerOf[c] \in reg
               /\ sources[PeerOf[c]].mirror_sock = sock[c]

\* Some handler holds the video_mutex_ of the decoder of this device's source.
DecoderBusy(ip) == \E c \in Conns : PeerOf[c] = ip /\ pc[c] \in {"deliver", "forward"}

\* Bounds the churn of sources: devices open no new session beyond it.
MayConnect == running /\ nextNumber <= MaxNumber

-----------------------------------------------------------------------------
(* A mirror handler (mirror_receive_loop), from accept() to its end. *)

Accept(c) ==
    /\ At(c, "off")
    /\ MayConnect
    /\ \E h \in FreeHandles(table) :
          /\ table' = Bound(table, h, c)
          /\ sock' = [sock EXCEPT ![c] = h]
    /\ Goto(c, "start")
    /\ UNCHANGED <<running, registryVars, mutex, prev, dangling>>

\* Takes the device's slot over and, if nothing is shown, the screen.
Register(c) ==
    LET ip == PeerOf[c] IN
    /\ Locked(c, "start")
    /\ prev' = [prev EXCEPT ![c] = SourceOf(ip).mirror_sock]
    /\ Store(ip, [SourceOf(ip) EXCEPT !.mirror_sock = sock[c]])
    /\ active' = IF active = NoIp THEN ip ELSE active
    /\ Goto(c, "replace")
    /\ UNCHANGED <<running, mutex, sock, dangling, table>>

\* Closes the handle found in the slot.  Its own thread may have closed it
\* by now, and the system may have given it to somebody else.
Replace(c) ==
    /\ Locked(c, "replace")
    /\ table' = Closed(table, prev[c])
    /\ prev' = [prev EXCEPT ![c] = NoHandle]
    /\ Goto(c, "check")
    /\ UNCHANGED <<running, registryVars, mutex, sock, dangling>>

Check(c) ==
    /\ Locked(c, "check")
    /\ Moves(c, IF running /\ OwnsSlot(c) THEN "recv" ELSE "end")

\* Mutants: recv failure skips stream_end; stop() shuts no socket down.
RecvFailsAndCloses(c) ==
    /\ At(c, "recv")
    /\ table[sock[c]] = Nobody \/ ~running
    /\ Moves(c, "close")
RecvFailsIfClosed(c) ==
    /\ At(c, "recv")
    /\ table[sock[c]] = Nobody
    /\ Moves(c, "end")

\* recv() on a handle somebody closed, or one TcpServer::stop() shut down.
RecvFails(c) ==
    /\ At(c, "recv")
    /\ table[sock[c]] = Nobody \/ ~running
    /\ Moves(c, "end")

\* The peer of whatever connection the handle denotes now closes it or sends
\* an oversized packet, which ends the loop, or one the loop skips.
ReceiveOther(c) ==
    /\ At(c, "recv")
    /\ table[sock[c]] # Nobody
    /\ \E location \in {"check", "end"} : Moves(c, location)

\* A packet of type 0x00: video flows, so a pause is over.
ReceiveVideo(c) ==
    LET ip == PeerOf[c] IN
    /\ Locked(c, "recv")
    /\ table[sock[c]] # Nobody
    /\ IF ip \in reg THEN Update(ip, [sources[ip] EXCEPT !.paused = FALSE])
                     ELSE UNCHANGED <<reg, sources, nextNumber>>
    /\ Goto(c, "grab")
    /\ UNCHANGED <<running, active, mutex, sock, prev, dangling, table>>

\* A packet of type 0x01 with a pause flag.
ReceivePause(c) ==
    LET ip == PeerOf[c] IN
    /\ Locked(c, "recv")
    /\ table[sock[c]] # Nobody
    /\ IF ip \in reg THEN Update(ip, [sources[ip] EXCEPT !.paused = TRUE])
                     ELSE UNCHANGED <<reg, sources, nextNumber>>
    /\ Goto(c, "check")
    /\ UNCHANGED <<running, active, mutex, sock, prev, dangling, table>>

\* `dec` is read under the mutex and used after it.
Grab(c) ==
    /\ Locked(c, "grab")
    /\ Moves(c, IF PeerOf[c] \in reg THEN "decode" ELSE "check")

\* decode_video, under the decoder's video_mutex_: with a picture for the
\* callback, or without one.
Decode(c) ==
    /\ At(c, "decode")
    /\ c \notin dangling
    /\ ~DecoderBusy(PeerOf[c])
    /\ \E location \in {"deliver", "check"} : Moves(c, location)

\* ... of a decoder that is gone: undefined; if the process survives, the
\* packet is lost.
DecodeErased(c) ==
    /\ At(c, "decode")
    /\ c \in dangling
    /\ dangling' = dangling \ {c}
    /\ Goto(c, "check")
    /\ UNCHANGED <<running, registryVars, mutex, sock, prev, table>>

\* The decoder's callback: only the active source's pictures go on.
Deliver(c) ==
    /\ Locked(c, "deliver")
    /\ Moves(c, IF active = PeerOf[c] THEN "forward" ELSE "check")

\* on_video_, App's callback; then video_mutex_ is released.
Forward(c) ==
    /\ At(c, "forward")
    /\ Moves(c, "check")

\* Mutant: a replaced handler leaves its socket open.
SupersededKeepsSocket(c) ==
    /\ Locked(c, "end")
    /\ ~OwnsSlot(c)
    /\ Moves(c, "off")

\* stream_end of a handler that was replaced.
Superseded(c) ==
    /\ Locked(c, "end")
    /\ ~OwnsSlot(c)
    /\ Moves(c, "close")

\* stream_end of the owner, when the decoder is in use: the destructor waits
\* for video_mutex_ with sources_mutex_ held.
AwaitDecoder(c) ==
    /\ Locked(c, "end")
    /\ OwnsSlot(c)
    /\ DecoderBusy(PeerOf[c])
    /\ mutex' = c
    /\ Goto(c, "erasing")
    /\ UNCHANGED <<running, registryVars, sock, prev, dangling, table>>

\* Mutant: the numbering starts again when nothing is shown.
NumberAfterDark == IF active' = NoIp THEN 1 ELSE nextNumber

\* The numbering starts again only when nobody is left.
NumberAfterErase == IF reg' = {} THEN 1 ELSE nextNumber

\* Mutants: the active source is kept, cleared, or any that is registered.
PromoteNothing(ip) == UNCHANGED active
PromoteNobody(ip) == active' = IF active = ip THEN NoIp ELSE active
PromoteAnybody(ip) ==
    IF active # ip
    THEN UNCHANGED active
    ELSE IF reg \ {ip} = {} THEN active' = NoIp
                            ELSE active' \in reg \ {ip}

\* The screen goes to the first other source that streams.  sources_ is
\* ordered by IP, which says nothing about the devices: any may be first.
Promote(ip) ==
    IF active # ip
    THEN UNCHANGED active
    ELSE IF Streaming \ {ip} = {} THEN active' = NoIp
                                  ELSE active' \in Streaming \ {ip}

\* stream_end of the owner.  Handlers of the same device that hold `dec`, and
\* not yet its mutex, are left with a pointer to a decoder that is gone.
EraseSource(c) ==
    LET ip == PeerOf[c] IN
    /\ At(c, "erasing") \/ (Locked(c, "end") /\ OwnsSlot(c))
    /\ ~DecoderBusy(ip)
    /\ reg' = reg \ {ip}
    /\ sources' = [sources EXCEPT ![ip] = NoSource]
    /\ Promote(ip)
    /\ nextNumber' = NumberAfterErase
    /\ dangling' = dangling \cup {d \in Conns : PeerOf[d] = ip /\ At(d, "decode")}
    /\ mutex' = Nobody
    /\ Goto(c, "close")
    /\ UNCHANGED <<running, sock, prev, table>>

\* The thread's last act, a mirror handler's and an audio thread's alike.
CloseSocket(t) ==
    /\ At(t, "close")
    /\ table' = Closed(table, sock[t])
    /\ sock' = [sock EXCEPT ![t] = NoHandle]
    /\ Goto(t, "off")
    /\ UNCHANGED <<running, registryVars, mutex, prev, dangling>>
-----------------------------------------------------------------------------
(* The RTSP handler of a device; "off" between two requests. *)

\* SETUP, phase 1 with a valid eiv.
SetupIv(ip) ==
    /\ Locked(ip, "off")
    /\ MayConnect
    /\ Store(ip, [SourceOf(ip) EXCEPT !.has_aes_iv = TRUE])
    /\ Goto(ip, "key")
    /\ UNCHANGED <<running, active, mutex, sock, prev, dangling, table>>

\* SETUP with another eiv, or with no phase 1 at all.
SetupNoIv(ip) ==
    /\ At(ip, "off")
    /\ MayConnect
    /\ \E location \in {"key", "streams"} : Moves(ip, location)

\* FairPlay decrypted ekey.
SetupKey(ip) ==
    /\ Locked(ip, "key")
    /\ Store(ip, [SourceOf(ip) EXCEPT !.has_aes_key = TRUE])
    /\ Goto(ip, "streams")
    /\ UNCHANGED <<running, active, mutex, sock, prev, dangling, table>>

SetupNoKey(ip) ==
    /\ At(ip, "key")
    /\ Moves(ip, "streams")

\* Phase 2, a stream of type 110.
SetupMirror(ip) ==
    /\ Locked(ip, "streams")
    /\ Store(ip, SourceOf(ip))
    /\ UNCHANGED <<running, active, mutex, pc, sock, prev, dangling,
                   table>>

\* Phase 2, a stream of type 96 that is refused: without key and IV the
\* previous stream stays, after that it is orphaned before the codec, the
\* decoder and the two binds are tried.
RefuseAudio(ip) ==
    LET src == SourceOf(ip) IN
    /\ Locked(ip, "streams")
    /\ Store(ip, IF src.has_aes_key /\ src.has_aes_iv
                 THEN [src EXCEPT !.audio_sock = NoHandle]
                 ELSE src)
    /\ UNCHANGED <<running, active, mutex, pc, sock, prev, dangling,
                   table>>

\* ... or granted: start_audio_stream_locked binds and starts a thread.
StartAudio(ip, a) ==
    LET src == SourceOf(ip) IN
    /\ Locked(ip, "streams")
    /\ At(a, "off") /\ PeerOf[a] = ip
    /\ src.has_aes_key /\ src.has_aes_iv
    /\ \E h \in FreeHandles(table) :
          /\ Store(ip, [src EXCEPT !.audio_sock = h])
          /\ table' = Bound(table, h, a)
          /\ sock' = [sock EXCEPT ![a] = h]
    /\ Goto(a, "poll")
    /\ UNCHANGED <<running, active, mutex, prev, dangling>>

SetupDone(ip) ==
    /\ At(ip, "streams")
    /\ Moves(ip, "off")

\* TEARDOWN of the audio stream alone orphans it.  A full TEARDOWN leaves the
\* registry as it is: it only calls on_disconnect_().
TeardownAudio(ip) ==
    /\ Locked(ip, "off")
    /\ ip \in reg
    /\ Update(ip, [sources[ip] EXCEPT !.audio_sock = NoHandle])
    /\ UNCHANGED <<running, active, mutex, pc, sock, prev,
                   dangling, table>>

-----------------------------------------------------------------------------
(* An audio thread (audio_receive_loop) polls until its slot is taken.  Its *)
(* socket pair is closed by CloseSocket.                                    *)

\* Mutant: the thread takes a source that does not stream for one that ended.
QuitAudioUnlessStreaming(a) ==
    /\ Locked(a, "poll")
    /\ ~running \/ PeerOf[a] \notin Streaming
    /\ Moves(a, "close")

QuitAudio(a) ==
    /\ Locked(a, "poll")
    /\ ~running \/ sources[PeerOf[a]].audio_sock # sock[a]
    /\ Moves(a, "close")

-----------------------------------------------------------------------------
(* The user interface. *)

\* set_active_source
Select(ip) ==
    /\ mutex = Nobody
    /\ ip \in reg
    /\ active # ip
    /\ active' = ip
    /\ UNCHANGED <<running, reg, sources, nextNumber, mutex, pc, sock, prev, dangling, table>>

\* disconnect_source reads the slot's handle under the mutex ...
KickRead(k) ==
    /\ Locked(k, "off")
    /\ PeerOf[k] \in reg
    /\ sock' = [sock EXCEPT ![k] = sources[PeerOf[k]].mirror_sock]
    /\ Goto(k, "kick")
    /\ UNCHANGED <<running, registryVars, mutex, prev, dangling, table>>

\* ... and closes it after, then drops the RTSP connection.
KickClose(k) ==
    /\ At(k, "kick")
    /\ table' = Closed(table, sock[k])
    /\ sock' = [sock EXCEPT ![k] = NoHandle]
    /\ Goto(k, "off")
    /\ UNCHANGED <<running, registryVars, mutex, prev, dangling>>

\* stop(): ends the loops and shuts every client socket down.
Stop ==
    /\ running
    /\ running' = FALSE
    /\ UNCHANGED <<registryVars, mutex, pc, sock, prev, dangling, table>>

-----------------------------------------------------------------------------
\* What the scheduler alone drives: a handler that does not wait for its peer.
MirrorStep(c) ==
    \/ Register(c) \/ Replace(c) \/ Check(c) \/ RecvFails(c) \/ Grab(c) \/ Decode(c)
    \/ DecodeErased(c) \/ Deliver(c) \/ Forward(c) \/ Superseded(c)
    \/ AwaitDecoder(c) \/ EraseSource(c) \/ CloseSocket(c)

SetupStep(ip) == SetupKey(ip) \/ SetupNoKey(ip) \/ SetupDone(ip)

\* What takes a device, or the user, to happen.
Arrival(c) == Accept(c) \/ ReceiveOther(c) \/ ReceiveVideo(c) \/ ReceivePause(c)

Request(ip) ==
    \/ SetupIv(ip) \/ SetupNoIv(ip) \/ SetupMirror(ip) \/ RefuseAudio(ip)
    \/ TeardownAudio(ip) \/ (\E a \in AudioThreads : StartAudio(ip, a))

Next ==
    \/ \E c \in Conns : MirrorStep(c) \/ Arrival(c)
    \/ \E ip \in Ips : SetupStep(ip) \/ Request(ip) \/ Select(ip)
    \/ \E a \in AudioThreads : QuitAudio(a) \/ CloseSocket(a)
    \/ \E k \in Kickers : KickRead(k) \/ KickClose(k)
    \/ Stop

Spec == Init /\ [][Next]_vars

\* Threads run when they can; devices and users do as they like.
FairSpec ==
    /\ Spec
    /\ \A c \in Conns : WF_vars(MirrorStep(c))
    /\ \A ip \in Ips : WF_vars(SetupStep(ip))
    /\ \A a \in AudioThreads : WF_vars(QuitAudio(a) \/ CloseSocket(a))
    /\ \A k \in Kickers : WF_vars(KickClose(k))
-----------------------------------------------------------------------------
(* Properties *)

TypeOK ==
    /\ running \in BOOLEAN
    /\ reg \subseteq Ips
    /\ sources \in [Ips -> Source]
    /\ nextNumber \in Nat
    /\ active \in Ips \cup {NoIp}
    /\ mutex \in Conns \cup {Nobody}
    /\ pc \in [Threads -> Locations]
    /\ sock \in [Threads -> Handles \cup {NoHandle}]
    /\ prev \in [Conns -> Handles \cup {NoHandle}]
    /\ dangling \subseteq Conns
    /\ table \in [Handles -> Conns \cup AudioThreads \cup {Nobody}]

\* active_source_id_ never names a source that is gone: every erase moves it
\* in the critical section that erases, and set_active_source looks first.
ActiveRegistered == active \in reg \cup {NoIp}

\* While some device streams, one is on screen: a connection that finds no
\* active source becomes it, and stream_end promotes another streaming source
\* when it erases the active one.
StreamingHasActive == Streaming # {} => active # NoIp

\* No two devices carry the same "Device N" number, the order of the picker,
\* although next_source_number_ starts again whenever the registry is empty.
NumbersDistinct ==
    \A i, j \in reg : sources[i].number = sources[j].number => i = j

\* The picker's three conditions, which hold or fall with each other.
RegistryOK == ActiveRegistered /\ StreamingHasActive /\ NumbersDistinct

\* A device shown as streaming has a handler thread that has yet to run its
\* stream_end with that very handle: no dot outlives its connection, however
\* connections replace each other and handles are closed and reused.
SlotHasHandler ==
    \A ip \in Streaming :
        \E c \in Conns : /\ PeerOf[c] = ip
                         /\ sock[c] = sources[ip].mirror_sock
                         /\ pc[c] \notin {"off", "start", "close"}

\* An audio stream that SETUP has announced and nobody has orphaned is served
\* by a thread, as long as the server runs.
AudioSlotServed ==
    running => \A ip \in Ips :
        sources[ip].audio_sock # NoHandle =>
            \E a \in AudioThreads : /\ PeerOf[a] = ip
                                    /\ sock[a] = sources[ip].audio_sock
                                    /\ At(a, "poll")

\* Every endpoint the server has open belongs to a thread that is running and
\* will close it: no path out of a handler leaks a socket.
NoSocketLeak ==
    \A h \in Handles : table[h] # Nobody =>
        /\ pc[table[h]] # "off"
        /\ sock[table[h]] = h

\* The picker the server promises (SourcePicker): threads and sockets only
\* ever add, drop and choose devices as that specification says.
Picker == INSTANCE SourcePicker
            WITH Devices <- Ips, None <- NoIp, known <- reg,
                 streaming <- Streaming, chosen <- active
ImplementsPicker == Picker!Spec

\* After stop() every mirror handler and every audio thread comes to its end.
StopDrains ==
    ~running ~> \A t \in Conns \cup AudioThreads : At(t, "off")

\* A disconnect that read the handle of the device's mirror connection ends
\* with that connection gone from the device's slot.
DisconnectDropsMirror ==
    \A k \in Kickers, h \in Handles :
        (At(k, "kick") /\ sock[k] = h /\ sources[PeerOf[k]].mirror_sock = h)
            ~> sources[PeerOf[k]].mirror_sock # h

(* What the code intends and does not keep on every path; see the README.   *)

\* Any disconnect of a device with a dot ends with the dot gone.
DisconnectDropsSource ==
    \A k \in Kickers : At(k, "kick") ~> PeerOf[k] \notin reg

\* A decoder pointer taken under the mutex is good for as long as it is used.
DecoderOutlivesUse == dangling = {}

\* A connection is closed by its own handler, by a newer connection of the
\* same device or by a disconnect of that device, and by nobody else.
NoStrayClose ==
    [][\A h \in Handles : (table[h] \in Conns /\ table'[h] = Nobody) =>
          \E t \in Conns \cup Kickers :
              /\ pc[t] \in {"close", "replace", "kick"}
              /\ pc'[t] # pc[t]
              /\ PeerOf[t] = PeerOf[table[h]]]_vars

\* A device that is in the middle of its SETUP keeps the key it has set up.
SetupKeepsKey ==
    [][\A ip \in Ips : (At(ip, "streams") /\ sources[ip].has_aes_key)
                          => (sources'[ip].has_aes_key \/ pc'[ip] = "off")]_vars
=============================================================================
