---------------------------- MODULE MirrorStream ----------------------------
(***************************************************************************)
(* What a handler of a mirror connection does with the packets of one      *)
(* device (mirror_receive_loop() in src/src/airplay/airplay_server.cpp),   *)
(* with the source's MirrorBuffer: parameter sets are kept for the picture *)
(* of their time, pictures are decrypted with a key stream that must be at *)
(* the place where the device's is, and prefixed.                          *)
(*                                                                         *)
(* A device sets a stream up over its control connection and then connects *)
(* to the mirror port; it may do so again before the handler of the        *)
(* connection before has ended.  AirPlaySources has the registry for all   *)
(* devices and threads; here is what one device's packets become.          *)
(***************************************************************************)
EXTENDS Naturals, Sequences

CONSTANTS
    MaxConns,   \* connections a device opens in turn
    MaxPackets  \* packets it sends on each of them

VARIABLES
    source,   \* the device's MirrorSource: whether there is one, its
              \* has_aes_key, its buffer's stream and place (0: no context),
              \* mirror_sock's connection (0: none), and paused
    stream,   \* of each connection: sps_pps (0: empty), prepend_sps_pps,
              \* sps_pps_timestamp and where the handler is
    wire,     \* of each connection: packets sent and not read
    device,   \* of each connection: what the device has sent
    setup,    \* the last stream that was set up
    keyed,    \* history: the streams that were set up with the key there
    overlap,  \* whether a handler had not ended when a stream was set up
    decoded   \* the last call of decode_video(), or <<>>

mirrorVars == <<source, stream, wire, device, setup, keyed, overlap, decoded>>

Conns == 1..MaxConns

NoSource == [present |-> FALSE, key |-> FALSE, id |-> 0, pos |-> 0, sock |-> 0,
             paused |-> FALSE]

\* get_or_create_source_locked()
Source == IF source.present THEN source ELSE [NoSource EXCEPT !.present = TRUE]

Init ==
    /\ source = NoSource
    /\ stream = [c \in Conns |-> [sps_pps |-> 0, prepend |-> FALSE, time |-> 0, at |-> "none"]]
    /\ wire = [c \in Conns |-> <<>>]
    /\ device = [c \in Conns |-> [sent |-> 0, pos |-> 0, params |-> 0, clock |-> 0,
                                  due |-> FALSE, paused |-> FALSE]]
    /\ setup = 0 /\ keyed = {} /\ overlap = FALSE /\ decoded = <<>>

-----------------------------------------------------------------------------
(* The device.  A packet has the time, the parameter sets it carries or    *)
(* was encoded with, and its place in the key stream; a picture knows      *)
(* whether its parameter sets were announced for it.                       *)

Put(c, packet, changed) ==
    /\ stream[c].at # "none" /\ device[c].sent < MaxPackets
    /\ wire' = [wire EXCEPT ![c] = Append(@, packet)]
    /\ device' = [device EXCEPT ![c] = [changed EXCEPT !.sent = @ + 1]]
    /\ UNCHANGED <<source, stream, setup, keyed, overlap, decoded>>

SendParams(c) ==
    LET d == device[c]
    IN  \E pause \in BOOLEAN :
            Put(c, [kind |-> "params", time |-> d.clock + 1, params |-> d.params + 1,
                    pause |-> pause],
                [d EXCEPT !.clock = @ + 1, !.params = @ + 1, !.due = TRUE,
                          !.paused = @ \/ pause])

\* With the time of the parameter sets before it, or a later one.
SendVideo(c) ==
    LET d == device[c]
    IN  \E time \in {d.clock, d.clock + 1} :
            Put(c, [kind |-> "video", time |-> time, params |-> d.params, pos |-> d.pos,
                    due |-> d.due /\ time = d.clock],
                [d EXCEPT !.clock = time, !.pos = @ + 1, !.due = FALSE, !.paused = FALSE])

\* A streaming report, a packet of a type nobody knows or without a payload,
\* parameter sets of another codec or with sizes that do not fit.
SendOther(c) == Put(c, [kind |-> "other"], device[c])

-----------------------------------------------------------------------------
(* The control connection.                                                 *)

\* SETUP with the key.
SetupKey ==
    /\ source' = [Source EXCEPT !.key = TRUE]
    /\ UNCHANGED <<stream, wire, device, setup, keyed, overlap, decoded>>

\* Mutant: the context that is there is kept.
InitAesOnce(s, id) == IF s.id = 0 THEN [s EXCEPT !.id = id, !.pos = 0] ELSE s

\* init_aes(): a new context for a stream, at its start.
InitAes(s, id) == [s EXCEPT !.id = id, !.pos = 0]

\* SETUP with a stream (a device gives each a number of its own, never 0).  It
\* is answered with the port whether the source has a key or not; without one,
\* no context is made.
SetupStream ==
    /\ setup < MaxConns
    /\ setup' = setup + 1
    /\ source' = IF Source.key THEN InitAes(Source, setup + 1) ELSE Source
    /\ keyed' = IF Source.key THEN keyed \cup {setup + 1} ELSE keyed
    /\ overlap' = (overlap \/ source.sock # 0)
    /\ UNCHANGED <<stream, wire, device, decoded>>

-----------------------------------------------------------------------------
(* The handler of a connection.                                            *)

\* The slot is this connection's.  One it replaces is closed.
Connect ==
    /\ setup # 0 /\ stream[setup].at = "none"
    /\ source' = [Source EXCEPT !.sock = setup]
    /\ stream' = [stream EXCEPT ![setup].at = "check"]
    /\ UNCHANGED <<wire, device, setup, keyed, overlap, decoded>>

\* stream_end
Ends(c) ==
    /\ stream[c].at \in {"check", "read"}
    /\ stream' = [stream EXCEPT ![c].at = "ended"]
    /\ source' = IF source.sock = c THEN NoSource ELSE source
    /\ UNCHANGED <<wire, device, setup, keyed, overlap, decoded>>

\* The loop's head: bail if the slot was replaced.
Check(c) ==
    /\ stream[c].at = "check" /\ source.sock = c
    /\ stream' = [stream EXCEPT ![c].at = "read"]
    /\ UNCHANGED <<source, wire, device, setup, keyed, overlap, decoded>>
Bail(c) == stream[c].at = "check" /\ source.sock # c /\ Ends(c)

Reads(c, kind) ==
    /\ stream[c].at = "read" /\ wire[c] # <<>> /\ Head(wire[c]).kind = kind
    /\ wire' = [wire EXCEPT ![c] = Tail(@)]
    /\ UNCHANGED <<device, setup, keyed, overlap>>

\* Case 0x01: the sets are kept with their time; two flags tell of a pause.
ReadParams(c) ==
    /\ Reads(c, "params")
    /\ LET p == Head(wire[c])
       IN  /\ stream' = [stream EXCEPT ![c] = [sps_pps |-> p.params, prepend |-> TRUE,
                                               time |-> p.time, at |-> "check"]]
           /\ source' = IF p.pause /\ source.present
                        THEN [source EXCEPT !.paused = TRUE] ELSE source
    /\ UNCHANGED decoded

\* Mutant: sets of another time are used all the same.
PrefixAnyway(s, p) == s.sps_pps

\* The sets that go before a picture: those of its time, once.
Prefix(s, p) == IF s.prepend /\ p.time # s.time THEN 0 ELSE s.sps_pps

\* decrypt(): the key stream moves on.  Without a context a picture goes on as
\* it came.
Decrypt(s) == IF s.id = 0 THEN s ELSE [s EXCEPT !.pos = @ + 1]

\* Mutant: the pause ends with the next parameter sets.
ResumedByParams(s) == s

\* A picture ends the pause.
Resumed(s) == [s EXCEPT !.paused = FALSE]

\* Case 0x00: a picture is decrypted, prefixed and decoded.
ReadVideo(c) ==
    /\ Reads(c, "video")
    /\ LET p == Head(wire[c])
           prefix == Prefix(stream[c], p)
           used == [stream[c] EXCEPT !.prepend = FALSE, !.at = "check"]
       IN  IF ~source.present
           THEN /\ stream' = [stream EXCEPT ![c] = [used EXCEPT !.sps_pps = prefix]]
                /\ UNCHANGED <<source, decoded>>
           ELSE /\ stream' = [stream EXCEPT ![c] = [used EXCEPT !.sps_pps = 0]]
                /\ source' = Resumed(Decrypt(source))
                /\ decoded' = <<[due |-> IF p.due THEN p.params ELSE 0, prefix |-> prefix,
                                 conn |-> c, by |-> source.id,
                                 plain |-> source.id = c /\ source.pos = p.pos]>>

\* What is ignored.
ReadOther(c) ==
    /\ Reads(c, "other")
    /\ stream' = [stream EXCEPT ![c].at = "check"]
    /\ UNCHANGED <<source, decoded>>

Next ==
    \/ SetupKey \/ SetupStream \/ Connect
    \/ \E c \in Conns :
          \/ SendParams(c) \/ SendVideo(c) \/ SendOther(c)
          \/ Check(c) \/ Bail(c) \/ (stream[c].at = "read" /\ Ends(c))
          \/ ReadParams(c) \/ ReadVideo(c) \/ ReadOther(c)

-----------------------------------------------------------------------------
(* Properties *)

TypeOK ==
    /\ source \in [present : BOOLEAN, key : BOOLEAN, id : 0..MaxConns, pos : Nat,
                   sock : 0..MaxConns, paused : BOOLEAN]
    /\ stream \in [Conns -> [sps_pps : 0..MaxPackets, prepend : BOOLEAN, time : 0..MaxPackets,
                             at : {"none", "check", "read", "ended"}]]
    /\ setup \in 0..MaxConns /\ keyed \subseteq 1..setup

\* Unless a stream was set up while a handler of the one before still ran, every
\* picture of a stream that was set up with the key is decrypted where it was
\* encrypted; one of a stream that was not is handed on as it came, and never
\* decrypted with the context of another stream.
InStep ==
    decoded # <<>> /\ ~overlap =>
        IF decoded[1].conn \in keyed THEN decoded[1].plain ELSE decoded[1].by = 0

\* What one would expect, and the code does not keep: no picture reaches the
\* decoder encrypted.  A handler that ends between the two SETUPs of the next
\* stream erases the source and with it the key (1703); the stream is accepted
\* all the same (857-871).
NeverEncrypted ==
    decoded # <<>> /\ ~overlap => decoded[1].plain

\* A picture is decoded after exactly the parameter sets that were sent for it.
ParamsInFront ==
    decoded # <<>> => decoded[1].prefix = decoded[1].due

\* When everything is read, what the picker shows as paused is what the device
\* has paused.
PausedMeansPaused ==
    \A c \in Conns :
        (source.present /\ source.sock = c /\ wire[c] = <<>> /\ ~overlap)
            => source.paused = device[c].paused
=============================================================================
