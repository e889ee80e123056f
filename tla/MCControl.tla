----------------------------- MODULE MCControl -----------------------------
(***************************************************************************)
(* The parts of the AirPlay control channel, for TLC: the server's life,   *)
(* the control server, pairing by PIN, the session keys, property lists    *)
(* and the mDNS responder; and what the Cast receiver says: its responder, *)
(* its messages, and its WebRTC thread.  They do not share state, so they  *)
(* are not multiplied with each other: `part' is chosen by Init, never     *)
(* changes, and only the part it names moves.                              *)
(***************************************************************************)
EXTENDS SocketTable, Naturals

CONSTANTS
    Conns, Ips, IpOf, Kickers, Listener, Other, \* RtspServer's
    Clients, Pins, NoPin,                       \* PinPairing's and PairVerify's
    Drainers, MaxAudio,                         \* AirPlayServer's
    MaxAdds,                                    \* BinaryPlist's
    NameLengths,                                \* MdnsResponder's
    MaxRequests,                                \* CastMessages'
    a                                           \* the device

ASSUME ConnsAssumption == /\ IpOf \in [Conns -> Ips]
                          /\ Listener \notin Conns /\ Other \notin Conns
                          /\ Nobody \notin Conns
                          /\ Listener # Nobody /\ Other # Nobody /\ Listener # Other

ASSUME ClientsAssumption == Nobody \notin Clients /\ NoPin \notin Pins

ASSUME MaxAssumption == /\ MaxAudio \in Nat /\ MaxAdds \in Nat /\ MaxRequests \in Nat
                        /\ NameLengths \subseteq Nat

\* Both connections are the same device's.
MCIpOf == [c \in Conns |-> a]

VARIABLES
    part,
    table, shut, accepts, listening, accepting, accepted, clients, sock, hpc,
    entries, main, toShut, toJoin, asked, kicking,
    current, active, srp, shown, starting, late,
    state, session, keymsg, inside, torn, progress, key, alone,
    phase, running, stopped, rtsp, thread, open, backend, answering,
    draining, audio, stuck,
    document, maker, objects, left, file,
    server_name, packet, questions, offset, heard, sent,
    responder, adapters, found,
    fields, got, challenge, signed, mirroring, transport, requests, replies,
    role, sender, air, lost, dtls, keys, ready, pending, taken

Rtsp == INSTANCE RtspServer WITH running <- accepts
Pin == INSTANCE PinPairing
Verify == INSTANCE PairVerify
Server == INSTANCE AirPlayServer
Plist == INSTANCE BinaryPlist
Mdns == INSTANCE MdnsResponder WITH asked <- questions
Message == INSTANCE CastMessages WITH heard <- got
Webrtc == INSTANCE CastWebrtc

rtspV == <<table, shut, accepts, listening, accepting, accepted, clients, sock,
           hpc, entries, main, toShut, toJoin, asked, kicking>>
pinV == <<current, active, srp, shown, starting, late>>
verifyV == <<state, session, keymsg, inside, torn, progress, key, alone>>
serverV == <<phase, running, stopped, rtsp, thread, open, backend, answering,
             draining, audio, stuck>>
plistV == <<document, maker, objects, left, file>>
mdnsV == <<server_name, packet, questions, offset, heard, sent>>
castV == <<responder, adapters, found>>
messageV == <<fields, got, challenge, signed, mirroring, transport, requests, replies>>
webrtcV == <<role, sender, air, lost, dtls, keys, ready, pending, taken>>
castVs == <<castV, messageV, webrtcV>>
vars == <<part, rtspV, pinV, verifyV, serverV, plistV, mdnsV, castVs>>

Init ==
    /\ part \in {"rtsp", "pin", "verify", "server", "plist", "mdns", "cast", "message", "webrtc"}
    /\ Rtsp!Init /\ Pin!Init /\ Verify!Init /\ Server!Init /\ Mdns!CastInit
    /\ Message!Init /\ Webrtc!Init
    /\ Plist!Init /\ (part # "plist" => Plist!Nothing)
    /\ part \notin {"mdns", "cast"} => Mdns!AnyName

Next ==
    /\ UNCHANGED part
    /\ \/ part = "rtsp" /\ Rtsp!Next
          /\ UNCHANGED <<pinV, verifyV, serverV, plistV, mdnsV, castVs>>
       \/ part = "pin" /\ Pin!Next
          /\ UNCHANGED <<rtspV, verifyV, serverV, plistV, mdnsV, castVs>>
       \/ part = "verify" /\ Verify!Next
          /\ UNCHANGED <<rtspV, pinV, serverV, plistV, mdnsV, castVs>>
       \/ part = "server" /\ Server!Next
          /\ UNCHANGED <<rtspV, pinV, verifyV, plistV, mdnsV, castVs>>
       \/ part = "plist" /\ Plist!Next
          /\ UNCHANGED <<rtspV, pinV, verifyV, serverV, mdnsV, castVs>>
       \/ part = "mdns" /\ Mdns!Next
          /\ UNCHANGED <<rtspV, pinV, verifyV, serverV, plistV, castVs>>
       \/ part = "cast" /\ Mdns!CastNext
          /\ UNCHANGED <<rtspV, pinV, verifyV, serverV, plistV, messageV, webrtcV>>
       \/ part = "message" /\ Message!Next
          /\ UNCHANGED <<rtspV, pinV, verifyV, serverV, plistV, mdnsV, castV, webrtcV>>
       \/ part = "webrtc" /\ Webrtc!Next
          /\ UNCHANGED <<rtspV, pinV, verifyV, serverV, plistV, mdnsV, castV, messageV>>

Spec == Init /\ [][Next]_vars /\ Rtsp!Fairness /\ Server!Fairness

\* The types of the parts.
TypeOK ==
    CASE part = "rtsp"   -> Rtsp!TypeOK
      [] part = "pin"    -> Pin!TypeOK
      [] part = "verify" -> Verify!TypeOK
      [] part = "server" -> Server!TypeOK
      [] part = "plist"  -> Plist!TypeOK
      [] part = "mdns"   -> Mdns!TypeOK
      [] part = "cast"   -> Mdns!CastTypeOK
      [] part = "message" -> Message!TypeOK
      [] part = "webrtc" -> Webrtc!TypeOK

\* RtspServer: clients_by_ip_ has what the handlers hold, and after stop() no
\* handler runs and no connection is open.
RtspSafe == part = "rtsp" => Rtsp!StoppedClean /\ Rtsp!EntriesMatch

\* PinPairing and PairVerify: a session that goes on is one of the current PIN,
\* the PIN on the screen can be entered, or was late, and a client nobody comes
\* between gets its key.
PairingSafe ==
    /\ part = "pin" => Pin!SessionUsesPin /\ Pin!ShownIsCurrent
    /\ part = "verify" => Verify!AloneSucceeds

\* AirPlayServer: every thread is joined before the server is destroyed, and
\* what is advertised is served.
ServerSafe == part = "server" => Server!NoThreadLeft /\ Server!AdvertisedServed

\* BinaryPlist and MdnsResponder: what is added to a property list is what is
\* read of it, the first of equal keys counts, every question of a query is
\* heard, and what is answered leads to the service.  The Cast responder: also
\* there, and both responders give one address.  CastMessages: fields are read as they were
\* written, the challenge is met, every request is answered.  CastWebrtc: what is
\* counted is video, with the sender's keys.
MessagesRead ==
    /\ part = "plist" => Plist!PlistsReadBack /\ Plist!FirstEntryCounts
    /\ part = "mdns" => Mdns!QuestionsHeard /\ Mdns!AnswersLead /\ Mdns!OwnNamesOnly
    /\ part = "cast" => Mdns!AddressesAgree /\ Mdns!CastAnswersLead
    /\ part = "message" => Message!FieldsRead /\ Message!ChallengeMet /\ Message!RequestsAnswered
    /\ part = "webrtc" => Webrtc!VideoHasKeys

\* RtspServer and AirPlayServer: stop() returns, whatever start() brought up and
\* whatever is in flight, unless it is at the join of a handler that waits for another's
\* endpoint or is part of the mirror server's deadlock (AirPlaySources).  (StopReturns
\* and StopEnds of the two modules, as one formula: only one part moves.)
StopsReturn == []<>(/\ Rtsp!Stops => Rtsp!ReadsAnother
                    /\ Server!Stops => Server!Waits)
=============================================================================
