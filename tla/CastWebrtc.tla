----------------------------- MODULE CastWebrtc -----------------------------
(***************************************************************************)
(* The WebRTC thread of cast/cast_receiver.cpp and the sender it answers:  *)
(* one datagram at a time is taken for STUN, DTLS or RTP by its first      *)
(* byte, a binding request is answered, a handshake's messages are given   *)
(* to OpenSSL, the keys are derived, and the video's packets counted.      *)
(*                                                                         *)
(* The network may lose a datagram.  The sender and OpenSSL are external:  *)
(* the sender repeats what is not answered, and OpenSSL, whose timer       *)
(* nobody asks for, answers what comes again or does not.                  *)
(***************************************************************************)
EXTENDS Integers, Sequences

VARIABLES
    role,   \* the sender's end of the handshake
    sender, \* how far it is
    air,    \* the datagrams on their way
    lost,   \* some have been lost
    dtls,   \* dtls_ssl: how far the handshake is, and dtls_done
    keys,   \* srtp_key and srtp_salt
    ready,  \* srtp_ready
    pending, \* what OpenSSL has written and nobody has flushed
    taken   \* the packets that have been counted

webrtcVars == <<role, sender, air, lost, dtls, keys, ready, pending, taken>>

senderVars == <<role, sender>>
keyVars == <<keys, ready>>

\* The first byte of a datagram, and the second one of what is not DTLS.
FirstByte(d) ==
    CASE d = "request" -> <<0, 1>> [] d = "response" -> <<1, 1>>
      [] d \in {"hello", "finished"} -> <<22, 254>>
      [] d = "video" -> <<128, 96>> [] d = "audio" -> <<128, 111>>
      [] d = "report" -> <<129, 200>> [] d = "turn" -> <<64, 0>>

\* Mutant: the type of a packet is not looked at.
KindLoose(d) ==
    LET b == FirstByte(d) IN
    CASE b[1] \in {0, 1}      -> "stun"
      [] b[1] \in 20 .. 63    -> "dtls"
      [] b[1] \in 128 .. 191  -> "rtp"
      [] OTHER                -> "other"

\* The loop's distinction; of the video type are the packets whose second byte is.
VideoType == 96
Kind(d) ==
    LET b == FirstByte(d) IN
    CASE b[1] \in {0, 1}   -> "stun"
      [] b[1] \in 20 .. 63 -> "dtls"
      [] b[1] \in 128 .. 191 /\ b[2] % 128 = VideoType -> "rtp"
      [] OTHER -> "other"

Init ==
    /\ role = "client" /\ sender = "off"
    /\ air = {} /\ lost = FALSE
    /\ dtls = "none" /\ keys = <<>> /\ ready = FALSE /\ pending = {}
    /\ taken = {}

-----------------------------------------------------------------------------
(* The thread                                                              *)

\* handle_stun(): only a binding request is answered.
Stun(d) ==
    /\ d \in air /\ Kind(d) = "stun"
    /\ air' = (air \ {d}) \cup IF FirstByte(d) = <<0, 1>> THEN {"binding"} ELSE {}
    /\ UNCHANGED <<senderVars, lost, dtls, keyVars, pending, taken>>

\* What both ends can export: the client's key and the server's, and their salts.
Material == [i \in 0 .. 59 |-> CASE i < 16 -> "client key" [] i \in 16 .. 31 -> "server key"
                                 [] i \in 32 .. 45 -> "client salt" [] i > 45 -> "server salt"]
Part(first, next) == {Material[i] : i \in first .. next - 1}

\* Mutant: a key of 32 bytes.
ExtractKeysLong == <<Part(0, 32), Part(32, 46)>>
ExtractKeys == <<Part(0, 16), Part(32, 46)>>

\* flush_dtls_output(): all of what OpenSSL has written.
Flush(written) == written

\* A message of the handshake, once init_dtls() has made us its server.  What OpenSSL
\* writes is sent at once.  The export may fail, which nobody is told.
Handshake(d) ==
    /\ d \in air /\ Kind(d) = "dtls" /\ dtls # "done"
    /\ \/ /\ d = "hello" /\ dtls = "none"
          /\ dtls' = "hello" /\ air' = (air \ {d}) \cup Flush({"certificate"})
          /\ UNCHANGED keyVars
       \/ /\ d = "hello" /\ dtls = "hello"
          /\ \E again \in SUBSET {"certificate"} : air' = (air \ {d}) \cup Flush(again)
          /\ UNCHANGED <<dtls, keyVars>>
       \/ /\ d = "finished" /\ dtls = "hello"
          /\ dtls' = "done" /\ ready' = TRUE
          /\ keys' \in {<<>>, ExtractKeys}
          /\ air' = (air \ {d}) \cup Flush({"done"})
    /\ UNCHANGED <<senderVars, lost, pending, taken>>

\* What comes after the handshake is read; what OpenSSL answers stays where it is.
AfterHandshake(d) ==
    /\ d \in air /\ Kind(d) = "dtls" /\ dtls = "done"
    /\ air' = air \ {d}
    /\ pending' = IF d = "finished" THEN {"done"} ELSE pending
    /\ UNCHANGED <<senderVars, lost, dtls, keyVars, taken>>

\* Other packets are passed over.
Count(d) ==
    /\ d \in air /\ Kind(d) \in {"rtp", "other"}
    /\ air' = air \ {d}
    /\ taken' = taken \cup IF Kind(d) = "rtp" /\ ready THEN {d} ELSE {}
    /\ UNCHANGED <<senderVars, lost, dtls, keyVars, pending>>

ToThread == {"request", "response", "hello", "finished", "video", "audio", "report", "turn"}
Take == \E d \in ToThread : Stun(d) \/ Handshake(d) \/ AfterHandshake(d) \/ Count(d)

-----------------------------------------------------------------------------
(* The sender and the network                                              *)

Sends(d) ==
    /\ d \notin air /\ air' = air \cup {d}
    /\ UNCHANGED <<senderVars, lost, dtls, keyVars, pending, taken>>

\* Its offer is answered, and it takes an end of the handshake.
Offer ==
    /\ sender = "off"
    /\ sender' = "check" /\ role' \in {"client", "server"}
    /\ UNCHANGED <<air, lost, dtls, keyVars, pending, taken>>

\* It sends, again and again, what it waits for an answer to; media only when its end
\* of the handshake is done.  As the server it waits, having nothing to answer to.
SenderAsks ==
    \/ sender = "check" /\ Sends("request")
    \/ sender = "checked" /\ role = "client" /\ Sends("hello")
    \/ sender = "finishing" /\ Sends("finished")

SenderPlays ==
    \/ sender = "done" /\ \E d \in {"video", "audio", "report"} : Sends(d)
    \/ sender # "off" /\ \E d \in {"response", "turn"} : Sends(d)

SenderHears ==
    /\ \E step \in {<<"check", "binding", "checked">>, <<"checked", "certificate", "finishing">>,
                    <<"finishing", "done", "done">>} :
        /\ sender = step[1] /\ step[2] \in air
        /\ sender' = step[3] /\ air' = air \ {step[2]}
    /\ UNCHANGED <<role, lost, dtls, keyVars, pending, taken>>

Lose ==
    /\ \E d \in air : air' = air \ {d}
    /\ lost' = TRUE
    /\ UNCHANGED <<senderVars, dtls, keyVars, pending, taken>>

Next == Offer \/ Take \/ SenderAsks \/ SenderPlays \/ SenderHears \/ Lose

\* The thread takes what the sender waits for, and the sender goes on.
Waited == \E d \in {"request", "hello", "finished"} : Stun(d) \/ Handshake(d) \/ AfterHandshake(d)

\* What the formulas at the end assume.
Fairness == WF_webrtcVars(SenderAsks \/ Waited) /\ WF_webrtcVars(SenderHears)

-----------------------------------------------------------------------------
(* Properties *)

TypeOK ==
    /\ sender \in {"off", "check", "checked", "finishing", "done"}
    /\ dtls \in {"none", "hello", "done"} /\ {ready, lost} \subseteq BOOLEAN
    /\ taken \subseteq ToThread
    /\ air \subseteq ToThread \cup {"binding", "certificate", "done"}

\* What is counted is video, of a sender with which the handshake is complete; and
\* the key and the salt, if they could be exported, are the ones it encrypts with.
VideoHasKeys ==
    /\ taken \subseteq {"video"} /\ (taken # {} => ready /\ dtls = "done")
    /\ keys # <<>> => keys = <<{IF role = "client" THEN "client key" ELSE "server key"},
                               {IF role = "client" THEN "client salt" ELSE "server salt"}>>

\* Violated: "a=setup:active" (cast_receiver.cpp:1049) makes the sender the server of
\* the handshake, as we are ("We're the server, sender is client", 1231): both wait.
AnswerIsMeant == sender = "check" ~> (sender = "done" \/ lost)

\* Violated: a lost datagram only delays the handshake.  Nobody repeats the last one.
LossRepaired == (role = "client" /\ sender = "finishing") ~> sender = "done"

\* Violated: what is counted could be decrypted.
ReadyHasKeys == ready => keys # <<>>
=============================================================================
