---------------------------- MODULE CastMessages ----------------------------
(***************************************************************************)
(* What a Cast sender and the receiver tell each other: the protocol       *)
(* buffers of src/src/cast/cast_proto.h, and in                            *)
(* src/src/cast/cast_receiver.cpp the search in JSON texts, the challenge, *)
(* and the handlers of the namespaces.  Threads are CastReceiver's.        *)
(*                                                                         *)
(* A byte is a number, a text of the wire is bytes.  A JSON text is the    *)
(* sequence of its keys with their values, an object's after its own key.  *)
(***************************************************************************)
EXTENDS SequencesExt

CONSTANT MaxRequests \* what a sender asks

VARIABLES
    fields,    \* what a sender has written last: fields, in their order
    heard,     \* and decode() has read
    challenge, \* the challenge a sender has sent last
    signed,    \* and the reply, as the sender reads it
    mirroring, \* mirroring_active
    transport, \* transport_id
    requests,  \* the messages that have come
    replies    \* what has been sent

wireVars == <<fields, heard, challenge, signed>>
castVars == <<mirroring, transport, requests, replies>>
messageVars == <<wireVars, castVars>>

-----------------------------------------------------------------------------
(* Protocol buffers                                                        *)

\* What is left of a number when seven bits are taken off, and seven again.  A number
\* of 32 bits has five groups of them.
Groups(v) ==
    LET left[k \in 0 .. 4] == IF k = 0 THEN v ELSE left[k - 1] \div 128
    IN  left

\* Mutant: the last value of a length is written as that of the next one.
EncVarintLate(v) ==
    LET left == Groups(v)
        last == CHOOSE k \in 0 .. 4 : left[k] <= 128 /\ \A j \in 0 .. k - 1 : left[j] > 128
    IN  [k \in 1 .. last + 1 |-> IF k <= last THEN 128 + (left[k - 1] % 128) ELSE left[last]]

\* Seven bits in a byte, the lowest first; the eighth says that there are more.
EncVarint(v) ==
    LET left == Groups(v)
        last == CHOOSE k \in 0 .. 4 : left[k] <= 127 /\ \A j \in 0 .. k - 1 : left[j] > 127
    IN  [k \in 1 .. last + 1 |-> IF k <= last THEN 128 + (left[k - 1] % 128) ELSE left[last]]

\* A field: a number, or bytes.
Num(f, v) == [field |-> f, type |-> 0, value |-> v]
Bytes(f, s) == [field |-> f, type |-> 2, value |-> s]
EncField(x) ==
    EncVarint(x.field * 8 + x.type) \o
        (IF x.type = 0 THEN EncVarint(x.value) ELSE EncVarint(Len(x.value)) \o x.value)
Encoded(list) == FlattenSeq([i \in DOMAIN list |-> EncField(list[i])])

\* The number at a place, of so many bytes at most, and the place behind it.
DecVarint(data, pos, most) ==
    LET last == CHOOSE i \in pos .. pos + most - 1 :
                    /\ i <= Len(data)
                    /\ data[i] < 128 \/ i = Len(data) \/ i = pos + most - 1
                    /\ \A j \in pos .. i - 1 : data[j] >= 128
        value[k \in 0 .. last + 1 - pos] ==  \* of the last k bytes
            IF k = 0 THEN 0 ELSE (data[last + 1 - k] % 128) + 128 * value[k - 1]
    IN  IF pos > Len(data) THEN <<0, pos>> ELSE <<value[last + 1 - pos], last + 1>>

\* Mutant: the bytes of a field that is not known are not skipped.
FieldAtShort(data, pos, most) ==
    LET tag == DecVarint(data, pos, most)
        body == DecVarint(data, tag[2], most)
        end == body[2] + IF tag[1] \div 8 > 7 THEN 0 ELSE body[1]
    IN  CASE tag[1] % 8 = 0 -> <<Num(tag[1] \div 8, body[1]), body[2]>>
          [] tag[1] % 8 = 2 /\ end - 1 <= Len(data) ->
                <<Bytes(tag[1] \div 8, SubSeq(data, body[2], end - 1)), end>>
          [] OTHER -> <<Num(0, 0), Len(data) + 1>>

\* The field at a place and the place behind it.  Another type of field, and a length
\* past the end, end it: field 0.
FieldAt(data, pos, most) ==
    LET tag == DecVarint(data, pos, most)
        body == DecVarint(data, tag[2], most)
        end == body[2] + body[1]
    IN  CASE tag[1] % 8 = 0 -> <<Num(tag[1] \div 8, body[1]), body[2]>>
          [] tag[1] % 8 = 2 /\ end - 1 <= Len(data) ->
                <<Bytes(tag[1] \div 8, SubSeq(data, body[2], end - 1)), end>>
          [] OTHER -> <<Num(0, 0), Len(data) + 1>>

\* decode() and unwrap(): the fields one after another, up to the end.
FieldsOf(data, most) ==
    LET at[k \in 0 .. Len(data)] ==
            IF k = 0 THEN 1
            ELSE IF at[k - 1] > Len(data) THEN at[k - 1]
            ELSE FieldAt(data, at[k - 1], most)[2]
        count == CHOOSE n \in 0 .. Len(data) :
                    at[n] > Len(data) /\ \A k \in 0 .. n - 1 : at[k] <= Len(data)
    IN  [k \in 1 .. count |-> FieldAt(data, at[k - 1], most)[1]]
Whole(list) == \A i \in DOMAIN list : list[i].field # 0

\* The last field of a number and a type, or what the reader starts with.
LastOf(list, f, type, default) ==
    LET at == {i \in DOMAIN list : list[i].field = f /\ list[i].type = type}
    IN  IF at = {} THEN default ELSE list[Max(at)].value

\* CastMessage::decode(): what it makes of a frame.
Decode(data) ==
    LET list == FieldsOf(data, 5) IN
    IF ~Whole(list) THEN <<>>
    ELSE <<LastOf(list, 1, 0, 0), LastOf(list, 2, 2, <<>>), LastOf(list, 3, 2, <<>>),
           LastOf(list, 4, 2, <<>>), LastOf(list, 5, 0, 0), LastOf(list, 6, 2, <<>>),
           LastOf(list, 7, 2, <<>>)>>

\* Two fields of a frame, of sizes at the ends of a length's first byte, and one that
\* is not known, among them.
Texts == {<<>>} \cup {[i \in 1 .. n |-> 5] : n \in {1, 127, 128}}
Unknown == {Num(8, 128), Num(9, 2147483647), Bytes(10, <<1, 0>>), Bytes(16, <<8, 1>>)}
Frames ==
    UNION {SetToSeqs({Num(5, 1), Bytes(2, s), Bytes(7, t), x}) :
            s \in Texts, t \in Texts, x \in Unknown}

\* A sender writes a frame and recv_cast_msg() reads it.
Receive ==
    /\ fields = <<>>
    /\ \E list \in Frames : \E data \in {Encoded(list)} :
        fields' = list /\ heard' = Decode(data)
    /\ UNCHANGED <<challenge, signed, castVars>>

-----------------------------------------------------------------------------
(* The challenge                                                           *)

\* unwrap(): the first field of a number that is bytes.
Unwrap(data, f) ==
    LET list == FieldsOf(data, Len(data))
        at == {i \in DOMAIN list : list[i].field = f /\ list[i].type = 2}
    IN  IF at = {} THEN <<>> ELSE <<list[Min(at)].value>>

Certificate == <<48>>
Signature(nonce, hash) == <<200 + hash>> \o nonce \o Certificate

\* Mutant: signed with what the sender did not ask for.
SignedOld(nonce, hash) == Signature(nonce, 0)
Signed(nonce, hash) == Signature(nonce, hash)

\* handle_auth(): the reply to a challenge of these fields.
Reply(list) ==
    LET nonce == LastOf(list, 2, 2, <<>>)
        hash == IF LastOf(list, 3, 0, 0) = 1 THEN 1 ELSE 0
        response == <<Bytes(1, Signed(nonce, hash)), Bytes(2, Certificate),
                      Bytes(3, Certificate), Num(4, 1)>>
                    \o (IF nonce = <<>> THEN <<>> ELSE <<Bytes(5, nonce)>>)
                    \o (IF hash = 0 THEN <<>> ELSE <<Num(6, hash)>>)
    IN  Encoded(<<Bytes(2, Encoded(response))>>)

\* A sender's challenge, in its wrapper or without; 1 is the algorithm, which is not
\* looked at.  The sender reads the reply.
Challenge ==
    /\ challenge = <<>>
    /\ \E nonce \in Texts, hash \in {0, 1}, wrapped \in BOOLEAN, algorithm \in {0, 1} :
       \E inner \in {Encoded(<<Num(1, algorithm), Bytes(2, nonce), Num(3, hash)>>)} :
       \E data \in {IF wrapped THEN Encoded(<<Bytes(1, inner)>>) ELSE inner} :
       \E opened \in {Unwrap(data, 1)} :
       \E read \in {FieldsOf(IF opened = <<>> THEN data ELSE opened[1], Len(data))} :
       \E reply \in {Reply(read)} :
       \E body \in {Unwrap(reply, 2)[1]} :
       \E list \in {FieldsOf(body, 5)} :
           /\ challenge' = <<nonce, hash>>
           /\ signed' = [by |-> LastOf(list, 1, 2, <<>>), nonce |-> LastOf(list, 5, 2, <<>>),
                         hash |-> LastOf(list, 6, 0, 0)]
    /\ UNCHANGED <<fields, heard, castVars>>

-----------------------------------------------------------------------------
(* The namespaces                                                          *)

\* Mutant: the last place counts.
JsonGetLast(text, key) ==
    LET at == {i \in DOMAIN text : key = text[i][1]}
    IN  IF at = {} THEN "none" ELSE text[Max(at)][2]

\* json_get(): the first place where the key is, be it a value; then what follows the
\* next colon.
JsonGet(text, key) ==
    LET at == {i \in DOMAIN text : key \in {text[i][1], text[i][2]}}
        i == Min(at)
    IN  CASE at = {} -> "none"
          [] at # {} /\ text[i][1] = key -> text[i][2]
          [] at # {} /\ text[i][1] # key -> IF i < Len(text) THEN text[i + 1][2] ELSE "none"

\* json_get_int(): 0 for what is no number.
Digits == {"1", "2"}
JsonGetInt(text, key) == LET v == JsonGet(text, key) IN IF v \in Digits THEN v ELSE "0"

Senders == {"sender-0", "sender-1"}  \* source_id, of one connection

\* What senders send: requests with their keys in any order, a ping, an offer.
Asking(type) == SetToSeqs({<<"type", type>>, <<"requestId", "1">>})
Offer(first, second, sdp) ==
    <<first, second, <<"offer", "object">>, <<"sdp", sdp>>, <<"type", "offer">> >>
Offers == {Offer(d[1], d[2], sdp) :
              d \in SetToSeqs({<<"type", "OFFER">>, <<"seqNum", "2">>}), sdp \in {"none", "v0"}}
Texted(ns) ==
    CASE ns = "receiver"  -> UNION {Asking(type) : type \in {"GET_STATUS", "LAUNCH", "STOP"}}
      [] ns = "heartbeat" -> {<< <<"type", type>> >> : type \in {"PING", "PONG"}}
      [] ns = "webrtc"    -> Offers

Sends(ns, from, to, what, number, app) ==
    replies' = Append(replies, [ns |-> ns, from |-> from, to |-> to, what |-> what,
                                number |-> number, app |-> app])

\* handle_heartbeat()
Heartbeat(source, text) ==
    /\ IF JsonGet(text, "type") = "PING"
       THEN Sends("heartbeat", "receiver-0", source, "PONG", "none", "none")
       ELSE UNCHANGED replies
    /\ UNCHANGED <<mirroring, transport>>

\* Mutant: the status is that of before the request.
ReceiverEarly(source, text) ==
    LET type == JsonGet(text, "type") IN
    /\ mirroring' = (type = "LAUNCH" \/ (mirroring /\ type # "STOP"))
    /\ transport' \in IF type = "LAUNCH" THEN {"web-1", "web-2"} ELSE {transport}
    /\ Sends("receiver", "receiver-0", source, "RECEIVER_STATUS",
             JsonGetInt(text, "requestId"), IF mirroring THEN transport ELSE "none")

\* handle_receiver() and send_receiver_status(): LAUNCH draws a new transport, which
\* may be the old one again.
Receiver(source, text) ==
    LET type == JsonGet(text, "type") IN
    /\ mirroring' = (type = "LAUNCH" \/ (mirroring /\ type # "STOP"))
    /\ transport' \in IF type = "LAUNCH" THEN {"web-1", "web-2"} ELSE {transport}
    /\ Sends("receiver", "receiver-0", source, "RECEIVER_STATUS",
             JsonGetInt(text, "requestId"), IF mirroring' THEN transport' ELSE "none")

\* handle_webrtc() and handle_webrtc_offer(): an offer without a description is left.
Webrtc(source, text) ==
    /\ IF JsonGet(text, "type") = "OFFER" /\ JsonGet(text, "sdp") # "none"
       THEN Sends("webrtc", transport, source, "ANSWER", JsonGetInt(text, "seqNum"), "none")
       ELSE UNCHANGED replies
    /\ UNCHANGED <<mirroring, transport>>

\* handle_client(): a message of the connection.
Message ==
    /\ Len(requests) < MaxRequests
    /\ \E ns \in {"receiver", "heartbeat", "webrtc"}, source \in Senders :
        \E text \in Texted(ns) :
            /\ requests' = Append(requests, [ns |-> ns, source |-> source, text |-> text,
                                             replies |-> Len(replies)])
            /\ CASE ns = "receiver"  -> Receiver(source, text)
                 [] ns = "heartbeat" -> Heartbeat(source, text)
                 [] ns = "webrtc"    -> Webrtc(source, text)
    /\ UNCHANGED wireVars

Init ==
    /\ fields = <<>> /\ heard = <<>> /\ challenge = <<>> /\ signed = <<>>
    /\ mirroring = FALSE /\ transport = "none"
    /\ requests = <<>> /\ replies = <<>>

Next ==
    \/ (requests = <<>> /\ challenge = <<>> /\ Receive)
    \/ (requests = <<>> /\ fields = <<>> /\ Challenge)
    \/ (fields = <<>> /\ challenge = <<>> /\ Message)

-----------------------------------------------------------------------------
(* Properties *)

TypeOK ==
    /\ mirroring \in BOOLEAN /\ transport \in {"none", "web-1", "web-2"}
    /\ Len(requests) \in 0 .. MaxRequests /\ Len(replies) <= Len(requests)

\* What a sender writes is read, in whatever order its fields are, and with fields among
\* them that the reader does not know: numbers of up to five bytes, or bytes.
FieldsRead ==
    fields # <<>> =>
        heard = <<0, LastOf(fields, 2, 2, <<>>), <<>>, <<>>, LastOf(fields, 5, 0, 0), <<>>,
                  LastOf(fields, 7, 2, <<>>)>>

\* The reply to a challenge can be read, returns its nonce, and is signed as asked.
ChallengeMet ==
    challenge # <<>> =>
        /\ signed.nonce = challenge[1] /\ signed.hash = challenge[2]
        /\ signed.by = Signature(challenge[1], challenge[2])

\* The value of a key of the text's own object.
Own(request, key) ==
    request.text[CHOOSE i \in DOMAIN request.text :
                    /\ request.text[i][1] = key
                    /\ \A j \in 1 .. i : request.text[j][2] # "object"][2]

\* The transport that some senders were told of last, before a reply.
Told(n, senders) ==
    LET at == {j \in 1 .. n - 1 : replies[j].app # "none" /\ replies[j].to \in senders}
    IN  IF at = {} THEN "none" ELSE replies[Max(at)].app

\* Whether the last of LAUNCH and STOP, among the first so many requests, was the former.
Launched(n) ==
    LET at == {j \in 1 .. n : /\ requests[j].ns = "receiver"
                              /\ Own(requests[j], "type") \in {"LAUNCH", "STOP"}}
    IN  at # {} /\ Own(requests[Max(at)], "type") = "LAUNCH"

\* Whether a request has a reply, and how many there are when it is done with.
Due(r) == \/ r.ns = "receiver"
          \/ (r.ns = "heartbeat" /\ Own(r, "type") = "PING")
          \/ (r.ns = "webrtc" /\ <<"sdp", "v0">> \in ToSet(r.text))
Upto(i) == IF i < Len(requests) THEN requests[i + 1].replies ELSE Len(replies)
Right(r, answer, launched, told) ==
    /\ answer.to = r.source /\ answer.ns = r.ns
    /\ r.ns = "receiver" => /\ answer.number = Own(r, "requestId")
                            /\ answer.app # "none" <=> launched
    /\ r.ns = "webrtc" => answer.number = Own(r, "seqNum") /\ answer.from = told

\* A sender gets one reply to each of its requests, with its number, and the status
\* tells of an application exactly if the last of LAUNCH and STOP was the former; an answer
\* comes from the transport that some sender was told of last.
RequestsAnswered ==
    \A i \in DOMAIN requests :
        /\ Upto(i) = requests[i].replies + IF Due(requests[i]) THEN 1 ELSE 0
        /\ Due(requests[i]) => Right(requests[i], replies[Upto(i)], Launched(i),
                                     Told(Upto(i), Senders))

\* Violated: a number of ten bytes in a field that is not known is skipped.  Five are.
LongSkipped ==
    LET long == <<64>> \o [i \in 1 .. 9 |-> 128] \o <<1>>
    IN  Decode(long \o Encoded(<<Bytes(2, <<7>>)>>)) = Decode(Encoded(<<Bytes(2, <<7>>)>>))

\* Violated: a field of a fixed size that is not known, of eight bytes or of four, is
\* skipped.  It ends the reading (cast_proto.h:52).
FixedSkipped ==
    \A size \in {<<1, 8>>, <<5, 4>>} :
        LET fixed == <<64 + size[1]>> \o [i \in 1 .. size[2] |-> 0]
        IN  Decode(fixed \o Encoded(<<Bytes(2, <<7>>)>>)) = Decode(Encoded(<<Bytes(2, <<7>>)>>))

\* Violated: keys may come in any order, as in JSON.  The type of an offer is not found
\* behind the type of what it has.
AnyOrder ==
    JsonGet(<< <<"offer", "object">>, <<"sdp", "v0">>, <<"type", "offer">>, <<"type", "OFFER">> >>,
            "type") = "OFFER"

\* Violated: an answer comes from the transport that its own sender was told of.
AnswerFromOwn ==
    \A i \in DOMAIN replies :
        replies[i].what = "ANSWER" => replies[i].from = Told(i, {replies[i].to})
=============================================================================
