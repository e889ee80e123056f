--------------------------- MODULE Messages_proofs ---------------------------
(***************************************************************************)
(* Proofs about what is said on the network, as MCControl composes it: the *)
(* messages and the WebRTC thread of the Cast receiver, for any number of  *)
(* requests.                                                               *)
(***************************************************************************)
EXTENDS Control_proofs, Induction

(***************************************************************************)
(* The WebRTC thread.                                                      *)
(***************************************************************************)

\* What comes of a handshake, on either side, comes only of one that the sender has
\* begun as the client; before its offer there is nothing.
AsClient ==
    /\ role \in {"client", "server"}
    /\ sender = "off" => air = {} /\ dtls = "none"
    /\ \/ dtls # "none" \/ sender \in {"finishing", "done"}
       \/ air \cap {"hello", "finished", "certificate", "done"} # {}
       => role = "client"

\* The packets are counted, and the keys are there, only after it.
AfterIt ==
    /\ ready = (dtls = "done")
    /\ taken \subseteq {"video"} /\ (taken # {} => ready)
    /\ keys # <<>> => dtls = "done" /\ keys = Webrtc!ExtractKeys

WebrtcInv == Webrtc!TypeOK /\ AsClient /\ AfterIt

LEMMA WebrtcBegins == Webrtc!Init => WebrtcInv
  BY DEF Webrtc!Init, WebrtcInv, Webrtc!TypeOK, AsClient, AfterIt

\* What is taken for video is video, and what for a handshake is one.
LEMMA Kinds ==
    /\ \A d \in Webrtc!ToThread : Webrtc!Kind(d) = "rtp" => d = "video"
    /\ \A d \in Webrtc!ToThread : Webrtc!Kind(d) = "dtls" => d \in {"hello", "finished"}
    /\ \A d \in Webrtc!ToThread : Webrtc!Kind(d) = "stun" => d \in {"request", "response"}
  BY DEF Webrtc!ToThread, Webrtc!Kind, Webrtc!FirstByte, Webrtc!VideoType

\* The keys that are exported are the client's.
LEMMA AllOne ==
    ASSUME NEW S, S # {}, NEW m, NEW v, \A i \in S : m[i] = v
    PROVE  {m[i] : i \in S} = {v}
  OBVIOUS

LEMMA ClientKeys == Webrtc!ExtractKeys = <<{"client key"}, {"client salt"}>>
<1> DEFINE m == Webrtc!Material
           S == 0 .. 15
           T == 32 .. 45
<1>1. (\A i \in S : m[i] = "client key") /\ (\A i \in T : m[i] = "client salt")
  BY DEF Webrtc!Material
<1>2. 0 .. 16 - 1 = S /\ S # {} /\ 32 .. 46 - 1 = T /\ T # {}
  <2>1. 0 \in S /\ 32 \in T
    OBVIOUS
  <2>2. 16 - 1 = 15 /\ 46 - 1 = 45
    OBVIOUS
  <2> QED
    BY <2>1, <2>2
<1>3. Webrtc!Part(0, 16) = {m[i] : i \in S} /\ Webrtc!Part(32, 46) = {m[i] : i \in T}
  BY <1>2 DEF Webrtc!Part
<1> HIDE DEF m, S, T
<1>4. {m[i] : i \in S} = {"client key"} /\ {m[i] : i \in T} = {"client salt"}
  <2>1. S # {} /\ T # {}
    BY <1>2
  <2> QED
    BY <1>1, <2>1, AllOne, Zenon
<1> QED
  BY <1>3, <1>4 DEF Webrtc!ExtractKeys

LEMMA WebrtcKept == WebrtcInv /\ [Webrtc!Next]_webrtcV => WebrtcInv'
<1> SUFFICES ASSUME WebrtcInv, [Webrtc!Next]_webrtcV  PROVE WebrtcInv'
  OBVIOUS
<1> USE DEF WebrtcInv, Webrtc!TypeOK, AsClient, AfterIt, Webrtc!ToThread
<1>1. CASE Webrtc!Offer
  BY <1>1 DEF Webrtc!Offer, Webrtc!keyVars
<1>2. ASSUME NEW d \in Webrtc!ToThread, Webrtc!Stun(d)  PROVE WebrtcInv'
  BY <1>2, Kinds DEF Webrtc!Stun, Webrtc!senderVars, Webrtc!keyVars
<1>3. ASSUME NEW d \in Webrtc!ToThread, Webrtc!Handshake(d)  PROVE WebrtcInv'
  BY <1>3, Kinds DEF Webrtc!Handshake, Webrtc!senderVars, Webrtc!keyVars, Webrtc!Flush
<1>4. ASSUME NEW d \in Webrtc!ToThread, Webrtc!AfterHandshake(d)  PROVE WebrtcInv'
  BY <1>4, Kinds DEF Webrtc!AfterHandshake, Webrtc!senderVars, Webrtc!keyVars
<1>5. ASSUME NEW d \in Webrtc!ToThread, Webrtc!Count(d)  PROVE WebrtcInv'
  BY <1>5, Kinds DEF Webrtc!Count, Webrtc!senderVars, Webrtc!keyVars
<1>6. CASE Webrtc!SenderAsks \/ Webrtc!SenderPlays
  BY <1>6 DEF Webrtc!SenderAsks, Webrtc!SenderPlays, Webrtc!Sends, Webrtc!senderVars,
     Webrtc!keyVars
<1>7. CASE Webrtc!SenderHears
  <2>1. PICK how \in {<<"check", "binding", "checked">>, <<"checked", "certificate", "finishing">>,
                      <<"finishing", "done", "done">>} :
            /\ sender = how[1] /\ how[2] \in air
            /\ sender' = how[3] /\ air' = air \ {how[2]}
    BY <1>7 DEF Webrtc!SenderHears
  <2>2. /\ UNCHANGED <<role, lost, dtls, ready, keys, pending, taken>>
        /\ <<how[1], how[2], how[3]>> \in {<<"check", "binding", "checked">>,
                <<"checked", "certificate", "finishing">>, <<"finishing", "done", "done">>}
    BY <1>7 DEF Webrtc!SenderHears, Webrtc!keyVars
  <2> QED
    BY <2>1, <2>2
<1>8. CASE Webrtc!Lose
  BY <1>8 DEF Webrtc!Lose, Webrtc!senderVars, Webrtc!keyVars
<1>9. CASE UNCHANGED webrtcV
  BY <1>9 DEF webrtcV
<1> QED
  BY <1>1, <1>2, <1>3, <1>4, <1>5, <1>6, <1>7, <1>8, <1>9 DEF Webrtc!Next, Webrtc!Take

LEMMA WebrtcHolds == WebrtcInv => Webrtc!VideoHasKeys
  BY ClientKeys DEF WebrtcInv, AsClient, AfterIt, Webrtc!VideoHasKeys

(***************************************************************************)
(* What senders write.                                                     *)
(***************************************************************************)

\* The first place that has a key is the text's own.
First(text, n, what, i) ==
    /\ n \in Nat /\ DOMAIN text = 1 .. n /\ i \in 1 .. n
    /\ text[i][1] = what /\ text[i][2] # "object"
    /\ \A j \in 1 .. n : j < i => /\ text[j][1] # what /\ text[j][2] # what
                                  /\ text[j][2] # "object"
    /\ \A j \in 1 .. n : j > i /\ text[j][1] = what =>
          \E k \in 1 .. n : k <= j /\ text[k][2] = "object"

\* Its value is what is found.
LEMMA FirstPlace ==
    ASSUME NEW text, NEW n, NEW what, NEW i, First(text, n, what, i)
    PROVE  /\ Message!JsonGet(text, what) = text[i][2]
           /\ \A r : r.text = text => Message!Own(r, what) = text[i][2]
<1> USE DEF First
<1> DEFINE at == {j \in DOMAIN text : what \in {text[j][1], text[j][2]}}
<1>1. i \in at /\ \A j \in at : j \in Nat /\ i <= j
  OBVIOUS
<1>2. Message!Min(at) = i
  BY <1>1 DEF Message!Min
<1>3. Message!JsonGet(text, what) = text[i][2]
  BY <1>1, <1>2, Zenon DEF Message!JsonGet
<1>4. \A j \in 1 .. n : (text[j][1] = what /\ \A k \in 1 .. j : text[k][2] # "object") <=> j = i
  <2> SUFFICES ASSUME NEW j \in 1 .. n
               PROVE  (text[j][1] = what /\ \A k \in 1 .. j : text[k][2] # "object") <=> j = i
    OBVIOUS
  <2>1. CASE j < i
    BY <2>1
  <2>2. CASE j = i
    <3>1. \A k \in 1 .. j : k = i \/ k < i
      BY <2>2
    <3> QED
      BY <2>2, <3>1
  <2>3. CASE j > i
    BY <2>3
  <2> QED
    BY <2>1, <2>2, <2>3
<1>5. ASSUME NEW r, r.text = text
      PROVE  Message!Own(r, what) = text[i][2]
  <2> DEFINE Place(j) == text[j][1] = what /\ \A k \in 1 .. j : text[k][2] # "object"
  <2>1. \A j \in 1 .. n : Place(j) <=> j = i
    BY <1>4
  <2>2. (CHOOSE j \in 1 .. n : Place(j)) = i
    <3> HIDE DEF Place
    <3> QED
      BY <2>1
  <2>3. Message!Own(r, what) = text[CHOOSE j \in 1 .. n : Place(j)][2]
    BY <1>5, Zenon DEF Message!Own
  <2> QED
    BY <2>2, <2>3
<1> QED
  BY <1>3, <1>5

LEMMA MessageCounts == \A S : Message!Cardinality(S) = Cardinality(S)
  BY Zenon DEF Message!Cardinality, Cardinality

\* Two keys come in either order.
LEMMA Orders ==
    ASSUME NEW x, NEW y, x # y, NEW text \in Message!SetToSeqs({x, y})
    PROVE  text = <<x, y>> \/ text = <<y, x>>
<1>1. Message!Cardinality({x, y}) = 2
  <2>1. IsFiniteSet({x}) /\ Cardinality({x}) = 1 /\ y \notin {x}
    BY FS_Singleton
  <2>2. Cardinality({x} \cup {y}) = Cardinality({x}) + 1
    BY <2>1, FS_AddElement
  <2>3. {x} \cup {y} = {x, y}
    OBVIOUS
  <2> QED
    BY <2>1, <2>2, <2>3, MessageCounts
<1>2. text \in [1 .. 2 -> {x, y}] /\ \A i, j \in 1 .. 2 : i # j => text[i] # text[j]
  BY <1>1, Zenon DEF Message!SetToSeqs
<1>3. text \in [1 .. 2 -> {x, y}] /\ text[1] # text[2]
  BY <1>2
<1>4. text = <<text[1], text[2]>> /\ text[1] \in {x, y} /\ text[2] \in {x, y}
  BY <1>3
<1> QED
  BY <1>3, <1>4, Zenon

Types == {"GET_STATUS", "LAUNCH", "STOP"}

LEMMA TextsAre ==
    /\ Message!Texted("receiver") = UNION {Message!Asking(type) : type \in Types}
    /\ Message!Texted("heartbeat") = {<< <<"type", type>> >> : type \in {"PING", "PONG"}}
    /\ Message!Texted("webrtc") = Message!Offers
  BY DEF Message!Texted, Types

LEMMA TwoOf ==
    ASSUME NEW text, NEW u, NEW v, text = <<u, v>>
    PROVE  text[1] = u /\ text[2] = v
  OBVIOUS

\* What a sender asks of the receiver, whichever key comes first.
LEMMA ReceiverSays ==
    ASSUME NEW text \in Message!Texted("receiver")
    PROVE  \E type \in Types :
              /\ Message!JsonGet(text, "type") = type
              /\ Message!JsonGetInt(text, "requestId") = "1"
              /\ \A r : r.text = text => /\ Message!Own(r, "type") = type
                                         /\ Message!Own(r, "requestId") = "1"
<1>1. PICK type \in Types : text \in Message!Asking(type)
  BY TextsAre, Zenon
<1> DEFINE x == <<"type", type>>
           y == <<"requestId", "1">>
<1>2. x # y
  OBVIOUS
<1>3. text \in Message!SetToSeqs({x, y})
  BY <1>1, Zenon DEF Message!Asking
<1>4. text = <<x, y>> \/ text = <<y, x>>
  <2> HIDE DEF x, y
  <2> QED
    BY <1>2, <1>3, Orders
<1>5. type # "requestId" /\ type # "object"
  BY DEF Types
<1>6. /\ Message!JsonGet(text, "type") = type /\ Message!JsonGet(text, "requestId") = "1"
      /\ \A r : r.text = text => /\ Message!Own(r, "type") = type
                                 /\ Message!Own(r, "requestId") = "1"
  <2>1. CASE text = <<x, y>>
    <3>1. /\ DOMAIN text = 1 .. 2 /\ 2 \in Nat /\ 1 \in 1 .. 2 /\ 2 \in 1 .. 2
          /\ text[1][1] = "type" /\ text[1][2] = type
          /\ text[2][1] = "requestId" /\ text[2][2] = "1"
      BY <2>1
    <3>2. /\ Message!JsonGet(text, "type") = text[1][2]
          /\ \A r : r.text = text => Message!Own(r, "type") = text[1][2]
      <4>1. First(text, 2, "type", 1)
        BY <1>5, <3>1 DEF First
      <4> QED
        BY <4>1, FirstPlace
    <3>3. /\ Message!JsonGet(text, "requestId") = text[2][2]
          /\ \A r : r.text = text => Message!Own(r, "requestId") = text[2][2]
      <4>1. First(text, 2, "requestId", 2)
        BY <1>5, <3>1 DEF First
      <4> QED
        BY <4>1, FirstPlace
    <3> QED
      BY <3>1, <3>2, <3>3
  <2>2. CASE text = <<y, x>>
    <3>1. /\ DOMAIN text = 1 .. 2 /\ 2 \in Nat /\ 1 \in 1 .. 2 /\ 2 \in 1 .. 2
          /\ text[2][1] = "type" /\ text[2][2] = type
          /\ text[1][1] = "requestId" /\ text[1][2] = "1"
      BY <2>2
    <3>2. /\ Message!JsonGet(text, "type") = text[2][2]
          /\ \A r : r.text = text => Message!Own(r, "type") = text[2][2]
      <4>1. First(text, 2, "type", 2)
        BY <1>5, <3>1 DEF First
      <4> QED
        BY <4>1, FirstPlace
    <3>3. /\ Message!JsonGet(text, "requestId") = text[1][2]
          /\ \A r : r.text = text => Message!Own(r, "requestId") = text[1][2]
      <4>1. First(text, 2, "requestId", 1)
        BY <1>5, <3>1 DEF First
      <4> QED
        BY <4>1, FirstPlace
    <3> QED
      BY <3>1, <3>2, <3>3
  <2> QED
    BY <1>4, <2>1, <2>2
<1>7. Message!JsonGetInt(text, "requestId") = "1"
  BY <1>6 DEF Message!JsonGetInt, Message!Digits
<1> QED
  BY <1>6, <1>7

LEMMA HeartbeatSays ==
    ASSUME NEW text \in Message!Texted("heartbeat")
    PROVE  \E type \in {"PING", "PONG"} :
              /\ Message!JsonGet(text, "type") = type
              /\ \A r : r.text = text => Message!Own(r, "type") = type
<1>1. PICK type \in {"PING", "PONG"} : text = << <<"type", type>> >>
  BY TextsAre
<1>2. /\ DOMAIN text = 1 .. 1 /\ 1 \in Nat /\ 1 \in 1 .. 1
      /\ text[1][1] = "type" /\ text[1][2] = type /\ type # "object"
  BY <1>1
<1>3. First(text, 1, "type", 1)
  BY <1>2 DEF First
<1>4. /\ Message!JsonGet(text, "type") = text[1][2]
      /\ \A r : r.text = text => Message!Own(r, "type") = text[1][2]
  BY <1>3, FirstPlace
<1> QED
  BY <1>2, <1>4

LEMMA FiveOf ==
    ASSUME NEW text, NEW u, NEW v, NEW x, NEW y, NEW z, text = <<u, v, x, y, z>>
    PROVE  /\ DOMAIN text = 1 .. 5
           /\ text[1] = u /\ text[2] = v /\ text[3] = x /\ text[4] = y /\ text[5] = z
  OBVIOUS

\* An offer, whose type is found before the type of what it has.
LEMMA WebrtcSays ==
    ASSUME NEW text \in Message!Texted("webrtc")
    PROVE  /\ Message!JsonGet(text, "type") = "OFFER"
           /\ Message!JsonGet(text, "sdp") # "none" <=> <<"sdp", "v0">> \in Message!ToSet(text)
           /\ Message!JsonGetInt(text, "seqNum") = "2"
           /\ \A r : r.text = text => Message!Own(r, "seqNum") = "2"
<1> DEFINE x == <<"type", "OFFER">>
           y == <<"seqNum", "2">>
<1>1. PICK d \in Message!SetToSeqs({x, y}), s \in {"none", "v0"} :
          text = Message!Offer(d[1], d[2], s)
  BY TextsAre DEF Message!Offers
<1>2. x # y
  OBVIOUS
<1>3. d = <<x, y>> \/ d = <<y, x>>
  <2> HIDE DEF x, y
  <2> QED
    BY <1>1, <1>2, Orders
<1>4. PICK i \in 1 .. 2, k \in 1 .. 2 :
        /\ i # k /\ DOMAIN text = 1 .. 5 /\ text[i] = x /\ text[k] = y
        /\ text[3] = <<"offer", "object">> /\ text[4] = <<"sdp", s>>
        /\ text[5] = <<"type", "offer">>
  <2>1. /\ DOMAIN text = 1 .. 5 /\ text[1] = d[1] /\ text[2] = d[2]
        /\ text[3] = <<"offer", "object">> /\ text[4] = <<"sdp", s>>
        /\ text[5] = <<"type", "offer">>
    <3>1. text = << d[1], d[2], <<"offer", "object">>, <<"sdp", s>>, <<"type", "offer">> >>
      BY <1>1, Zenon DEF Message!Offer
    <3> QED
      BY <3>1, FiveOf, Zenon
  <2>2. (d[1] = x /\ d[2] = y) \/ (d[1] = y /\ d[2] = x)
    <3>1. CASE d = <<x, y>>
      BY <3>1, TwoOf
    <3>2. CASE d = <<y, x>>
      BY <3>2, TwoOf
    <3> QED
      BY <1>3, <3>1, <3>2
  <2>3. 1 \in 1 .. 2 /\ 2 \in 1 .. 2 /\ 1 # 2
    OBVIOUS
  <2> HIDE DEF x, y
  <2> QED
    BY <2>1, <2>2, <2>3
<1>5. /\ 5 \in Nat /\ i \in 1 .. 5 /\ k \in 1 .. 5 /\ 4 \in 1 .. 5
      /\ \A j \in 1 .. 5 : j \in {i, k, 3, 4, 5} /\ (j < i => j = k) /\ (j < k => j = i)
  BY <1>4
<1>6. /\ text[i][1] = "type" /\ text[i][2] = "OFFER"
      /\ text[k][1] = "seqNum" /\ text[k][2] = "2"
      /\ text[3][1] = "offer" /\ text[3][2] = "object"
      /\ text[4][1] = "sdp" /\ text[4][2] = s
      /\ text[5][1] = "type" /\ text[5][2] = "offer"
  <2>2. text[i] = <<"type", "OFFER">> /\ text[k] = <<"seqNum", "2">>
    BY <1>4
  <2> HIDE DEF x, y
  <2> QED
    BY <1>4, <2>2, TwoOf
<1>7. /\ Message!JsonGet(text, "type") = text[i][2]
      /\ Message!JsonGet(text, "seqNum") = text[k][2]
      /\ \A r : r.text = text => Message!Own(r, "seqNum") = text[k][2]
  <2>1. First(text, 5, "type", i)
    BY <1>4, <1>5, <1>6 DEF First
  <2>2. First(text, 5, "seqNum", k)
    BY <1>4, <1>5, <1>6 DEF First
  <2> QED
    BY <2>1, <2>2, FirstPlace
<1>8. Message!JsonGet(text, "sdp") = s
  <2> DEFINE at == {j \in DOMAIN text : "sdp" \in {text[j][1], text[j][2]}}
  <2>1. at = {4}
    BY <1>4, <1>5, <1>6
  <2>2. Message!Min(at) = 4
    BY <2>1 DEF Message!Min
  <2> QED
    BY <1>6, <2>1, <2>2, Zenon DEF Message!JsonGet
<1>9. <<"sdp", "v0">> \in Message!ToSet(text) <=> s = "v0"
  <2>1. \A j \in 1 .. 5 : text[j] = <<"sdp", "v0">> => j = 4
    BY <1>5, <1>6
  <2>2. <<"sdp", "v0">> \in Message!ToSet(text) => s = "v0"
    BY <1>4, <1>5, <2>1 DEF Message!ToSet
  <2>3. s = "v0" => <<"sdp", "v0">> \in Message!ToSet(text)
    BY <1>4, <1>5 DEF Message!ToSet
  <2> QED
    BY <2>2, <2>3
<1>10. Message!JsonGetInt(text, "seqNum") = "2"
  BY <1>6, <1>7 DEF Message!JsonGetInt, Message!Digits
<1> QED
  BY <1>6, <1>7, <1>8, <1>9, <1>10

(***************************************************************************)
(* What the receiver has answered.                                         *)
(***************************************************************************)

\* The property, of any requests and replies.
Turns(r) == r.ns = "receiver" /\ Message!Own(r, "type") \in {"LAUNCH", "STOP"}
Turning(qs, i) == {j \in 1 .. i : Turns(qs[j])}
Runs(qs, i) ==
    Turning(qs, i) # {} /\ Message!Own(qs[Message!Max(Turning(qs, i))], "type") = "LAUNCH"

Tells(x) == x.app # "none" /\ x.to \in Message!Senders
Telling(rs, n) == {j \in 1 .. n - 1 : Tells(rs[j])}
ToldIn(rs, n) == IF Telling(rs, n) = {} THEN "none" ELSE rs[Message!Max(Telling(rs, n))].app

Upto(qs, rs, i) == IF i < Len(qs) THEN qs[i + 1].replies ELSE Len(rs)
Answered(qs, rs, i) ==
    /\ Upto(qs, rs, i) = qs[i].replies + IF Message!Due(qs[i]) THEN 1 ELSE 0
    /\ Message!Due(qs[i]) => Message!Right(qs[i], rs[Upto(qs, rs, i)], Runs(qs, i),
                                           ToldIn(rs, Upto(qs, rs, i)))

LEMMA Restated ==
    (\A i \in DOMAIN requests : Answered(requests, replies, i)) => Message!RequestsAnswered
<1> SUFFICES ASSUME NEW i \in DOMAIN requests, Answered(requests, replies, i)
             PROVE  /\ Message!Upto(i)
                         = requests[i].replies + IF Message!Due(requests[i]) THEN 1 ELSE 0
                    /\ Message!Due(requests[i]) =>
                         Message!Right(requests[i], replies[Message!Upto(i)],
                                       Message!Launched(i),
                                       Message!Told(Message!Upto(i), Message!Senders))
  BY Zenon DEF Message!RequestsAnswered
<1>1. Message!Upto(i) = Upto(requests, replies, i)
  BY Zenon DEF Message!Upto, Upto
<1>2. Message!Told(Upto(requests, replies, i), Message!Senders)
        = ToldIn(replies, Upto(requests, replies, i))
  BY Zenon DEF Message!Told, ToldIn, Telling, Tells
<1>3. Message!Launched(i) = Runs(requests, i)
  BY Zenon DEF Message!Launched, Runs, Turning, Turns
<1> QED
  BY <1>1, <1>2, <1>3, Zenon DEF Answered

-----------------------------------------------------------------------------
\* Of numbers up to a bound there is a greatest.
LEMMA MaxOf ==
    ASSUME NEW n \in Int, NEW S, S \subseteq 1 .. n, S # {}
    PROVE  Message!Max(S) \in S /\ \A y \in S : y <= Message!Max(S)
<1> DEFINE T == {t \in 0 .. n : n - t \in S}
<1>1. PICK s \in S : TRUE
  OBVIOUS
<1>2. \A y \in S : n - y \in T /\ y \in Int /\ n - (n - y) = y
  OBVIOUS
<1>3. T \subseteq Nat /\ T # {}
  <2>1. T \subseteq Nat
    OBVIOUS
  <2> HIDE DEF T
  <2> QED
    BY <1>1, <1>2, <2>1
<1>4. PICK t \in T : \A u \in T : t <= u
  <2> HIDE DEF T
  <2> QED
    BY <1>3, LeastOfNats
<1>5. n - t \in S /\ t \in Int
  OBVIOUS
<1>6. \A y \in S : n - t >= y
  <2> HIDE DEF T
  <2> SUFFICES ASSUME NEW y \in S  PROVE n - t >= y
    OBVIOUS
  <2>1. t <= n - y /\ y \in Int
    BY <1>2, <1>4
  <2> QED
    BY <1>5, <2>1
<1>7. Message!Max(S) \in S /\ \A y \in S : Message!Max(S) >= y
  BY <1>5, <1>6, Zenon DEF Message!Max
<1>8. Message!Max(S) \in Int
  BY <1>2, <1>7
<1> QED
  BY <1>2, <1>7, <1>8

\* What comes later makes no difference.
LEMMA RunsOnly ==
    ASSUME NEW i \in Nat, NEW qs, NEW rs, \A j \in 1 .. i : rs[j] = qs[j]
    PROVE  Runs(rs, i) <=> Runs(qs, i)
<1>1. Turning(rs, i) = Turning(qs, i) /\ Turning(qs, i) \subseteq 1 .. i
  BY DEF Turning
<1>2. Turning(qs, i) # {} => Message!Max(Turning(qs, i)) \in 1 .. i
  BY <1>1, MaxOf
<1> QED
  BY <1>1, <1>2 DEF Runs

LEMMA RunsNext ==
    ASSUME NEW i \in Nat, NEW qs
    PROVE  Runs(qs, i + 1) <=> IF Turns(qs[i + 1])
                               THEN Message!Own(qs[i + 1], "type") = "LAUNCH" ELSE Runs(qs, i)
<1>1. CASE Turns(qs[i + 1])
  <2>1. i + 1 \in Turning(qs, i + 1) /\ Turning(qs, i + 1) \subseteq 1 .. i + 1
    BY <1>1 DEF Turning
  <2>2. Message!Max(Turning(qs, i + 1)) \in 1 .. i + 1 /\ i + 1 <= Message!Max(Turning(qs, i + 1))
    BY <2>1, MaxOf
  <2>3. Message!Max(Turning(qs, i + 1)) = i + 1
    BY <2>2
  <2> QED
    BY <1>1, <2>1, <2>3 DEF Runs
<1>2. CASE ~Turns(qs[i + 1])
  <2>1. Turning(qs, i + 1) = Turning(qs, i)
    BY <1>2 DEF Turning
  <2> QED
    BY <1>2, <2>1 DEF Runs
<1> QED
  BY <1>1, <1>2

LEMMA ToldOnly ==
    ASSUME NEW n \in Nat, NEW rs, NEW ts, \A j \in 1 .. n - 1 : ts[j] = rs[j]
    PROVE  ToldIn(ts, n) = ToldIn(rs, n)
<1>1. Telling(ts, n) = Telling(rs, n) /\ Telling(rs, n) \subseteq 1 .. n - 1
  BY DEF Telling
<1>2. Telling(rs, n) # {} => Message!Max(Telling(rs, n)) \in 1 .. n - 1
  BY <1>1, MaxOf
<1> QED
  BY <1>1, <1>2 DEF ToldIn

LEMMA ToldNext ==
    ASSUME NEW n \in Nat, NEW rs
    PROVE  ToldIn(rs, n + 1) = IF n # 0 /\ Tells(rs[n]) THEN rs[n].app ELSE ToldIn(rs, n)
<1>1. CASE n # 0 /\ Tells(rs[n])
  <2>1. n \in Telling(rs, n + 1) /\ Telling(rs, n + 1) \subseteq 1 .. n
    BY <1>1 DEF Telling
  <2>2. Message!Max(Telling(rs, n + 1)) \in 1 .. n /\ n <= Message!Max(Telling(rs, n + 1))
    BY <2>1, MaxOf
  <2>3. Message!Max(Telling(rs, n + 1)) = n
    BY <2>2
  <2> QED
    BY <1>1, <2>1, <2>3 DEF ToldIn
<1>2. CASE ~(n # 0 /\ Tells(rs[n]))
  <2>1. Telling(rs, n + 1) = Telling(rs, n)
    BY <1>2 DEF Telling
  <2> QED
    BY <1>2, <2>1 DEF ToldIn
<1> QED
  BY <1>1, <1>2

-----------------------------------------------------------------------------
Spaces == {"receiver", "heartbeat", "webrtc"}
Requests == [ns : Spaces, source : Message!Senders,
             text : UNION {Message!Texted(ns) : ns \in Spaces}, replies : Nat]
Transports == {"none", "web-1", "web-2"}
Replies == [ns : Spaces, from : {"receiver-0"} \cup Transports, to : Message!Senders,
            what : {"PONG", "RECEIVER_STATUS", "ANSWER"}, number : {"none", "1", "2"},
            app : Transports]

\* A request that was answered stays answered when another comes.
LEMMA AnsweredStays ==
    ASSUME NEW qs \in Seq(Requests), NEW rs \in Seq(Replies), NEW q \in Requests,
           q.replies = Len(rs),
           NEW ts \in Seq(Replies), Len(rs) <= Len(ts), \A j \in 1 .. Len(rs) : ts[j] = rs[j],
           NEW i \in 1 .. Len(qs), Upto(qs, rs, i) <= Len(rs), Answered(qs, rs, i)
    PROVE  /\ Upto(Append(qs, q), ts, i) = Upto(qs, rs, i)
           /\ Answered(Append(qs, q), ts, i)
<1> DEFINE ps == Append(qs, q)
           n == Upto(qs, rs, i)
<1>1. Len(ps) = Len(qs) + 1 /\ ps[Len(qs) + 1] = q /\ \A j \in 1 .. Len(qs) : ps[j] = qs[j]
  OBVIOUS
<1> HIDE DEF ps
<1>2. Upto(ps, ts, i) = n
  <2>1. CASE i = Len(qs)
    <3>1. i + 1 = Len(qs) + 1 /\ i < Len(ps) /\ ~(i < Len(qs))
      BY <1>1, <2>1
    <3>2. Upto(ps, ts, i) = q.replies /\ n = Len(rs)
      BY <1>1, <3>1 DEF Upto
    <3> QED
      BY <3>2
  <2>2. CASE i # Len(qs)
    <3>1. i + 1 \in 1 .. Len(qs) /\ i < Len(ps) /\ i < Len(qs)
      BY <1>1, <2>2
    <3>2. Upto(ps, ts, i) = ps[i + 1].replies /\ n = qs[i + 1].replies
      BY <3>1 DEF Upto
    <3> QED
      BY <1>1, <3>1, <3>2
  <2> QED
    BY <2>1, <2>2
<1>3. ps[i] = qs[i] /\ qs[i].replies \in Nat /\ n \in Nat
  <2>1. \A j \in 1 .. Len(qs) : qs[j].replies \in Nat
    <3>1. \A r \in Requests : r.replies \in Nat
      BY DEF Requests
    <3>2. \A j \in 1 .. Len(qs) : qs[j] \in Requests
      OBVIOUS
    <3> QED
      BY <3>1, <3>2
  <2>2. i < Len(qs) => i + 1 \in 1 .. Len(qs)
    OBVIOUS
  <2> QED
    BY <1>1, <2>1, <2>2 DEF Upto
<1>4. Message!Due(qs[i]) => n \in 1 .. Len(rs)
  <2>1. Message!Due(qs[i]) => n = qs[i].replies + 1
    BY Zenon DEF Answered
  <2>2. n <= Len(rs) /\ Len(rs) \in Nat
    OBVIOUS
  <2> HIDE DEF n
  <2> QED
    BY <1>3, <2>1, <2>2
<1>5. Runs(ps, i) <=> Runs(qs, i)
  <2>1. i \in Nat /\ \A j \in 1 .. i : ps[j] = qs[j]
    BY <1>1
  <2> QED
    BY <2>1, RunsOnly
<1>6. ToldIn(ts, n) = ToldIn(rs, n)
  <2>1. \A j \in 1 .. n - 1 : ts[j] = rs[j]
    BY <1>3
  <2> HIDE DEF n
  <2> QED
    BY <1>3, <2>1, ToldOnly
<1>7. Message!Due(qs[i]) => ts[n] = rs[n]
  BY <1>4
<1>8. Answered(ps, ts, i)
  <2> HIDE DEF n
  <2>1. n = qs[i].replies + IF Message!Due(qs[i]) THEN 1 ELSE 0
    BY DEF Answered, n
  <2>2. Message!Due(qs[i]) => Message!Right(qs[i], rs[n], Runs(qs, i), ToldIn(rs, n))
    BY DEF Answered, n
  <2>3. Message!Due(qs[i]) => Message!Right(qs[i], ts[n], Runs(ps, i), ToldIn(ts, n))
    BY <1>5, <1>6, <1>7, <2>2 DEF Message!Right
  <2> QED
    BY <1>2, <1>3, <2>1, <2>3 DEF Answered
<1> QED
  BY <1>2, <1>8 DEF ps

\* What goes on: the application runs exactly if the last of LAUNCH and STOP was the
\* former, and the transport is the one that was told of last.
Goes ==
    /\ mirroring \in BOOLEAN /\ transport \in Transports
    /\ mirroring <=> Runs(requests, Len(requests))
    /\ mirroring => transport # "none"
    /\ transport = ToldIn(replies, Len(replies) + 1)
MessageInv ==
    /\ requests \in Seq(Requests) /\ replies \in Seq(Replies)
    /\ Len(requests) <= MaxRequests /\ Len(replies) <= Len(requests)
    /\ \A i \in 1 .. Len(requests) : /\ Upto(requests, replies, i) <= Len(replies)
                                     /\ Answered(requests, replies, i)
    /\ Goes

LEMMA MessageBegins == Message!Init => MessageInv
<1> SUFFICES ASSUME Message!Init  PROVE MessageInv
  OBVIOUS
<1>1. requests = <<>> /\ replies = <<>> /\ transport = "none" /\ mirroring = FALSE
  BY Zenon DEF Message!Init
<1>2. Turning(requests, 0) = {} /\ Telling(replies, 1) = {}
  BY DEF Turning, Telling
<1>3. Len(requests) = 0 /\ Len(replies) = 0 /\ Len(replies) + 1 = 1
  BY <1>1
<1>4. ~Runs(requests, Len(requests)) /\ ToldIn(replies, Len(replies) + 1) = "none"
  BY <1>2, <1>3, Zenon DEF Runs, ToldIn
<1>5. Goes
  BY <1>1, <1>4 DEF Goes, Transports
<1> QED
  BY <1>1, <1>3, <1>5, MaxAssumption DEF MessageInv

\* A request with its reply, if it has one.
LEMMA OneMore ==
    ASSUME MessageInv, Len(requests) < MaxRequests,
           NEW q \in Requests, q.replies = Len(replies), NEW x \in Replies,
           requests' = Append(requests, q),
           replies' = IF Message!Due(q) THEN Append(replies, x) ELSE replies,
           Message!Due(q) => Message!Right(q, x, mirroring', ToldIn(replies, Len(replies) + 1)),
           Goes'
    PROVE  MessageInv'
<1> DEFINE n == Len(requests)
           m == Len(replies)
<1>1. /\ requests \in Seq(Requests) /\ replies \in Seq(Replies) /\ n \in Nat /\ m \in Nat
      /\ n + 1 <= MaxRequests /\ m <= n
  BY MaxAssumption DEF MessageInv
<1>2. requests' \in Seq(Requests) /\ Len(requests') = n + 1 /\ requests'[n + 1] = q
  BY <1>1
<1>3. /\ replies' \in Seq(Replies)
      /\ Len(replies') = m + (IF Message!Due(q) THEN 1 ELSE 0)
      /\ \A j \in 1 .. m : replies'[j] = replies[j]
      /\ Message!Due(q) => replies'[m + 1] = x
  <2>1. CASE Message!Due(q)
    BY <1>1, <2>1
  <2>2. CASE ~Message!Due(q)
    BY <1>1, <2>2
  <2> QED
    BY <2>1, <2>2
<1>4. m <= Len(replies') /\ Len(replies') \in Nat /\ Len(replies') <= n + 1
  BY <1>1, <1>3
<1>5. ASSUME NEW i \in 1 .. n
      PROVE  /\ Upto(requests', replies', i) <= Len(replies')
             /\ Answered(requests', replies', i)
  <2>1. Upto(requests, replies, i) <= m /\ Answered(requests, replies, i)
    BY DEF MessageInv
  <2>2. /\ Upto(requests', replies', i) = Upto(requests, replies, i)
        /\ Answered(requests', replies', i)
    <3> DEFINE ts == replies'
    <3>1. ts \in Seq(Replies) /\ m <= Len(ts) /\ \A j \in 1 .. m : ts[j] = replies[j]
      BY <1>3, <1>4
    <3> HIDE DEF ts
    <3>2. /\ Upto(Append(requests, q), ts, i) = Upto(requests, replies, i)
          /\ Answered(Append(requests, q), ts, i)
      BY <1>1, <2>1, <3>1, AnsweredStays
    <3> QED
      BY <3>2 DEF ts
  <2>3. Upto(requests, replies, i) \in Int
    <3>1. \A r \in Requests : r.replies \in Nat
      BY DEF Requests
    <3>2. \A j \in 1 .. n : requests[j] \in Requests
      BY <1>1
    <3>3. i < n => i + 1 \in 1 .. n
      BY <1>1
    <3> QED
      BY <1>1, <3>1, <3>2, <3>3 DEF Upto
  <2> QED
    BY <1>1, <1>4, <2>1, <2>2, <2>3
<1>6. /\ Upto(requests', replies', n + 1) <= Len(replies')
      /\ Answered(requests', replies', n + 1)
  <2>1. Upto(requests', replies', n + 1) = Len(replies')
    BY <1>1, <1>2 DEF Upto
  <2>2. Runs(requests', n + 1) <=> mirroring'
    BY <1>2 DEF Goes
  <2>3. ToldIn(replies', m + 1) = ToldIn(replies, m + 1)
    <3> DEFINE ts == replies'
               k == m + 1
    <3>1. k \in Nat /\ \A j \in 1 .. k - 1 : ts[j] = replies[j]
      BY <1>1, <1>3
    <3> HIDE DEF ts, k
    <3>2. ToldIn(ts, k) = ToldIn(replies, k)
      BY <3>1, ToldOnly
    <3> QED
      BY <3>2 DEF ts, k
  <2>4. Message!Due(q) => /\ Len(replies') = m + 1
                          /\ Message!Right(q, replies'[m + 1], Runs(requests', n + 1),
                                           ToldIn(replies', m + 1))
    <3> SUFFICES ASSUME Message!Due(q)
                 PROVE  /\ Len(replies') = m + 1
                        /\ Message!Right(q, replies'[m + 1], Runs(requests', n + 1),
                                         ToldIn(replies', m + 1))
      OBVIOUS
    <3>1. Len(replies') = m + 1 /\ replies'[m + 1] = x
      BY <1>3
    <3>2. Message!Right(q, x, mirroring', ToldIn(replies, m + 1))
      OBVIOUS
    <3> QED
      BY <2>2, <2>3, <3>1, <3>2 DEF Message!Right
  <2>5. Len(replies') = q.replies + IF Message!Due(q) THEN 1 ELSE 0
    BY <1>3
  <2> HIDE DEF n, m
  <2>6. Answered(requests', replies', n + 1)
    BY <1>2, <2>1, <2>4, <2>5, Zenon DEF Answered
  <2> QED
    BY <1>4, <2>1, <2>6
<1>7. \A i \in 1 .. n + 1 : i \in 1 .. n \/ i = n + 1
  BY <1>1
<1> HIDE DEF n, m
<1>8. \A i \in 1 .. Len(requests') : /\ Upto(requests', replies', i) <= Len(replies')
                                     /\ Answered(requests', replies', i)
  BY <1>2, <1>5, <1>6, <1>7
<1> QED
  BY <1>1, <1>2, <1>3, <1>4, <1>8 DEF MessageInv

\* A message of any of the namespaces.
LEMMA MessageKept == MessageInv /\ Message!Message => MessageInv'
<1> SUFFICES ASSUME MessageInv, Message!Message  PROVE MessageInv'
  OBVIOUS
<1>1. PICK ns \in Spaces, source \in Message!Senders,
           text \in UNION {Message!Texted(s) : s \in Spaces} :
        /\ text \in Message!Texted(ns)
        /\ requests' = Append(requests, [ns |-> ns, source |-> source, text |-> text,
                                         replies |-> Len(replies)])
        /\ CASE ns = "receiver"  -> Message!Receiver(source, text)
             [] ns = "heartbeat" -> Message!Heartbeat(source, text)
             [] ns = "webrtc"    -> Message!Webrtc(source, text)
  BY Zenon DEF Message!Message, Spaces
<1> DEFINE q == [ns |-> ns, source |-> source, text |-> text, replies |-> Len(replies)]
           n == Len(requests)
           m == Len(replies)
           Sent(to, what, number, app, from) ==
              [ns |-> ns, from |-> from, to |-> to, what |-> what, number |-> number, app |-> app]
<1>2. /\ requests \in Seq(Requests) /\ replies \in Seq(Replies) /\ n \in Nat /\ m \in Nat
      /\ n < MaxRequests
  BY DEF MessageInv, Message!Message
<1>3. q \in Requests /\ q.ns = ns /\ q.source = source /\ q.text = text /\ q.replies = m
  BY <1>2 DEF Requests
<1>4. requests' = Append(requests, q)
  BY <1>1
<1> HIDE DEF q
<1>5. requests'[n + 1] = q /\ Len(requests') = n + 1 /\ \A j \in 1 .. n : requests'[j] = requests[j]
  BY <1>2, <1>3, <1>4
<1>6. Runs(requests', n + 1) <=> IF Turns(q) THEN Message!Own(q, "type") = "LAUNCH"
                                 ELSE Runs(requests, n)
  <2> DEFINE qs == requests'
  <2>1. n \in Nat /\ \A j \in 1 .. n : qs[j] = requests[j]
    BY <1>2, <1>5
  <2>2. qs[n + 1] = q
    BY <1>5
  <2> HIDE DEF qs, n
  <2>3. Runs(qs, n) <=> Runs(requests, n)
    BY <2>1, RunsOnly
  <2>4. Runs(qs, n + 1) <=> IF Turns(q) THEN Message!Own(q, "type") = "LAUNCH"
                            ELSE Runs(qs, n)
    BY <2>1, <2>2, RunsNext
  <2> QED
    BY <2>3, <2>4 DEF qs
<1>7. /\ mirroring \in BOOLEAN /\ transport \in Transports
      /\ mirroring <=> Runs(requests, n)
      /\ mirroring => transport # "none"
      /\ transport = ToldIn(replies, m + 1)
  BY DEF MessageInv, Goes
<1>8. ASSUME NEW x \in Replies, replies' = Append(replies, x)
      PROVE  /\ Len(replies') = m + 1
             /\ ToldIn(replies', Len(replies') + 1)
                  = IF Tells(x) THEN x.app ELSE ToldIn(replies, m + 1)
  <2> DEFINE ts == replies'
             k == m + 1
  <2>1. /\ k \in Nat /\ k # 0 /\ ts[k] = x /\ Len(ts) = k
        /\ \A j \in 1 .. k - 1 : ts[j] = replies[j]
    BY <1>2, <1>8
  <2> HIDE DEF ts, k
  <2>2. ToldIn(ts, k) = ToldIn(replies, k)
    BY <2>1, ToldOnly
  <2>3. ToldIn(ts, k + 1) = IF Tells(ts[k]) THEN ts[k].app ELSE ToldIn(ts, k)
    BY <2>1, ToldNext
  <2> QED
    BY <2>1, <2>2, <2>3 DEF ts, k
<1>10. CASE ns = "receiver"
  <2>1. Message!Receiver(source, text) /\ text \in Message!Texted("receiver")
    BY <1>1, <1>10
  <2>2. PICK type \in Types :
          /\ Message!JsonGet(text, "type") = type
          /\ Message!JsonGetInt(text, "requestId") = "1"
          /\ \A r : r.text = text => /\ Message!Own(r, "type") = type
                                     /\ Message!Own(r, "requestId") = "1"
    BY <2>1, ReceiverSays
  <2>3. Message!Own(q, "type") = type /\ Message!Own(q, "requestId") = "1"
    BY <1>3, <2>2
  <2> DEFINE app == IF mirroring' THEN transport' ELSE "none"
             x == Sent(source, "RECEIVER_STATUS", "1", app, "receiver-0")
  <2>4. /\ mirroring' = (type = "LAUNCH" \/ (mirroring /\ type # "STOP"))
        /\ transport' \in IF type = "LAUNCH" THEN {"web-1", "web-2"} ELSE {transport}
        /\ replies' = Append(replies, x)
    BY <1>10, <2>1, <2>2 DEF Message!Receiver, Message!Sends
  <2>5. /\ mirroring' \in BOOLEAN /\ transport' \in Transports
        /\ mirroring' => transport' # "none"
    BY <1>7, <2>4 DEF Transports
  <2>6. app \in Transports /\ (app # "none" <=> mirroring') /\ (mirroring' => app = transport')
    BY <2>5 DEF Transports
  <2> HIDE DEF app
  <2>7. /\ x \in Replies /\ x.to = source /\ x.ns = ns /\ x.number = "1" /\ x.app = app
    BY <1>10, <2>6 DEF Replies, Spaces
  <2> HIDE DEF x
  <2>8. mirroring' <=> Runs(requests', n + 1)
    BY <1>3, <1>6, <1>7, <1>10, <2>3, <2>4 DEF Turns, Types
  <2>9. transport' = ToldIn(replies', Len(replies') + 1)
    <3>1. Tells(x) <=> mirroring'
      BY <2>6, <2>7 DEF Tells
    <3>2. ~mirroring' => transport' = transport
      BY <2>4
    <3> QED
      BY <1>7, <1>8, <2>4, <2>6, <2>7, <3>1, <3>2
  <2>10. Goes'
    BY <1>5, <2>5, <2>8, <2>9 DEF Goes
  <2>11. Message!Due(q) /\ Message!Right(q, x, mirroring', ToldIn(replies, m + 1))
    BY <1>3, <1>10, <2>3, <2>6, <2>7 DEF Message!Due, Message!Right
  <2> QED
    BY <1>2, <1>3, <1>4, <2>4, <2>7, <2>10, <2>11, OneMore
<1>11. ASSUME ns # "receiver", UNCHANGED <<mirroring, transport>>, NEW x \in Replies,
              x.app = "none",
              replies' = IF Message!Due(q) THEN Append(replies, x) ELSE replies,
              Message!Due(q) => Message!Right(q, x, mirroring', transport)
       PROVE  MessageInv'
  <2>1. mirroring' <=> Runs(requests', n + 1)
    BY <1>3, <1>6, <1>7, <1>11 DEF Turns
  <2>2. transport' = ToldIn(replies', Len(replies') + 1)
    <3>1. ~Tells(x)
      BY <1>11 DEF Tells
    <3>2. CASE Message!Due(q)
      BY <1>7, <1>8, <1>11, <3>1, <3>2
    <3>3. CASE ~Message!Due(q)
      BY <1>7, <1>11, <3>3
    <3> QED
      BY <3>2, <3>3
  <2>3. Goes'
    BY <1>5, <1>7, <1>11, <2>1, <2>2 DEF Goes
  <2>4. Message!Due(q) => Message!Right(q, x, mirroring', ToldIn(replies, m + 1))
    BY <1>7, <1>11
  <2> QED
    BY <1>2, <1>3, <1>4, <1>11, <2>3, <2>4, OneMore
<1>12. CASE ns = "heartbeat"
  <2>1. Message!Heartbeat(source, text) /\ text \in Message!Texted("heartbeat")
    BY <1>1, <1>12
  <2>2. PICK type \in {"PING", "PONG"} :
          /\ Message!JsonGet(text, "type") = type
          /\ \A r : r.text = text => Message!Own(r, "type") = type
    BY <2>1, HeartbeatSays
  <2>3. Message!Due(q) <=> type = "PING"
    BY <1>3, <1>12, <2>2 DEF Message!Due
  <2> DEFINE x == Sent(source, "PONG", "none", "none", "receiver-0")
  <2>4. /\ UNCHANGED <<mirroring, transport>>
        /\ replies' = IF type = "PING" THEN Append(replies, x) ELSE replies
    BY <1>12, <2>1, <2>2 DEF Message!Heartbeat, Message!Sends
  <2>5. /\ x \in Replies /\ x.to = source /\ x.ns = ns /\ x.app = "none"
    BY <1>12 DEF Replies, Spaces, Transports
  <2> HIDE DEF x
  <2>6. Message!Right(q, x, mirroring', transport)
    BY <1>3, <1>12, <2>5 DEF Message!Right
  <2> QED
    BY <1>11, <1>12, <2>3, <2>4, <2>5, <2>6
<1>13. CASE ns = "webrtc"
  <2>1. Message!Webrtc(source, text) /\ text \in Message!Texted("webrtc")
    BY <1>1, <1>13
  <2>2. /\ Message!JsonGet(text, "type") = "OFFER"
        /\ Message!JsonGet(text, "sdp") # "none" <=> <<"sdp", "v0">> \in Message!ToSet(text)
        /\ Message!JsonGetInt(text, "seqNum") = "2"
        /\ \A r : r.text = text => Message!Own(r, "seqNum") = "2"
    BY <2>1, WebrtcSays
  <2>3. Message!Due(q) <=> Message!JsonGet(text, "sdp") # "none"
    BY <1>3, <1>13, <2>2 DEF Message!Due
  <2> DEFINE x == Sent(source, "ANSWER", "2", "none", transport)
  <2>4. /\ UNCHANGED <<mirroring, transport>>
        /\ replies' = IF Message!JsonGet(text, "sdp") # "none" THEN Append(replies, x) ELSE replies
    BY <1>13, <2>1, <2>2 DEF Message!Webrtc, Message!Sends
  <2>5. /\ x \in Replies /\ x.to = source /\ x.ns = ns /\ x.app = "none" /\ x.number = "2"
        /\ x.from = transport
    BY <1>7, <1>13 DEF Replies, Spaces, Transports
  <2> HIDE DEF x
  <2>6. Message!Right(q, x, mirroring', transport)
    BY <1>3, <1>13, <2>2, <2>5 DEF Message!Right
  <2> QED
    BY <1>11, <1>13, <2>3, <2>4, <2>5, <2>6
<1> QED
  BY <1>10, <1>12, <1>13 DEF Spaces

(***************************************************************************)
(* Protocol buffers: what is written is read.                              *)
(***************************************************************************)
Word == {v \in Nat : v <= 4294967295}
Byte == {b \in Nat : b <= 255}

\* What is left of a number, group by group.
Divides(f, v) == f = [k \in 0 .. 4 |-> IF k = 0 THEN v ELSE f[k - 1] \div 128]

LEMMA GroupsAre ==
    ASSUME NEW v \in Nat
    PROVE  /\ Message!Groups(v) \in [0 .. 4 -> Nat] /\ Message!Groups(v)[0] = v
           /\ \A k \in 1 .. 4 : Message!Groups(v)[k] = Message!Groups(v)[k - 1] \div 128
<1> DEFINE step == [p \in (1 .. 4) \X Nat |-> p[2] \div 128]
           g == CHOOSE f : Divides(f, v)
<1>1. step \in [(1 .. 4) \X Nat -> Nat]
  OBVIOUS
<1>2. PICK f \in [0 .. 4 -> Nat] : Stepwise(f, 4, v, step)
  <2> HIDE DEF step
  <2> QED
    BY <1>1, StepsExist
<1>3. \A k \in 1 .. 4 : step[<<k, f[k - 1]>>] = f[k - 1] \div 128
  <2> SUFFICES ASSUME NEW k \in 1 .. 4  PROVE step[<<k, f[k - 1]>>] = f[k - 1] \div 128
    OBVIOUS
  <2>1. <<k, f[k - 1]>> \in (1 .. 4) \X Nat
    OBVIOUS
  <2> QED
    BY <2>1
<1>4. Divides(f, v)
  <2>1. f = [k \in 0 .. 4 |-> IF k = 0 THEN v ELSE step[<<k, f[k - 1]>>]]
    BY <1>2 DEF Stepwise
  <2> HIDE DEF step
  <2>2. \A k \in 0 .. 4 : k # 0 => k \in 1 .. 4
    OBVIOUS
  <2>3. \A k \in 0 .. 4 : f[k] = IF k = 0 THEN v ELSE f[k - 1] \div 128
    BY <1>3, <2>1, <2>2
  <2>4. f = [k \in 0 .. 4 |-> f[k]]
    BY <1>2
  <2> QED
    BY <2>3, <2>4 DEF Divides
<1>5. Divides(g, v)
  BY <1>4
<1>6. Message!Groups(v) = g
  BY DEF Message!Groups, Divides
<1> HIDE DEF g, step
<1>7. \A k \in 0 .. 4 : g[k] = IF k = 0 THEN v ELSE g[k - 1] \div 128
  BY <1>5 DEF Divides
<1>8. g[0] = v /\ \A k \in 1 .. 4 : g[k] = g[k - 1] \div 128
  BY <1>7
<1>9. \A k \in 0 .. 4 : g[k] \in Nat
  <2> DEFINE S == {k \in 0 .. 4 : g[k] \in Nat}
  <2>1. 0 \in S
    BY <1>8
  <2>2. \A k \in 0 .. 4 - 1 : k \in S => k + 1 \in S
    <3> SUFFICES ASSUME NEW k \in 0 .. 4 - 1, g[k] \in Nat  PROVE g[k + 1] \in Nat
      OBVIOUS
    <3>1. g[k + 1] = g[k] \div 128
      BY <1>8
    <3> QED
      BY <3>1
  <2> HIDE DEF S
  <2>3. \A k \in 0 .. 4 : k \in S
    BY <2>1, <2>2, UpToBySteps
  <2> QED
    BY <2>3 DEF S
<1>10. g \in [0 .. 4 -> Nat]
  <2>1. g = [k \in 0 .. 4 |-> g[k]]
    BY <1>5 DEF Divides
  <2> QED
    BY <1>9, <2>1
<1> QED
  BY <1>6, <1>8, <1>10

\* A number as it is written: the last group, and the ones before it.
Written(e, q, c) ==
    /\ c \in 0 .. 4 /\ q[c] \in Nat /\ q[c] <= 127
    /\ e \in [1 .. c + 1 -> Byte]
    /\ \A k \in 1 .. c : e[k] = 128 + (q[k - 1] % 128)
    /\ e[c + 1] = q[c]

LEMMA VarintWritten ==
    ASSUME NEW v \in Word
    PROVE  \E c \in 0 .. 4 : Written(Message!EncVarint(v), Message!Groups(v), c)
<1> DEFINE q == Message!Groups(v)
           S == {k \in 0 .. 4 : q[k] <= 127}
           last == CHOOSE k \in 0 .. 4 : q[k] <= 127 /\ \A j \in 0 .. k - 1 : q[j] > 127
<1>1. /\ q \in [0 .. 4 -> Nat] /\ q[0] = v
      /\ \A k \in 1 .. 4 : q[k] = q[k - 1] \div 128
  BY GroupsAre DEF Word
<1>2. Message!EncVarint(v)
        = [k \in 1 .. last + 1 |-> IF k <= last THEN 128 + (q[k - 1] % 128) ELSE q[last]]
  BY DEF Message!EncVarint
<1> HIDE DEF q
<1>3. q[4] <= 127
  <2>1. q[1] <= 33554431 /\ q[1] \in Nat
    BY <1>1 DEF Word
  <2>2. q[2] <= 262143 /\ q[2] \in Nat
    BY <1>1, <2>1
  <2>3. q[3] <= 2047 /\ q[3] \in Nat
    BY <1>1, <2>2
  <2> QED
    BY <1>1, <2>3
<1>4. PICK c \in S : \A k \in S : c <= k
  <2>1. 4 \in S /\ S \subseteq Nat
    BY <1>3
  <2> HIDE DEF S
  <2> QED
    BY <2>1, LeastOfNats
<1>5. /\ c \in 0 .. 4 /\ q[c] <= 127 /\ \A j \in 0 .. c - 1 : q[j] > 127
  <2>1. \A j \in 0 .. c - 1 : j \in 0 .. 4 /\ ~(c <= j) /\ q[j] \in Nat
    BY <1>1
  <2> QED
    BY <1>4, <2>1
<1>6. \A k \in 0 .. 4 : (q[k] <= 127 /\ \A j \in 0 .. k - 1 : q[j] > 127) => k = c
  <2> SUFFICES ASSUME NEW k \in 0 .. 4, q[k] <= 127, \A j \in 0 .. k - 1 : q[j] > 127
               PROVE  k = c
    OBVIOUS
  <2>1. c <= k
    BY <1>4
  <2>2. ~(c \in 0 .. k - 1)
    BY <1>1, <1>5
  <2> QED
    BY <1>5, <2>1, <2>2
<1>7. last = c
  BY <1>5, <1>6
<1> HIDE DEF last, S
<1>8. q[c] \in Nat /\ q[c] <= 127
  BY <1>1, <1>5
<1>9. \A k \in 1 .. c : 128 + (q[k - 1] % 128) \in Byte
  <2> SUFFICES ASSUME NEW k \in 1 .. c  PROVE 128 + (q[k - 1] % 128) \in Byte
    OBVIOUS
  <2>1. q[k - 1] \in Nat
    BY <1>1, <1>5
  <2> QED
    BY <2>1 DEF Byte
<1>10. Written(Message!EncVarint(v), q, c)
  BY <1>2, <1>5, <1>7, <1>8, <1>9 DEF Written, Byte
<1> QED
  BY <1>5, <1>10 DEF q

LEMMA VarintBytes ==
    ASSUME NEW v \in Word
    PROVE  /\ Message!EncVarint(v) \in Seq(Byte)
           /\ Len(Message!EncVarint(v)) \in 1 .. 5
<1>1. PICK c \in 0 .. 4 : Written(Message!EncVarint(v), Message!Groups(v), c)
  BY VarintWritten
<1>2. Message!EncVarint(v) \in [1 .. c + 1 -> Byte] /\ c + 1 \in 1 .. 5
  BY <1>1 DEF Written
<1> HIDE DEF Word
<1> QED
  BY <1>2

LEMMA VarintSeq ==
    ASSUME NEW v \in Word
    PROVE  Message!EncVarint(v) \in Seq(Byte) /\ Len(Message!EncVarint(v)) >= 1
<1> DEFINE t == Message!EncVarint(v)
<1>1. t \in Seq(Byte) /\ Len(t) \in 1 .. 5
  BY VarintBytes, Zenon
<1> HIDE DEF t
<1>2. Len(t) >= 1
  BY <1>1
<1> QED
  BY <1>1, <1>2, Zenon DEF t

-----------------------------------------------------------------------------
\* Some bytes are at a place.
Has(data, pos, e) ==
    /\ pos + Len(e) - 1 <= Len(data)
    /\ \A k \in 1 .. Len(e) : data[pos + k - 1] = e[k]

\* What is read of the last bytes of a number.
Gathers(f, data, last, n) ==
    f = [k \in 0 .. n |-> IF k = 0 THEN 0 ELSE (data[last + 1 - k] % 128) + 128 * f[k - 1]]

LEMMA GatheredIs ==
    ASSUME NEW data \in Seq(Nat), NEW last \in Nat, last <= Len(data), NEW n \in 0 .. last
    PROVE  Gathers(CHOOSE f : Gathers(f, data, last, n), data, last, n)
<1> DEFINE step == [p \in (1 .. n) \X Nat |-> (data[last + 1 - p[1]] % 128) + 128 * p[2]]
<1>1. \A k \in 1 .. n : data[last + 1 - k] \in Nat
  OBVIOUS
<1>2. \A k \in 1 .. n : (data[last + 1 - k] % 128) \in Nat
  BY <1>1
<1>3. step \in [(1 .. n) \X Nat -> Nat]
  <2> SUFFICES ASSUME NEW p \in (1 .. n) \X Nat
               PROVE  (data[last + 1 - p[1]] % 128) + 128 * p[2] \in Nat
    OBVIOUS
  <2>1. p[1] \in 1 .. n /\ p[2] \in Nat
    OBVIOUS
  <2>2. (data[last + 1 - p[1]] % 128) \in Nat
    BY <1>2, <2>1, Zenon
  <2> DEFINE d == data[last + 1 - p[1]] % 128
             m == p[2]
  <2>3. d \in Nat /\ m \in Nat
    BY <2>1, <2>2, Zenon
  <2> HIDE DEF d, m
  <2>4. d + 128 * m \in Nat
    BY <2>3
  <2> QED
    BY <2>4 DEF d, m
<1>4. PICK f \in [0 .. n -> Nat] : Stepwise(f, n, 0, step)
  <2> HIDE DEF step
  <2>1. n \in Nat /\ 0 \in Nat
    OBVIOUS
  <2> QED
    BY <1>3, <2>1, StepsExist
<1>5. \A k \in 1 .. n : step[<<k, f[k - 1]>>] = (data[last + 1 - k] % 128) + 128 * f[k - 1]
  <2> SUFFICES ASSUME NEW k \in 1 .. n
               PROVE  step[<<k, f[k - 1]>>] = (data[last + 1 - k] % 128) + 128 * f[k - 1]
    OBVIOUS
  <2>1. <<k, f[k - 1]>> \in (1 .. n) \X Nat
    OBVIOUS
  <2> QED
    BY <2>1
<1>6. Gathers(f, data, last, n)
  <2>1. f = [k \in 0 .. n |-> IF k = 0 THEN 0 ELSE step[<<k, f[k - 1]>>]]
    BY <1>4 DEF Stepwise
  <2> HIDE DEF step
  <2>2. \A k \in 0 .. n : k # 0 => k \in 1 .. n
    OBVIOUS
  <2>3. \A k \in 0 .. n : f[k] = IF k = 0 THEN 0
                                ELSE (data[last + 1 - k] % 128) + 128 * f[k - 1]
    BY <1>5, <2>1, <2>2
  <2>4. f = [k \in 0 .. n |-> f[k]]
    BY <1>4
  <2> QED
    BY <2>3, <2>4 DEF Gathers
<1> QED
  BY <1>6

LEMMA SeqOfLen ==
    ASSUME NEW n \in Nat, NEW S, NEW e \in [1 .. n -> S]
    PROVE  e \in Seq(S) /\ Len(e) = n
  OBVIOUS

LEMMA SameSeq ==
    ASSUME NEW S, NEW T, NEW s \in Seq(S), NEW t \in Seq(T), Len(s) = Len(t),
           \A k \in 1 .. Len(t) : s[k] = t[k]
    PROVE  s = t
  OBVIOUS

\* A reader takes at least five bytes, or as many as there are.
Enough(most, data) == most \in Nat /\ (most >= 5 \/ most >= Len(data))

LEMMA VarintRead ==
    ASSUME NEW v \in Word, NEW data \in Seq(Nat), NEW pos \in Nat, pos >= 1,
           Has(data, pos, Message!EncVarint(v)), NEW most, Enough(most, data)
    PROVE  Message!DecVarint(data, pos, most) = <<v, pos + Len(Message!EncVarint(v))>>
<1> DEFINE e == Message!EncVarint(v)
           q == Message!Groups(v)
           Ends(i) == /\ i <= Len(data)
                      /\ data[i] < 128 \/ i = Len(data) \/ i = pos + most - 1
                      /\ \A j \in pos .. i - 1 : data[j] >= 128
           last == CHOOSE i \in pos .. pos + most - 1 : Ends(i)
<1>1. PICK c \in 0 .. 4 : Written(e, q, c)
  BY VarintWritten
<1>2. /\ q \in [0 .. 4 -> Nat] /\ q[0] = v
      /\ \A k \in 1 .. 4 : q[k] = q[k - 1] \div 128
  BY GroupsAre DEF Word
<1>3. e \in Seq(Byte) /\ Len(e) = c + 1 /\ Len(e) \in 1 .. 5
  <2>1. e \in [1 .. c + 1 -> Byte]
    BY <1>1 DEF Written
  <2>2. c + 1 \in Nat /\ c + 1 \in 1 .. 5
    OBVIOUS
  <2> HIDE DEF e
  <2>3. e \in Seq(Byte) /\ Len(e) = c + 1
    BY <2>1, <2>2, SeqOfLen
  <2> QED
    BY <2>2, <2>3
<1>4. /\ pos + c <= Len(data) /\ c <= most - 1 /\ most \in Nat
      /\ \A k \in 1 .. c + 1 : data[pos + k - 1] = e[k]
  <2>1. Has(data, pos, e) /\ Len(data) \in Nat
    OBVIOUS
  <2> HIDE DEF e
  <2>2. /\ pos + (c + 1) - 1 <= Len(data)
        /\ \A k \in 1 .. c + 1 : data[pos + k - 1] = e[k]
    BY <1>3, <2>1 DEF Has
  <2>3. most \in Nat /\ (most >= 5 \/ most >= Len(data))
    BY DEF Enough
  <2> QED
    BY <2>1, <2>2, <2>3
<1>5. /\ \A k \in 1 .. c : data[pos + k - 1] = 128 + (q[k - 1] % 128) /\ q[k - 1] \in Nat
      /\ data[pos + c] = q[c] /\ q[c] <= 127 /\ q[c] \in Nat
  <2> HIDE DEF e, q
  <2>1. \A k \in 1 .. c : q[k - 1] \in Nat
    <3>1. \A k \in 1 .. c : k - 1 \in 0 .. 4
      OBVIOUS
    <3> QED
      BY <1>2, <3>1
  <2>2. \A k \in 1 .. c : data[pos + k - 1] = e[k] /\ e[k] = 128 + (q[k - 1] % 128)
    <3>1. \A k \in 1 .. c : k \in 1 .. c + 1
      OBVIOUS
    <3> QED
      BY <1>1, <1>4, <3>1 DEF Written
  <2>3. data[pos + (c + 1) - 1] = e[c + 1] /\ e[c + 1] = q[c] /\ q[c] <= 127 /\ q[c] \in Nat
    BY <1>1, <1>4 DEF Written
  <2>4. pos + (c + 1) - 1 = pos + c
    OBVIOUS
  <2> QED
    BY <2>1, <2>2, <2>3, <2>4
<1> HIDE DEF e, q
<1>6. \A j \in pos .. pos + c - 1 : data[j] >= 128
  <2> SUFFICES ASSUME NEW j \in pos .. pos + c - 1  PROVE data[j] >= 128
    OBVIOUS
  <2> DEFINE k == j - pos + 1
  <2>1. k \in 1 .. c /\ pos + k - 1 = j
    OBVIOUS
  <2> HIDE DEF k
  <2>2. data[j] = 128 + (q[k - 1] % 128) /\ q[k - 1] \in Nat
    BY <1>5, <2>1
  <2> QED
    BY <2>2
<1>7. last = pos + c
  <2>1. pos + c \in pos .. pos + most - 1 /\ Ends(pos + c)
    <3>1. pos + c \in pos .. pos + most - 1 /\ pos + c <= Len(data)
      BY <1>4
    <3>2. data[pos + c] < 128
      BY <1>5
    <3> QED
      BY <1>6, <3>1, <3>2
  <2>2. ASSUME NEW i \in pos .. pos + most - 1, Ends(i)  PROVE i = pos + c
    <3>1. CASE i < pos + c
      <4>1. data[i] >= 128 /\ data[i] \in Nat
        BY <1>4, <1>6, <3>1
      <4>2. i < Len(data) /\ i < pos + most - 1
        BY <1>4, <3>1
      <4> QED
        BY <2>2, <4>1, <4>2
    <3>2. CASE i > pos + c
      <4>1. pos + c \in pos .. i - 1
        BY <3>2
      <4>2. data[pos + c] >= 128
        BY <2>2, <4>1
      <4> QED
        BY <1>5, <4>2
    <3> QED
      BY <3>1, <3>2
  <2> HIDE DEF Ends
  <2> QED
    BY <2>1, <2>2
<1> DEFINE n == last + 1 - pos
           f == CHOOSE g : Gathers(g, data, last, n)
<1>8. Message!DecVarint(data, pos, most)
        = IF pos > Len(data) THEN <<0, pos>> ELSE <<f[n], last + 1>>
  BY DEF Message!DecVarint, Gathers
<1> HIDE DEF last
<1>9. n = c + 1 /\ last \in Nat /\ last <= Len(data) /\ n \in 0 .. last /\ pos <= Len(data)
  BY <1>4, <1>7
<1> HIDE DEF n
<1>10. Gathers(f, data, last, n)
  BY <1>9, GatheredIs
<1> HIDE DEF f
<1>11. \A k \in 0 .. n : f[k] = IF k = 0 THEN 0 ELSE (data[last + 1 - k] % 128) + 128 * f[k - 1]
  BY <1>10 DEF Gathers
<1>12. f[c + 1] = q[0]
  <2> DEFINE S == {k \in 0 .. c : f[k + 1] = q[c - k]}
  <2>1. 0 \in S
    <3>1. f[1] = (data[last] % 128) + 128 * f[0] /\ f[0] = 0
      <4>1. 0 \in 0 .. n /\ 1 \in 0 .. n /\ 1 # 0 /\ last + 1 - 1 = last /\ 1 - 1 = 0
        BY <1>9
      <4> HIDE DEF S
      <4> QED
        BY <1>11, <4>1
    <3>2. f[1] = q[c] % 128
      BY <1>5, <1>7, <3>1
    <3>3. f[1] = q[c]
      <4> DEFINE y == q[c]
      <4>1. y \in Nat /\ y <= 127 /\ f[1] = y % 128
        BY <1>5, <3>2
      <4> HIDE DEF y
      <4>2. f[1] = y
        BY <4>1
      <4> QED
        BY <4>2 DEF y
    <3>4. 0 + 1 = 1 /\ c - 0 = c /\ 0 \in 0 .. c
      OBVIOUS
    <3> QED
      BY <3>3, <3>4
  <2>2. ASSUME NEW k \in 0 .. c - 1, k \in S  PROVE k + 1 \in S
    <3> DEFINE j == c - k
    <3>1. j \in 1 .. c /\ j \in 1 .. 4 /\ c - (k + 1) = j - 1 /\ k + 1 + 1 \in 0 .. n
          /\ k + 1 + 1 # 0 /\ k + 1 + 1 - 1 = k + 1 /\ last + 1 - (k + 1 + 1) = pos + j - 1
      BY <1>7, <1>9
    <3>2. f[k + 1] = q[j]
      BY <2>2
    <3> HIDE DEF j
    <3>3. f[k + 1 + 1] = (data[pos + j - 1] % 128) + 128 * f[k + 1]
      BY <1>11, <3>1
    <3>4. data[pos + j - 1] = 128 + (q[j - 1] % 128) /\ q[j - 1] \in Nat
          /\ q[j] = q[j - 1] \div 128
      BY <1>2, <1>5, <3>1
    <3>5. f[k + 1 + 1] = q[j - 1]
      <4> DEFINE x == q[j - 1]
      <4>1. f[k + 1 + 1] = ((128 + (x % 128)) % 128) + 128 * (x \div 128) /\ x \in Nat
        BY <3>2, <3>3, <3>4
      <4> HIDE DEF x
      <4>2. ((128 + (x % 128)) % 128) + 128 * (x \div 128) = x
        BY <4>1
      <4> QED
        BY <4>1, <4>2 DEF x
    <3>6. f[k + 1 + 1] = q[c - (k + 1)] /\ k + 1 \in 0 .. c
      <4>1. k + 1 \in 0 .. c
        OBVIOUS
      <4> QED
        BY <3>1, <3>5, <4>1, Zenon
    <3> QED
      BY <3>6
  <2> HIDE DEF S
  <2>3. \A k \in 0 .. c : k \in S
    <3>1. c \in Nat /\ \A k \in 0 .. c - 1 : k \in S => k + 1 \in S
      BY <2>2
    <3> QED
      BY <2>1, <3>1, UpToBySteps, Zenon
  <2>4. c \in S
    BY <2>3
  <2> QED
    BY <2>4 DEF S
<1> QED
  <2>1. f[n] = v /\ last + 1 = pos + Len(e) /\ ~(pos > Len(data))
    BY <1>2, <1>3, <1>7, <1>9, <1>12
  <2> QED
    BY <1>8, <2>1 DEF e

-----------------------------------------------------------------------------
(* Fields. *)

Places == {n \in Nat : n <= 536870911}
Field == [field : Places, type : {0}, value : Word]
         \cup [field : Places, type : {2}, value : {s \in Seq(Byte) : Len(s) \in Word}]

LEMMA FieldKinds ==
    ASSUME NEW x \in Field
    PROVE  /\ x.field \in Nat /\ x.field * 8 + x.type \in Word
           /\ \/ x.type = 0 /\ x.value \in Word /\ x = Message!Num(x.field, x.value)
              \/ /\ x.type = 2 /\ x.value \in Seq(Byte) /\ Len(x.value) \in Word
                 /\ x = Message!Bytes(x.field, x.value)
<1>1. CASE x \in [field : Places, type : {0}, value : Word]
  <2>1. x.field \in Places /\ x.type = 0 /\ x.value \in Word
    BY <1>1
  <2>2. x = Message!Num(x.field, x.value)
    BY <1>1 DEF Message!Num
  <2>3. x.field \in Nat /\ x.field * 8 + 0 \in Word
    BY <2>1 DEF Places, Word
  <2> QED
    BY <2>1, <2>2, <2>3
<1>2. CASE x \in [field : Places, type : {2}, value : {s \in Seq(Byte) : Len(s) \in Word}]
  <2>1. x.field \in Places /\ x.type = 2 /\ x.value \in Seq(Byte) /\ Len(x.value) \in Word
    BY <1>2
  <2>2. x = Message!Bytes(x.field, x.value)
    BY <1>2 DEF Message!Bytes
  <2>3. x.field \in Nat /\ x.field * 8 + 2 \in Word
    BY <2>1 DEF Places, Word
  <2> QED
    BY <2>1, <2>2, <2>3
<1> QED
  BY <1>1, <1>2 DEF Field

LEMMA FieldBytes ==
    ASSUME NEW x \in Field
    PROVE  Message!EncField(x) \in Seq(Byte) /\ Len(Message!EncField(x)) >= 2
<1> DEFINE v == x.field * 8 + x.type
           t == Message!EncVarint(v)
<1>1. t \in Seq(Byte) /\ Len(t) >= 1
  <2>1. v \in Word
    BY FieldKinds
  <2> QED
    BY <2>1, VarintSeq, Zenon
<1>2. CASE x.type = 0
  <2> DEFINE b == Message!EncVarint(x.value)
  <2>1. b \in Seq(Byte) /\ Len(b) >= 1
    <3> DEFINE w == x.value
    <3>1. w \in Word
      BY <1>2, FieldKinds
    <3> HIDE DEF w
    <3>2. Message!EncVarint(w) \in Seq(Byte) /\ Len(Message!EncVarint(w)) >= 1
      BY <3>1, VarintSeq, Zenon
    <3> QED
      BY <3>2 DEF w
  <2>2. Message!EncField(x) = t \o b
    BY <1>2 DEF Message!EncField
  <2> HIDE DEF t, b
  <2> QED
    BY <1>1, <2>1, <2>2
<1>3. CASE x.type = 2
  <2> DEFINE l == Message!EncVarint(Len(x.value))
             b == x.value
  <2>1. l \in Seq(Byte) /\ Len(l) >= 1 /\ b \in Seq(Byte)
    <3> DEFINE w == Len(b)
    <3>0. b \in Seq(Byte) /\ Len(b) \in Word
      BY <1>3, FieldKinds
    <3> HIDE DEF b
    <3>1. w \in Word
      BY <3>0
    <3> HIDE DEF w
    <3>2. Message!EncVarint(w) \in Seq(Byte) /\ Len(Message!EncVarint(w)) >= 1
      BY <3>1, VarintSeq, Zenon
    <3>3. l = Message!EncVarint(w)
      BY DEF w, b
    <3> HIDE DEF l
    <3> QED
      BY <3>0, <3>2, <3>3
  <2>2. Message!EncField(x) = t \o (l \o b)
    BY <1>3 DEF Message!EncField
  <2> HIDE DEF t, l, b
  <2> QED
    BY <1>1, <2>1, <2>2
<1> QED
  BY <1>2, <1>3, FieldKinds

\* Of what is one behind the other, each is at its place.
LEMMA HasParts ==
    ASSUME NEW B, NEW data, NEW pos \in Nat, NEW d \in Seq(B), NEW e \in Seq(B),
           Len(data) \in Nat, Has(data, pos, d \o e)
    PROVE  Has(data, pos, d) /\ Has(data, pos + Len(d), e)
<1> DEFINE s == d \o e
           m == Len(d)
           n == Len(e)
<1>1. /\ m \in Nat /\ n \in Nat /\ Len(s) = m + n
      /\ \A k \in 1 .. m : s[k] = d[k]
      /\ \A k \in 1 .. n : s[m + k] = e[k]
  OBVIOUS
<1>2. Has(data, pos, s)
  OBVIOUS
<1> HIDE DEF s, m, n
<1>3. pos + (m + n) - 1 <= Len(data) /\ \A k \in 1 .. m + n : data[pos + k - 1] = s[k]
  BY <1>1, <1>2 DEF Has
<1>4. pos + m - 1 <= Len(data) /\ pos + m + n - 1 <= Len(data)
  BY <1>1, <1>3
<1>5. \A k \in 1 .. m : data[pos + k - 1] = d[k]
  <2>1. \A k \in 1 .. m : k \in 1 .. m + n
    BY <1>1
  <2> QED
    BY <1>1, <1>3, <2>1
<1>6. \A k \in 1 .. n : data[pos + m + k - 1] = e[k]
  <2> SUFFICES ASSUME NEW k \in 1 .. n  PROVE data[pos + m + k - 1] = e[k]
    OBVIOUS
  <2>1. m + k \in 1 .. m + n /\ pos + (m + k) - 1 = pos + m + k - 1
    BY <1>1
  <2> QED
    BY <1>1, <1>3, <2>1
<1> QED
  BY <1>4, <1>5, <1>6 DEF Has, m, n

LEMMA FieldRead ==
    ASSUME NEW x \in Field, NEW data \in Seq(Nat), NEW pos \in Nat, pos >= 1,
           Has(data, pos, Message!EncField(x)), NEW most, Enough(most, data)
    PROVE  Message!FieldAt(data, pos, most) = <<x, pos + Len(Message!EncField(x))>>
<1> DEFINE v == x.field * 8 + x.type
           t == Message!EncVarint(v)
           p1 == pos + Len(t)
<1>1. v \in Word /\ t \in Seq(Byte) /\ Len(t) \in Nat /\ p1 \in Nat /\ p1 >= 1
  <2>1. v \in Word
    BY FieldKinds
  <2> HIDE DEF v
  <2>2. t \in Seq(Byte) /\ Len(t) \in Nat
    BY <2>1, VarintBytes
  <2> QED
    BY <2>1, <2>2
<1>2. v % 8 = x.type /\ v \div 8 = x.field
  <2> DEFINE m == x.field
             n == x.type
  <2>1. m \in Nat /\ n \in {0, 2} /\ v = m * 8 + n
    BY FieldKinds
  <2> HIDE DEF m, n, v
  <2>2. CASE n = 0
    <3>1. (m * 8 + 0) % 8 = 0 /\ (m * 8 + 0) \div 8 = m
      BY <2>1
    <3> QED
      BY <2>1, <2>2, <3>1 DEF m, n
  <2>3. CASE n = 2
    <3>1. (m * 8 + 2) % 8 = 2 /\ (m * 8 + 2) \div 8 = m
      BY <2>1
    <3> QED
      BY <2>1, <2>3, <3>1 DEF m, n
  <2> QED
    BY <2>1, <2>2, <2>3
<1>3. CASE x.type = 0
  <2> DEFINE b == Message!EncVarint(x.value)
  <2>1. x.value \in Word /\ x = Message!Num(x.field, x.value) /\ b \in Seq(Byte)
    <3> DEFINE w == x.value
    <3>1. w \in Word /\ x = Message!Num(x.field, w)
      BY <1>3, FieldKinds
    <3> HIDE DEF w
    <3>2. Message!EncVarint(w) \in Seq(Byte)
      BY <3>1, VarintBytes
    <3> QED
      BY <3>1, <3>2 DEF w
  <2>2. Message!EncField(x) = t \o b
    BY <1>3 DEF Message!EncField
  <2>3. Has(data, pos, t) /\ Has(data, p1, b) /\ Len(t \o b) = Len(t) + Len(b)
        /\ Len(b) \in Nat
    <3> HIDE DEF t, b
    <3>1. Len(data) \in Nat /\ Has(data, pos, t \o b)
      BY <2>2
    <3>2. Has(data, pos, t) /\ Has(data, pos + Len(t), b)
      BY <1>1, <2>1, <3>1, HasParts
    <3> QED
      BY <1>1, <2>1, <3>2
  <2>4. Message!DecVarint(data, pos, most) = <<v, p1>>
    <3> HIDE DEF v
    <3> QED
      BY <1>1, <2>3, VarintRead
  <2>5. Message!DecVarint(data, p1, most) = <<x.value, p1 + Len(b)>>
    <3> HIDE DEF p1
    <3> QED
      BY <1>1, <2>1, <2>3, VarintRead
  <2> DEFINE tag == Message!DecVarint(data, pos, most)
             body == Message!DecVarint(data, tag[2], most)
  <2>6. tag[1] = v /\ tag[2] = p1
    BY <2>4
  <2>7. body[1] = x.value /\ body[2] = p1 + Len(b)
    BY <2>5, <2>6
  <2>8. tag[1] % 8 = 0 /\ tag[1] \div 8 = x.field
    BY <1>2, <1>3, <2>6
  <2>9. Message!FieldAt(data, pos, most) = <<Message!Num(tag[1] \div 8, body[1]), body[2]>>
    <3>1. tag[1] % 8 = 0 /\ ~(tag[1] % 8 = 2)
      BY <2>8
    <3> DEFINE r == tag[1] % 8
    <3>2. r = 0 /\ r # 2
      BY <3>1
    <3> HIDE DEF tag, body, r
    <3> QED
      BY <3>2, Zenon DEF Message!FieldAt, tag, body, r
  <2>10. p1 + Len(b) = pos + Len(Message!EncField(x))
    BY <1>1, <2>2, <2>3
  <2> HIDE DEF tag, body, v, b, t, p1
  <2> QED
    BY <2>1, <2>7, <2>8, <2>9, <2>10
<1>4. CASE x.type = 2
  <2> DEFINE b == x.value
             l == Message!EncVarint(Len(b))
             p2 == p1 + Len(l)
  <2>1. /\ b \in Seq(Byte) /\ Len(b) \in Word /\ x = Message!Bytes(x.field, b)
        /\ l \in Seq(Byte) /\ Len(l) \in Nat /\ Len(b) \in Nat
    <3>1. b \in Seq(Byte) /\ Len(b) \in Word /\ x = Message!Bytes(x.field, b)
      BY <1>4, FieldKinds
    <3>2. l \in Seq(Byte) /\ Len(l) \in Nat
      <4> HIDE DEF b
      <4> QED
        BY <3>1, VarintBytes
    <3> QED
      BY <3>1, <3>2
  <2>2. Message!EncField(x) = t \o (l \o b)
    BY <1>4 DEF Message!EncField
  <2>3. /\ Has(data, pos, t) /\ Has(data, p1, l) /\ Has(data, p2, b)
        /\ Len(t \o (l \o b)) = Len(t) + Len(l) + Len(b) /\ p2 \in Nat /\ p2 >= 1
    <3>1. Len(data) \in Nat /\ Has(data, pos, t \o (l \o b))
      BY <2>2
    <3> HIDE DEF t, b, l
    <3>2. l \o b \in Seq(Byte) /\ Len(l \o b) = Len(l) + Len(b)
      BY <2>1
    <3>3. Has(data, pos, t) /\ Has(data, pos + Len(t), l \o b)
      BY <1>1, <3>1, <3>2, HasParts
    <3>4. Has(data, p1, l) /\ Has(data, p1 + Len(l), b)
      <4>1. Has(data, p1, l \o b)
        BY <3>3
      <4> HIDE DEF p1
      <4> QED
        BY <1>1, <2>1, <3>1, <4>1, HasParts
    <3> QED
      BY <1>1, <2>1, <3>2, <3>3, <3>4
  <2>4. Message!DecVarint(data, pos, most) = <<v, p1>>
    <3> HIDE DEF v
    <3> QED
      BY <1>1, <2>3, VarintRead
  <2>5. Message!DecVarint(data, p1, most) = <<Len(b), p2>>
    <3> HIDE DEF p1, b
    <3> QED
      BY <1>1, <2>1, <2>3, VarintRead
  <2> DEFINE tag == Message!DecVarint(data, pos, most)
             body == Message!DecVarint(data, tag[2], most)
             end == body[2] + body[1]
  <2>6. tag[1] = v /\ tag[2] = p1
    BY <2>4
  <2>7. body[1] = Len(b) /\ body[2] = p2
    BY <2>5, <2>6
  <2>8. tag[1] % 8 = 2 /\ tag[1] \div 8 = x.field
    BY <1>2, <1>4, <2>6
  <2>9. p2 + Len(b) - 1 <= Len(data) /\ \A k \in 1 .. Len(b) : data[p2 + k - 1] = b[k]
    BY <2>3 DEF Has
  <2>10. SubSeq(data, p2, p2 + Len(b) - 1) = b
    <3> HIDE DEF p2, b
    <3>1. \A k \in p2 .. p2 + Len(b) - 1 : k \in 1 .. Len(data)
      BY <2>1, <2>3, <2>9
    <3> DEFINE s == SubSeq(data, p2, p2 + Len(b) - 1)
    <3>2. s \in Seq(Nat) /\ Len(s) = Len(b) /\ \A k \in 1 .. Len(b) : s[k] = data[p2 + k - 1]
      BY <2>1, <2>3, <2>9, <3>1
    <3> HIDE DEF s
    <3>3. s = b
      BY <2>1, <2>9, <3>2, SameSeq
    <3> QED
      BY <3>3 DEF s
  <2>11. /\ end = p2 + Len(b) /\ end - 1 <= Len(data)
    <3>1. p2 + Len(b) - 1 <= Len(data) /\ p2 \in Nat /\ Len(b) \in Nat
      BY <2>1, <2>3, <2>9
    <3> HIDE DEF body, b, p2
    <3> QED
      BY <2>7, <3>1
  <2>12. Message!FieldAt(data, pos, most)
           = <<Message!Bytes(tag[1] \div 8, SubSeq(data, body[2], end - 1)), end>>
    <3> DEFINE r == tag[1] % 8
    <3>0. r = 2
      BY <2>8
    <3> HIDE DEF tag, body, end, r, p1, p2, b, l, v, t
    <3>1. r = 2 /\ r # 0 /\ end - 1 <= Len(data)
      BY <3>0, <2>11
    <3> QED
      BY <3>1, Zenon DEF Message!FieldAt, tag, body, end, r
  <2>13. end = pos + Len(Message!EncField(x))
    <3> HIDE DEF end, t, l, b
    <3> QED
      BY <1>1, <2>1, <2>2, <2>3, <2>11
  <2> HIDE DEF tag, body, end, v, b, t, p1, p2, l
  <2>14. SubSeq(data, body[2], end - 1) = b
    <3>1. body[2] = p2
      BY <2>7
    <3>2. end = p2 + Len(b)
      BY <2>11
    <3>3. end - 1 = p2 + Len(b) - 1
      <4>1. p2 \in Nat /\ Len(b) \in Nat
        BY <2>1, <2>3
      <4> QED
        BY <3>2, <4>1
    <3> QED
      BY <2>10, <3>1, <3>3
  <2> QED
    BY <2>1, <2>8, <2>12, <2>13, <2>14
<1> QED
  BY <1>3, <1>4, FieldKinds

-----------------------------------------------------------------------------
(* Lists of fields. *)

\* One behind the other, up to each of them.
Joins(f, s) == f = [i \in 1 .. Len(s) |-> IF i = 1 THEN s[i] ELSE f[i - 1] \o s[i]]

LEMMA JoinedIs ==
    ASSUME NEW B, NEW s \in Seq(Seq(B)), Len(s) >= 1
    PROVE  \E f \in [1 .. Len(s) -> Seq(B)] : Joins(f, s) /\ Message!FlattenSeq(s) = f[Len(s)]
<1> DEFINE n == Len(s)
           V == Seq(B)
           step == [p \in (1 .. n) \X V |-> IF p[1] = 1 THEN s[p[1]] ELSE p[2] \o s[p[1]]]
           g == CHOOSE f : Joins(f, s)
<1>1. n \in Nat /\ n >= 1 /\ <<>> \in V /\ \A k \in 1 .. n : s[k] \in V
  OBVIOUS
<1>2. \A x \in V, y \in V : x \o y \in V
  OBVIOUS
<1> HIDE DEF n, V
<1>3. step \in [(1 .. n) \X V -> V]
  BY <1>1, <1>2
<1>4. PICK h \in [0 .. n -> V] : Stepwise(h, n, <<>>, step)
  <2> HIDE DEF step
  <2> QED
    BY <1>1, <1>3, StepsExist
<1> DEFINE f0 == [i \in 1 .. n |-> h[i]]
<1>5. \A k \in 1 .. n : h[k] = IF k = 1 THEN s[k] ELSE h[k - 1] \o s[k]
  <2> SUFFICES ASSUME NEW k \in 1 .. n  PROVE h[k] = IF k = 1 THEN s[k] ELSE h[k - 1] \o s[k]
    OBVIOUS
  <2>1. h[k] = step[<<k, h[k - 1]>>]
    <3> HIDE DEF step
    <3>1. k \in 0 .. n /\ k # 0
      BY <1>1
    <3> QED
      BY <1>4, <3>1 DEF Stepwise
  <2>2. <<k, h[k - 1]>> \in (1 .. n) \X V
    BY <1>1
  <2> QED
    BY <2>1, <2>2
<1>6. Joins(f0, s)
  <2>1. \A k \in 1 .. n : f0[k] = IF k = 1 THEN s[k] ELSE f0[k - 1] \o s[k]
    <3> SUFFICES ASSUME NEW k \in 1 .. n
                 PROVE  f0[k] = IF k = 1 THEN s[k] ELSE f0[k - 1] \o s[k]
      OBVIOUS
    <3>1. k # 1 => k - 1 \in 1 .. n
      BY <1>1
    <3>2. f0[k] = h[k] /\ (k # 1 => f0[k - 1] = h[k - 1])
      BY <3>1
    <3> QED
      BY <1>5, <3>2
  <2>2. f0 = [k \in 1 .. n |-> f0[k]]
    OBVIOUS
  <2> HIDE DEF f0
  <2> QED
    BY <2>1, <2>2 DEF Joins, n
<1>7. Joins(g, s)
  <2> HIDE DEF f0
  <2> QED
    BY <1>6
<1>8. Message!FlattenSeq(s) = g[n]
  BY <1>1 DEF Message!FlattenSeq, Joins, n
<1> HIDE DEF g, f0, step
<1>9. \A k \in 1 .. n : g[k] = IF k = 1 THEN s[k] ELSE g[k - 1] \o s[k]
  BY <1>7 DEF Joins, n
<1>10. \A k \in 1 .. n : g[k] \in V
  <2> DEFINE T == {k \in 0 .. n - 1 : g[k + 1] \in V}
  <2>1. 0 \in T
    BY <1>1, <1>9
  <2>2. ASSUME NEW k \in 0 .. (n - 1) - 1, k \in T  PROVE k + 1 \in T
    <3> DEFINE j == k + 1 + 1
    <3>1. j \in 1 .. n /\ j # 1 /\ j - 1 = k + 1 /\ k + 1 \in 0 .. n - 1 /\ j = k + 1 + 1
      BY <1>1
    <3> HIDE DEF j
    <3>2. g[j] = g[j - 1] \o s[j] /\ s[j] \in V
      BY <1>1, <1>9, <3>1
    <3>3. g[k + 1] \in V
      BY <2>2
    <3>4. g[j] \in V
      BY <1>2, <3>1, <3>2, <3>3
    <3> QED
      BY <3>1, <3>4
  <2>3. n - 1 \in Nat
    BY <1>1
  <2> HIDE DEF T
  <2>4. \A k \in 0 .. n - 1 : k \in T
    BY <2>1, <2>2, <2>3, UpToBySteps
  <2> SUFFICES ASSUME NEW k \in 1 .. n  PROVE g[k] \in V
    OBVIOUS
  <2>5. k - 1 \in 0 .. n - 1 /\ k - 1 + 1 = k
    BY <1>1
  <2> QED
    BY <2>4, <2>5 DEF T
<1>11. g \in [1 .. n -> V]
  <2>1. g = [k \in 1 .. n |-> IF k = 1 THEN s[k] ELSE g[k - 1] \o s[k]]
    BY <1>7 DEF Joins, n
  <2> QED
    BY <1>10, <2>1
<1> QED
  BY <1>7, <1>8, <1>11 DEF n, V

LEMMA HasMore ==
    ASSUME NEW B, NEW d \in Seq(B), NEW x \in Seq(B), NEW pos \in Nat, pos >= 1,
           NEW e \in Seq(B), Has(d, pos, e)
    PROVE  Has(d \o x, pos, e)
<1> DEFINE s == d \o x
           n == Len(d)
           m == Len(e)
<1>1. n \in Nat /\ m \in Nat /\ Len(s) \in Nat /\ Len(s) >= n /\ \A k \in 1 .. n : s[k] = d[k]
  OBVIOUS
<1>2. pos + m - 1 <= n /\ \A k \in 1 .. m : d[pos + k - 1] = e[k]
  BY DEF Has
<1>3. Has(s, pos, e)
  <2> HIDE DEF s, n
  <2>1. \A k \in 1 .. m : pos + k - 1 \in 1 .. n
    BY <1>1, <1>2
  <2> QED
    BY <1>1, <1>2, <2>1 DEF Has
<1> QED
  BY <1>3

LEMMA HasLast ==
    ASSUME NEW B, NEW d \in Seq(B), NEW x \in Seq(B)
    PROVE  Has(d \o x, Len(d) + 1, x)
<1> DEFINE s == d \o x
           n == Len(d)
           m == Len(x)
<1>1. n \in Nat /\ m \in Nat /\ Len(s) = n + m /\ \A k \in 1 .. m : s[n + k] = x[k]
  OBVIOUS
<1>2. Has(s, n + 1, x)
  <2> HIDE DEF s, n
  <2>1. \A k \in 1 .. m : n + 1 + k - 1 = n + k
    BY <1>1
  <2> QED
    BY <1>1, <2>1 DEF Has
<1> QED
  BY <1>2

\* Where each field begins, and the place behind the last.
Begins(at, list) ==
    /\ at \in [0 .. Len(list) -> Nat] /\ at[0] = 1
    /\ at[Len(list)] = Len(Message!Encoded(list)) + 1
    /\ \A k \in 1 .. Len(list) :
        /\ at[k] = at[k - 1] + Len(Message!EncField(list[k]))
        /\ Has(Message!Encoded(list), at[k - 1], Message!EncField(list[k]))

LEMMA EncodedIs ==
    ASSUME NEW list \in Seq(Field), list # <<>>
    PROVE  Message!Encoded(list) \in Seq(Byte) /\ \E at : Begins(at, list)
<1> DEFINE n == Len(list)
           e == [i \in DOMAIN list |-> Message!EncField(list[i])]
           all == Message!FlattenSeq(e)
<1>1. /\ n \in Nat /\ n >= 1 /\ DOMAIN list = 1 .. n
      /\ \A k \in 1 .. n : list[k] \in Field
  OBVIOUS
<1>2. /\ \A k \in 1 .. n : e[k] = Message!EncField(list[k])
      /\ \A k \in 1 .. n : e[k] \in Seq(Byte) /\ Len(e[k]) \in Nat
  <2>1. \A k \in 1 .. n : e[k] = Message!EncField(list[k])
    BY <1>1
  <2> HIDE DEF e
  <2> SUFFICES ASSUME NEW k \in 1 .. n  PROVE e[k] \in Seq(Byte) /\ Len(e[k]) \in Nat
    BY <2>1
  <2> DEFINE x == list[k]
  <2>2. x \in Field
    BY <1>1
  <2> HIDE DEF x
  <2>3. Message!EncField(x) \in Seq(Byte) /\ Len(Message!EncField(x)) \in Nat
    BY <2>2, FieldBytes
  <2> QED
    BY <2>1, <2>3 DEF x
<1>3. e \in Seq(Seq(Byte)) /\ Len(e) = n
  <2>1. e \in [1 .. n -> Seq(Byte)]
    <3>1. e = [k \in 1 .. n |-> e[k]]
      BY <1>1
    <3> HIDE DEF e
    <3> QED
      BY <1>2, <3>1
  <2> HIDE DEF e, n
  <2> QED
    BY <1>1, <2>1, SeqOfLen
<1>4. Message!Encoded(list) = all
  BY DEF Message!Encoded
<1> HIDE DEF e, n
<1>5. PICK f \in [1 .. n -> Seq(Byte)] : Joins(f, e) /\ all = f[n]
  BY <1>1, <1>3, JoinedIs
<1>6. \A k \in 1 .. n : f[k] = IF k = 1 THEN e[k] ELSE f[k - 1] \o e[k]
  BY <1>3, <1>5 DEF Joins
<1> HIDE DEF all
<1> DEFINE at == [k \in 0 .. n |-> IF k = 0 THEN 1 ELSE Len(f[k]) + 1]
           Fine(k) == \A j \in 1 .. k : /\ at[j] = at[j - 1] + Len(e[j])
                                        /\ Has(f[k], at[j - 1], e[j])
<1>7. at \in [0 .. n -> Nat] /\ at[0] = 1 /\ \A k \in 1 .. n : at[k] = Len(f[k]) + 1
  <2>1. \A k \in 0 .. n : k # 0 => k \in 1 .. n
    BY <1>1
  <2>2. \A k \in 1 .. n : Len(f[k]) \in Nat /\ k \in 0 .. n /\ k # 0
    BY <1>1, <1>5
  <2>3. 0 \in 0 .. n
    BY <1>1
  <2> QED
    BY <2>1, <2>2, <2>3
<1> HIDE DEF at
<1>8. Fine(1)
  <2> DEFINE o == 1
  <2>0. o \in 1 .. n /\ o = 1
    BY <1>1
  <2> HIDE DEF o
  <2>1. f[1] = e[1] /\ Len(e[1]) \in Nat /\ 1 \in 1 .. n
    <3>1. f[o] = e[o] /\ Len(e[o]) \in Nat
      BY <1>2, <1>6, <2>0
    <3> QED
      BY <2>0, <3>1
  <2>2. at[1] = at[0] + Len(e[1])
    BY <1>7, <2>1
  <2>3. Has(f[1], 1, e[1])
    BY <2>1 DEF Has
  <2>4. \A j \in 1 .. 1 : j = 1 /\ j - 1 = 0
    OBVIOUS
  <2> QED
    BY <1>7, <2>2, <2>3, <2>4
<1>9. ASSUME NEW k \in 1 .. n - 1, Fine(k)  PROVE Fine(k + 1)
  <2> DEFINE m == k + 1
             d == f[k]
             x == e[m]
  <2>1. k \in 1 .. n /\ m \in 1 .. n /\ m # 1 /\ m - 1 = k
    BY <1>1
  <2>2. f[m] = d \o x /\ d \in Seq(Byte) /\ x \in Seq(Byte)
    <3> HIDE DEF m
    <3>1. f[m] = f[m - 1] \o e[m]
      BY <1>6, <2>1
    <3> QED
      BY <1>2, <1>5, <2>1, <3>1
  <2> HIDE DEF m, x, d
  <2>3. Len(f[m]) = Len(d) + Len(x) /\ Len(d) \in Nat /\ Len(x) \in Nat
    BY <2>2
  <2>4. at[m] = at[k] + Len(x) /\ at[k] = Len(d) + 1
    BY <1>7, <2>1, <2>3 DEF d
  <2>5. Has(f[m], at[k], x)
    BY <2>2, <2>4, HasLast
  <2>6. ASSUME NEW j \in 1 .. k  PROVE at[j] = at[j - 1] + Len(e[j]) /\ Has(f[m], at[j - 1], e[j])
    <3>1. at[j] = at[j - 1] + Len(e[j]) /\ Has(d, at[j - 1], e[j])
      BY <1>9 DEF d
    <3>2. j \in 1 .. n /\ j - 1 \in 0 .. n
      BY <1>1
    <3>3. e[j] \in Seq(Byte) /\ at[j - 1] \in Nat
      BY <1>2, <1>7, <3>2
    <3>4. at[j - 1] >= 1
      <4>1. CASE j = 1
        BY <1>7, <4>1
      <4>2. CASE j # 1
        <5>1. j - 1 \in 1 .. n
          BY <3>2, <4>2
        <5>2. at[j - 1] = Len(f[j - 1]) + 1 /\ Len(f[j - 1]) \in Nat
          BY <1>5, <1>7, <5>1
        <5> QED
          BY <5>2
      <4> QED
        BY <4>1, <4>2
    <3> DEFINE p == at[j - 1]
               y == e[j]
    <3>5. p \in Nat /\ p >= 1 /\ y \in Seq(Byte) /\ Has(d, p, y)
      BY <3>1, <3>3, <3>4
    <3> HIDE DEF p, y
    <3>6. Has(d \o x, p, y)
      BY <2>2, <3>5, HasMore
    <3> QED
      BY <2>2, <3>1, <3>6 DEF p, y
  <2>7. \A j \in 1 .. k + 1 : j \in 1 .. k \/ j = m
    BY DEF m
  <2>8. at[m] = at[m - 1] + Len(e[m]) /\ Has(f[m], at[m - 1], e[m])
    BY <2>1, <2>4, <2>5 DEF x
  <2>9. \A j \in 1 .. k + 1 : at[j] = at[j - 1] + Len(e[j]) /\ Has(f[m], at[j - 1], e[j])
    BY <2>6, <2>7, <2>8
  <2> QED
    BY <2>9 DEF m
<1>10. Fine(n)
  <2> DEFINE T == {k \in 0 .. n - 1 : Fine(k + 1)}
  <2> HIDE DEF Fine
  <2>1. 0 \in T /\ n - 1 \in Nat
    BY <1>1, <1>8
  <2>2. ASSUME NEW k \in 0 .. (n - 1) - 1, k \in T  PROVE k + 1 \in T
    <3>1. k + 1 \in 1 .. n - 1 /\ k + 1 \in 0 .. n - 1
      BY <1>1
    <3> QED
      BY <1>9, <2>2, <3>1
  <2> HIDE DEF T
  <2>3. \A k \in 0 .. n - 1 : k \in T
    BY <2>1, <2>2, UpToBySteps
  <2>4. n - 1 \in T
    BY <2>1, <2>3
  <2>5. n - 1 + 1 = n
    BY <1>1
  <2> QED
    BY <2>4, <2>5 DEF T
<1>11. all \in Seq(Byte) /\ at[n] = Len(all) + 1
  <2>1. n \in 1 .. n
    BY <1>1
  <2>2. at[n] = Len(f[n]) + 1 /\ f[n] \in Seq(Byte)
    BY <1>5, <1>7, <2>1
  <2> QED
    BY <1>5, <2>2
<1>12. ASSUME NEW k \in 1 .. n
       PROVE  /\ at[k] = at[k - 1] + Len(Message!EncField(list[k]))
              /\ Has(all, at[k - 1], Message!EncField(list[k]))
  BY <1>2, <1>5, <1>10
<1>13. Begins(at, list)
  BY <1>4, <1>7, <1>11, <1>12 DEF Begins, n
<1> QED
  BY <1>4, <1>11, <1>13

\* The places that the fields are read at.
Follows(at, data, most) ==
    at = [k \in 0 .. Len(data) |->
            IF k = 0 THEN 1
            ELSE IF at[k - 1] > Len(data) THEN at[k - 1]
            ELSE Message!FieldAt(data, at[k - 1], most)[2]]

LEMMA ListRead ==
    ASSUME NEW list \in Seq(Field), list # <<>>, NEW most, Enough(most, Message!Encoded(list))
    PROVE  Message!FieldsOf(Message!Encoded(list), most) = list
<1> DEFINE n == Len(list)
           data == Message!Encoded(list)
           e(k) == Message!EncField(list[k])
<1>1. /\ n \in Nat /\ n >= 1 /\ \A k \in 1 .. n : list[k] \in Field
      /\ list = [k \in 1 .. n |-> list[k]]
  OBVIOUS
<1>2. data \in Seq(Byte) /\ Enough(most, data)
  BY EncodedIs
<1>3. PICK at : Begins(at, list)
  BY EncodedIs
<1> DEFINE size == Len(data)
<1>4. /\ at \in [0 .. n -> Nat] /\ at[0] = 1 /\ at[n] = size + 1 /\ size \in Nat
      /\ \A k \in 1 .. n : at[k] = at[k - 1] + Len(e(k)) /\ Has(data, at[k - 1], e(k))
  <2>1. size \in Nat
    BY <1>2
  <2> QED
    BY <1>3, <2>1 DEF Begins
<1>5. data \in Seq(Nat)
  <2>1. \A y \in Byte : y \in Nat
    BY DEF Byte
  <2> HIDE DEF data
  <2> QED
    BY <1>2, <2>1
<1>6. \A k \in 1 .. n : Len(e(k)) \in Nat /\ Len(e(k)) >= 2
  <2> SUFFICES ASSUME NEW k \in 1 .. n  PROVE Len(e(k)) \in Nat /\ Len(e(k)) >= 2
    OBVIOUS
  <2> DEFINE x == list[k]
  <2>1. x \in Field
    BY <1>1
  <2> HIDE DEF x
  <2>2. Message!EncField(x) \in Seq(Byte) /\ Len(Message!EncField(x)) >= 2
    BY <2>1, FieldBytes
  <2>3. Len(Message!EncField(x)) \in Nat
    BY <2>2
  <2> QED
    BY <2>2, <2>3 DEF x
<1> HIDE DEF data, size, n
<1>7. \A k \in 1 .. n : at[k - 1] >= 1 /\ at[k - 1] <= size /\ at[k - 1] \in Nat
  <2> DEFINE T == {k \in 0 .. n : at[k] >= 1}
  <2>1. 0 \in T
    BY <1>1, <1>4
  <2>2. ASSUME NEW k \in 0 .. n - 1, k \in T  PROVE k + 1 \in T
    <3> DEFINE j == k + 1
    <3>1. j \in 1 .. n /\ j - 1 = k /\ j \in 0 .. n
      BY <1>1
    <3> HIDE DEF j
    <3>2. at[j] = at[j - 1] + Len(e(j)) /\ Len(e(j)) \in Nat /\ Len(e(j)) >= 2
      BY <1>4, <1>6, <3>1
    <3>3. at[k] \in Nat /\ at[k] >= 1
      BY <1>1, <1>4, <2>2
    <3> HIDE DEF e
    <3>4. at[j] >= 1
      BY <3>1, <3>2, <3>3
    <3> QED
      BY <3>1, <3>4 DEF j
  <2> HIDE DEF T
  <2>3. \A k \in 0 .. n : k \in T
    BY <1>1, <2>1, <2>2, UpToBySteps
  <2> SUFFICES ASSUME NEW k \in 1 .. n
               PROVE  at[k - 1] >= 1 /\ at[k - 1] <= size /\ at[k - 1] \in Nat
    OBVIOUS
  <2>4. k - 1 \in 0 .. n
    BY <1>1
  <2>5. at[k - 1] >= 1 /\ at[k - 1] \in Nat
    BY <1>4, <2>3, <2>4 DEF T
  <2>6. Has(data, at[k - 1], e(k)) /\ Len(e(k)) \in Nat /\ Len(e(k)) >= 2
    BY <1>4, <1>6
  <2>7. at[k - 1] + Len(e(k)) - 1 <= size
    <3> HIDE DEF e
    <3> QED
      BY <2>6 DEF Has, size
  <2> HIDE DEF e
  <2> QED
    BY <1>4, <2>5, <2>6, <2>7
<1>8. n <= size
  <2> DEFINE T == {k \in 0 .. n : at[k] >= k + 1}
  <2>1. 0 \in T
    BY <1>1, <1>4
  <2>2. ASSUME NEW k \in 0 .. n - 1, k \in T  PROVE k + 1 \in T
    <3> DEFINE j == k + 1
    <3>1. j \in 1 .. n /\ j - 1 = k /\ j \in 0 .. n /\ j = k + 1
      BY <1>1
    <3> HIDE DEF j
    <3>2. at[j] = at[j - 1] + Len(e(j)) /\ Len(e(j)) \in Nat /\ Len(e(j)) >= 2
      BY <1>4, <1>6, <3>1
    <3>3. at[k] \in Nat /\ at[k] >= k + 1
      BY <1>1, <1>4, <2>2
    <3> HIDE DEF e
    <3>4. at[j] >= j + 1
      BY <3>1, <3>2, <3>3
    <3> QED
      BY <3>1, <3>4
  <2> HIDE DEF T
  <2>3. \A k \in 0 .. n : k \in T
    BY <1>1, <2>1, <2>2, UpToBySteps
  <2>4. at[n] >= n + 1
    <3>1. n \in 0 .. n
      BY <1>1
    <3> QED
      BY <2>3, <3>1 DEF T
  <2> QED
    BY <1>1, <1>4, <2>4
<1>9. \A k \in 1 .. n : Message!FieldAt(data, at[k - 1], most) = <<list[k], at[k]>>
  <2> SUFFICES ASSUME NEW k \in 1 .. n
               PROVE  Message!FieldAt(data, at[k - 1], most) = <<list[k], at[k]>>
    OBVIOUS
  <2> DEFINE x == list[k]
             p == at[k - 1]
  <2>1. x \in Field /\ p \in Nat /\ p >= 1 /\ Has(data, p, Message!EncField(x))
    BY <1>1, <1>4, <1>7
  <2> HIDE DEF x, p
  <2>2. Message!FieldAt(data, p, most) = <<x, p + Len(Message!EncField(x))>>
    BY <1>2, <1>5, <2>1, FieldRead
  <2> QED
    BY <1>4, <2>2 DEF x, p
<1> DEFINE h == [k \in 0 .. size |-> IF k <= n THEN at[k] ELSE at[n]]
           g == CHOOSE f : Follows(f, data, most)
           Count(m) == g[m] > Len(data) /\ \A k \in 0 .. m - 1 : g[k] <= Len(data)
           count == CHOOSE m \in 0 .. Len(data) : Count(m)
<1>10. Message!FieldsOf(data, most)
         = [k \in 1 .. count |-> Message!FieldAt(data, g[k - 1], most)[1]]
  BY DEF Message!FieldsOf, Follows
<1> HIDE DEF e
<1>11. Follows(h, data, most)
  <2>1. ASSUME NEW k \in 0 .. size
        PROVE  h[k] = IF k = 0 THEN 1
                      ELSE IF h[k - 1] > size THEN h[k - 1]
                      ELSE Message!FieldAt(data, h[k - 1], most)[2]
    <3>1. CASE k = 0
      BY <1>1, <1>4, <3>1
    <3>2. CASE k # 0 /\ k <= n
      <4>1. k \in 1 .. n /\ k - 1 \in 0 .. size /\ k - 1 <= n
        <5>1. size \in Nat
          BY <1>4
        <5> HIDE DEF h
        <5> QED
          BY <1>1, <3>2, <5>1
      <4>2. h[k] = at[k] /\ h[k - 1] = at[k - 1]
        BY <3>2, <4>1
      <4> HIDE DEF h
      <4>3. ~(at[k - 1] > size)
        BY <1>4, <1>7, <4>1
      <4>4. Message!FieldAt(data, at[k - 1], most)[2] = at[k]
        BY <1>9, <4>1
      <4> QED
        BY <3>2, <4>2, <4>3, <4>4
    <3>3. CASE k > n
      <4>1. k - 1 \in 0 .. size /\ k # 0 /\ (k - 1 = n \/ ~(k - 1 <= n))
        <5>1. size \in Nat
          BY <1>4
        <5> HIDE DEF h
        <5> QED
          BY <1>1, <3>3, <5>1
      <4>2. h[k] = at[n] /\ h[k - 1] = at[n]
        <5>1. h[k] = at[n]
          BY <1>1, <3>3
        <5>2. h[k - 1] = at[n]
          BY <1>1, <4>1
        <5> QED
          BY <5>1, <5>2
      <4> HIDE DEF h
      <4>3. at[n] > size
        BY <1>4
      <4> QED
        BY <4>1, <4>2, <4>3
    <3> QED
      BY <1>1, <3>1, <3>2, <3>3
  <2>2. h = [k \in 0 .. size |-> h[k]]
    OBVIOUS
  <2> HIDE DEF h
  <2> QED
    BY <2>1, <2>2 DEF Follows, size
<1>12. Follows(g, data, most)
  <2> HIDE DEF h
  <2> QED
    BY <1>11
<1> HIDE DEF g, h
<1>13. \A k \in 0 .. size : g[k] = IF k = 0 THEN 1
                                   ELSE IF g[k - 1] > size THEN g[k - 1]
                                   ELSE Message!FieldAt(data, g[k - 1], most)[2]
  BY <1>12 DEF Follows, size
<1>14. \A k \in 0 .. n : g[k] = at[k]
  <2> DEFINE T == {k \in 0 .. n : g[k] = at[k]}
  <2>1. 0 \in T
    <3>1. 0 \in 0 .. size /\ 0 \in 0 .. n
      BY <1>1, <1>4
    <3>2. g[0] = 1
      BY <1>13, <3>1
    <3> QED
      BY <1>4, <3>1, <3>2
  <2>2. ASSUME NEW k \in 0 .. n - 1, k \in T  PROVE k + 1 \in T
    <3> DEFINE j == k + 1
    <3>1. j \in 1 .. n /\ j - 1 = k /\ j \in 0 .. n /\ j \in 0 .. size /\ j # 0
      BY <1>1, <1>4, <1>8
    <3> HIDE DEF j
    <3>2. g[j - 1] = at[j - 1]
      BY <2>2, <3>1
    <3>3. ~(at[j - 1] > size)
      BY <1>4, <1>7, <3>1
    <3>4. Message!FieldAt(data, at[j - 1], most)[2] = at[j]
      BY <1>9, <3>1
    <3>5. g[j] = at[j]
      BY <1>13, <3>1, <3>2, <3>3, <3>4
    <3> QED
      BY <3>1, <3>5 DEF j
  <2> HIDE DEF T
  <2>3. \A k \in 0 .. n : k \in T
    BY <1>1, <2>1, <2>2, UpToBySteps
  <2> QED
    BY <2>3 DEF T
<1>15. count = n
  <2>1. g[n] > size /\ \A k \in 0 .. n - 1 : g[k] <= size
    <3>1. n \in 0 .. n
      BY <1>1
    <3>2. g[n] > size
      BY <1>4, <1>14, <3>1
    <3> SUFFICES ASSUME NEW k \in 0 .. n - 1  PROVE g[k] <= size
      BY <3>2
    <3> DEFINE j == k + 1
    <3>3. j \in 1 .. n /\ j - 1 = k /\ k \in 0 .. n
      BY <1>1
    <3> HIDE DEF j
    <3>4. at[j - 1] <= size /\ g[k] = at[k]
      BY <1>7, <1>14, <3>3
    <3> QED
      BY <3>3, <3>4
  <2>2. Count(n) /\ n \in 0 .. Len(data)
    BY <1>1, <1>4, <1>8, <2>1 DEF size
  <2>3. ASSUME NEW m \in 0 .. Len(data), Count(m)  PROVE m = n
    <3>1. CASE m < n
      <4>1. m \in 0 .. n - 1
        BY <1>1, <3>1
      <4>2. g[m] <= size /\ g[m] > size /\ g[m] = at[m] /\ at[m] \in Nat
        <5>1. m \in 0 .. n
          BY <1>1, <4>1
        <5> QED
          BY <1>4, <1>14, <2>1, <2>3, <4>1, <5>1 DEF size
      <4> QED
        BY <1>4, <4>2
    <3>2. CASE m > n
      <4>1. n \in 0 .. m - 1
        BY <1>1, <3>2
      <4>2. g[n] <= size /\ g[n] = size + 1
        <5>1. n \in 0 .. n
          BY <1>1
        <5> QED
          BY <1>4, <1>14, <2>3, <4>1, <5>1 DEF size
      <4> QED
        BY <1>4, <4>2
    <3> QED
      BY <1>1, <3>1, <3>2
  <2> HIDE DEF Count
  <2> QED
    BY <2>2, <2>3
<1> HIDE DEF count
<1>16. \A k \in 1 .. n : Message!FieldAt(data, g[k - 1], most)[1] = list[k]
  <2> SUFFICES ASSUME NEW k \in 1 .. n
               PROVE  Message!FieldAt(data, g[k - 1], most)[1] = list[k]
    OBVIOUS
  <2>1. k - 1 \in 0 .. n
    BY <1>1
  <2>2. g[k - 1] = at[k - 1]
    BY <1>14, <2>1
  <2> QED
    BY <1>9, <2>2
<1> QED
  BY <1>1, <1>10, <1>15, <1>16 DEF data

\* A field takes so many bytes: its value's, and ten more at most.
LEMMA FieldSize ==
    ASSUME NEW x \in Field, x.type = 2
    PROVE  /\ Len(Message!EncField(x)) \in Nat /\ Len(Message!EncField(x)) >= Len(x.value)
           /\ Len(Message!EncField(x)) <= Len(x.value) + 10
<1> DEFINE v == x.field * 8 + x.type
           t == Message!EncVarint(v)
           b == x.value
           n == Len(b)
           l == Message!EncVarint(n)
<1>1. t \in Seq(Byte) /\ Len(t) \in 1 .. 5
  <2>1. v \in Word
    BY FieldKinds
  <2> HIDE DEF v
  <2> QED
    BY <2>1, VarintBytes
<1>2. b \in Seq(Byte) /\ n \in Word
  BY FieldKinds
<1>3. l \in Seq(Byte) /\ Len(l) \in 1 .. 5
  <2> HIDE DEF n
  <2> QED
    BY <1>2, VarintBytes
<1>4. Message!EncField(x) = t \o (l \o b)
  <2>1. x.type # 0
    OBVIOUS
  <2> QED
    BY <2>1, Zenon DEF Message!EncField
<1> HIDE DEF t, b, l
<1>5. n \in Nat
  BY <1>2
<1>6. l \o b \in Seq(Byte) /\ Len(l \o b) = Len(l) + n
  BY <1>2, <1>3
<1> DEFINE c == l \o b
<1>7. c \in Seq(Byte) /\ Len(c) = Len(l) + n
  BY <1>6
<1> HIDE DEF c, n
<1>8. Len(t \o c) = Len(t) + Len(l) + n
  BY <1>1, <1>3, <1>5, <1>7
<1>9. Len(Message!EncField(x)) = Len(t) + Len(l) + n
  BY <1>4, <1>8 DEF c
<1> DEFINE m == Len(Message!EncField(x))
<1>10. m = Len(t) + Len(l) + n
  BY <1>9
<1> HIDE DEF m
<1>11. m \in Nat /\ m >= n /\ m <= n + 10
  <2> DEFINE u == Len(t)
             w == Len(l)
  <2>1. u \in 1 .. 5 /\ w \in 1 .. 5 /\ n \in Nat /\ m = u + w + n
    BY <1>1, <1>3, <1>5, <1>10
  <2> HIDE DEF u, w
  <2> QED
    BY <2>1
<1> QED
  BY <1>11 DEF m, n, b

\* A number is short, and so are bytes that are few.
Short(x) == x.type = 2 => Len(x.value) <= 140

LEMMA ShortField ==
    ASSUME NEW x \in Field, Short(x)
    PROVE  Len(Message!EncField(x)) \in Nat /\ Len(Message!EncField(x)) <= 150
<1>1. CASE x.type = 2
  <2>1. Len(x.value) \in Nat /\ Len(x.value) <= 140
    BY <1>1, FieldKinds DEF Short
  <2> QED
    BY <1>1, <2>1, FieldSize
<1>2. CASE x.type = 0
  <2> DEFINE v == x.field * 8 + x.type
             w == x.value
             t == Message!EncVarint(v)
             b == Message!EncVarint(w)
  <2>1. v \in Word /\ w \in Word
    BY <1>2, FieldKinds
  <2>2. t \in Seq(Byte) /\ Len(t) \in 1 .. 5 /\ b \in Seq(Byte) /\ Len(b) \in 1 .. 5
    <3> HIDE DEF v, w
    <3>1. t \in Seq(Byte) /\ Len(t) \in 1 .. 5
      BY <2>1, VarintBytes
    <3>2. b \in Seq(Byte) /\ Len(b) \in 1 .. 5
      BY <2>1, VarintBytes
    <3> QED
      BY <3>1, <3>2
  <2>3. Message!EncField(x) = t \o b
    BY <1>2 DEF Message!EncField
  <2> HIDE DEF t, b
  <2> DEFINE m == Len(t)
             n == Len(b)
  <2>4. m \in 1 .. 5 /\ n \in 1 .. 5 /\ Len(Message!EncField(x)) = m + n
    <3>1. Len(t \o b) = Len(t) + Len(b)
      BY <2>2
    <3> QED
      BY <2>2, <2>3, <3>1
  <2> HIDE DEF m, n
  <2> QED
    BY <2>4
<1> QED
  BY <1>1, <1>2, FieldKinds

LEMMA ShortList ==
    ASSUME NEW list \in Seq(Field), list # <<>>, \A k \in 1 .. Len(list) : Short(list[k])
    PROVE  /\ Message!Encoded(list) \in Seq(Byte)
           /\ Len(Message!Encoded(list)) \in Nat
           /\ Len(Message!Encoded(list)) <= 150 * Len(list)
<1> DEFINE n == Len(list)
           size == Len(Message!Encoded(list))
<1>1. n \in Nat /\ \A k \in 1 .. n : list[k] \in Field
  OBVIOUS
<1>2. Message!Encoded(list) \in Seq(Byte) /\ size \in Nat
  <2>1. Message!Encoded(list) \in Seq(Byte)
    BY EncodedIs
  <2> QED
    BY <2>1
<1>3. PICK at : Begins(at, list)
  BY EncodedIs
<1>4. /\ at \in [0 .. n -> Nat] /\ at[0] = 1 /\ at[n] = size + 1
      /\ \A k \in 1 .. n : at[k] = at[k - 1] + Len(Message!EncField(list[k]))
  BY <1>3 DEF Begins
<1> HIDE DEF n, size
<1>5. \A k \in 1 .. n : /\ Len(Message!EncField(list[k])) \in Nat
                        /\ Len(Message!EncField(list[k])) <= 150
  <2> SUFFICES ASSUME NEW k \in 1 .. n
               PROVE  /\ Len(Message!EncField(list[k])) \in Nat
                      /\ Len(Message!EncField(list[k])) <= 150
    OBVIOUS
  <2> DEFINE x == list[k]
  <2>1. x \in Field /\ Short(x)
    BY <1>1 DEF n
  <2> HIDE DEF x
  <2>2. Len(Message!EncField(x)) \in Nat /\ Len(Message!EncField(x)) <= 150
    BY <2>1, ShortField
  <2> QED
    BY <2>2 DEF x
<1> DEFINE T == {k \in 0 .. n : at[k] <= 150 * k + 1}
<1>6. 0 \in T
  BY <1>1, <1>4
<1>7. ASSUME NEW k \in 0 .. n - 1, k \in T  PROVE k + 1 \in T
  <2> DEFINE j == k + 1
             m == Len(Message!EncField(list[j]))
  <2>1. j \in 1 .. n /\ j - 1 = k /\ j \in 0 .. n /\ j = k + 1
    BY <1>1
  <2>2. at[j] = at[j - 1] + m /\ m \in Nat /\ m <= 150
    <3> HIDE DEF j
    <3> QED
      BY <1>4, <1>5, <2>1
  <2>3. at[k] \in Nat /\ at[k] <= 150 * k + 1
    BY <1>1, <1>4, <1>7
  <2> HIDE DEF j, m
  <2>4. at[j] <= 150 * j + 1
    BY <2>1, <2>2, <2>3
  <2> QED
    BY <2>1, <2>4
<1> HIDE DEF T
<1>8. n \in T
  <2>1. \A k \in 0 .. n : k \in T
    BY <1>1, <1>6, <1>7, UpToBySteps
  <2>2. n \in 0 .. n
    BY <1>1
  <2> QED
    BY <2>1, <2>2
<1>9. at[n] <= 150 * n + 1
  BY <1>8 DEF T
<1>10. size <= 150 * n
  BY <1>1, <1>2, <1>4, <1>9
<1> QED
  BY <1>2, <1>10 DEF n, size

\* The last field of a number and a type where it is the only one, or there is none.
LEMMA LastIs ==
    ASSUME NEW list, NEW f, NEW type, NEW i \in DOMAIN list, NEW default,
           list[i].field = f, list[i].type = type, DOMAIN list \subseteq Int,
           \A j \in DOMAIN list : j # i => ~(list[j].field = f /\ list[j].type = type)
    PROVE  Message!LastOf(list, f, type, default) = list[i].value
<1> DEFINE at == {j \in DOMAIN list : list[j].field = f /\ list[j].type = type}
<1>1. at = {i}
  OBVIOUS
<1>2. Message!LastOf(list, f, type, default)
        = IF at = {} THEN default ELSE list[Message!Max(at)].value
  BY DEF Message!LastOf
<1> HIDE DEF at
<1>3. Message!Max(at) = i
  BY <1>1 DEF Message!Max
<1> QED
  BY <1>1, <1>2, <1>3

LEMMA LastNone ==
    ASSUME NEW list, NEW f, NEW type, NEW default,
           \A j \in DOMAIN list : ~(list[j].field = f /\ list[j].type = type)
    PROVE  Message!LastOf(list, f, type, default) = default
<1>1. {j \in DOMAIN list : list[j].field = f /\ list[j].type = type} = {}
  OBVIOUS
<1> QED
  BY <1>1, Zenon DEF Message!LastOf

-----------------------------------------------------------------------------
(* Frames and challenges. *)

LEMMA TextBytes ==
    ASSUME NEW s \in Message!Texts
    PROVE  s \in Seq(Byte) /\ Len(s) \in Nat /\ Len(s) <= 128
<1>1. CASE s = <<>>
  BY <1>1
<1>2. CASE \E n \in {1, 127, 128} : s = [i \in 1 .. n |-> 5]
  <2>1. PICK n \in {1, 127, 128} : s = [i \in 1 .. n |-> 5]
    BY <1>2
  <2>2. n \in Nat /\ n <= 128 /\ 5 \in Byte
    BY DEF Byte
  <2>3. s \in [1 .. n -> Byte]
    BY <2>1, <2>2
  <2>4. s \in Seq(Byte) /\ Len(s) = n
    BY <2>2, <2>3, SeqOfLen
  <2> QED
    BY <2>2, <2>4
<1> QED
  BY <1>1, <1>2 DEF Message!Texts

LEMMA NumField ==
    ASSUME NEW f \in Nat, f <= 100, NEW v \in Word
    PROVE  /\ Message!Num(f, v) \in Field /\ Short(Message!Num(f, v))
           /\ Message!Num(f, v).field = f /\ Message!Num(f, v).type = 0
           /\ Message!Num(f, v).value = v
<1>1. f \in Places
  BY DEF Places
<1> QED
  BY <1>1 DEF Message!Num, Field, Short

Blob == {s \in Seq(Byte) : Len(s) \in Word}

LEMMA Blobs ==
    ASSUME NEW b \in Seq(Byte), Len(b) <= 1000
    PROVE  b \in Blob /\ Len(b) \in Nat
<1>1. Len(b) \in Nat
  OBVIOUS
<1>2. Len(b) \in Word
  BY <1>1 DEF Word
<1> QED
  BY <1>1, <1>2 DEF Blob

LEMMA BytesField ==
    ASSUME NEW f \in Nat, f <= 100, NEW b \in Blob
    PROVE  /\ Message!Bytes(f, b) \in Field /\ (Len(b) <= 140 => Short(Message!Bytes(f, b)))
           /\ Message!Bytes(f, b).field = f /\ Message!Bytes(f, b).type = 2
           /\ Message!Bytes(f, b).value = b
<1>1. f \in Places
  BY DEF Places
<1> QED
  BY <1>1 DEF Message!Bytes, Field, Short, Blob

LEMMA ByteValues == \A b \in {0, 1, 8, 48} : b \in Byte
  BY DEF Byte

LEMMA SmallWords == \A v \in {0, 1, 128, 2147483647} : v \in Word
  BY DEF Word

\* Each field of a frame is one of those.
LEMMA FramesAre ==
    ASSUME NEW list \in Message!Frames
    PROVE  /\ list \in Seq(Field) /\ list # <<>>
           /\ \A k \in DOMAIN list : list[k].field \in {2, 5, 7, 8, 9, 10, 16}
<1>1. PICK s \in Message!Texts, t \in Message!Texts, x \in Message!Unknown :
        list \in Message!SetToSeqs({Message!Num(5, 1), Message!Bytes(2, s),
                                    Message!Bytes(7, t), x})
  BY SMTT(20) DEF Message!Frames
<1> DEFINE y1 == Message!Num(5, 1)
           y2 == Message!Bytes(2, s)
           y3 == Message!Bytes(7, t)
           S == {y1, y2, y3, x}
<1>2. y1 \in Field /\ y1.field = 5
  BY NumField, SmallWords
<1>3. y2 \in Field /\ y2.field = 2
  <2>1. s \in Blob
    BY TextBytes, Blobs
  <2> QED
    BY <2>1, BytesField
<1>4. y3 \in Field /\ y3.field = 7
  <2>1. t \in Blob
    BY TextBytes, Blobs
  <2> QED
    BY <2>1, BytesField
<1>5. x \in Field /\ x.field \in {8, 9, 10, 16}
  <2>1. CASE x = Message!Num(8, 128)
    BY <2>1, NumField, SmallWords
  <2>2. CASE x = Message!Num(9, 2147483647)
    <3> DEFINE v == 2147483647
    <3>1. v \in Word
      BY SmallWords
    <3> HIDE DEF v
    <3>2. Message!Num(9, v) \in Field /\ Message!Num(9, v).field = 9
      BY <3>1, NumField
    <3> QED
      BY <2>2, <3>2 DEF v
  <2>3. CASE x = Message!Bytes(10, <<1, 0>>)
    <3> DEFINE b == <<1, 0>>
    <3>1. b \in Seq(Byte) /\ Len(b) = 2
      BY ByteValues
    <3>2. x = Message!Bytes(10, b)
      BY <2>3, Zenon
    <3> HIDE DEF b
    <3>3. b \in Blob
      <4>1. Len(b) <= 1000
        <5> DEFINE m == Len(b)
        <5>1. m = 2
          BY <3>1, Zenon
        <5> HIDE DEF m
        <5>2. m <= 1000
          BY <5>1
        <5> QED
          BY <5>2, Zenon DEF m
      <4> QED
        BY <3>1, <4>1, Blobs
    <3>4. Message!Bytes(10, b) \in Field /\ Message!Bytes(10, b).field = 10
      BY <3>3, BytesField
    <3> QED
      BY <3>2, <3>4
  <2>4. CASE x = Message!Bytes(16, <<8, 1>>)
    <3> DEFINE b == <<8, 1>>
    <3>1. b \in Seq(Byte) /\ Len(b) = 2
      BY ByteValues
    <3>2. x = Message!Bytes(16, b)
      BY <2>4, Zenon
    <3> HIDE DEF b
    <3>3. b \in Blob
      <4>1. Len(b) <= 1000
        BY <3>1
      <4> QED
        BY <3>1, <4>1, Blobs
    <3>4. Message!Bytes(16, b) \in Field /\ Message!Bytes(16, b).field = 16
      BY <3>3, BytesField
    <3> QED
      BY <3>2, <3>4
  <2> QED
    BY <2>1, <2>2, <2>3, <2>4 DEF Message!Unknown
<1> HIDE DEF y1, y2, y3
<1>6. \A y \in S : y \in Field /\ y.field \in {2, 5, 7, 8, 9, 10, 16}
  BY <1>2, <1>3, <1>4, <1>5
<1>7. list \in Message!SetToSeqs(S)
  BY <1>1, Zenon DEF y1, y2, y3
<1>8. IsFiniteSet(S) /\ y1 \in S
  <2>1. IsFiniteSet({}) /\ S = ((({} \cup {y1}) \cup {y2}) \cup {y3}) \cup {x}
    BY FS_EmptySet
  <2> HIDE DEF y1, y2, y3, S
  <2>2. IsFiniteSet(({} \cup {y1}) \cup {y2})
    BY <2>1, FS_AddElement, Zenon
  <2>3. IsFiniteSet((({} \cup {y1}) \cup {y2}) \cup {y3})
    BY <2>2, FS_AddElement, Zenon
  <2>4. IsFiniteSet(((({} \cup {y1}) \cup {y2}) \cup {y3}) \cup {x})
    BY <2>3, FS_AddElement, Zenon
  <2>5. y1 \in ((({} \cup {y1}) \cup {y2}) \cup {y3}) \cup {x}
    OBVIOUS
  <2> QED
    BY <2>1, <2>4, <2>5, Zenon
<1> HIDE DEF S
<1> DEFINE n == Cardinality(S)
<1>9. n \in Nat /\ n # 0
  BY <1>8, FS_CardinalityType, FS_EmptySet
<1>10. list \in [1 .. n -> S]
  BY <1>7, MessageCounts, Zenon DEF Message!SetToSeqs
<1> HIDE DEF n
<1>11. list \in Seq(S) /\ Len(list) = n
  BY <1>9, <1>10, SeqOfLen
<1>12. \A k \in DOMAIN list : list[k] \in S
  BY <1>11
<1>13. list \in Seq(Field) /\ list # <<>>
  <2>1. \A y \in S : y \in Field
    BY <1>6
  <2>2. list # <<>>
    BY <1>9, <1>11
  <2> QED
    BY <1>11, <2>1, <2>2
<1> QED
  BY <1>6, <1>12, <1>13

LEMMA FieldsBegin == Message!Init => Message!FieldsRead
  BY DEF Message!Init, Message!FieldsRead

LEMMA FieldsKept ==
    ASSUME Message!FieldsRead, Message!Next  PROVE Message!FieldsRead'
<1>1. CASE Message!Receive
  <2>1. PICK list \in Message!Frames :
          fields' = list /\ got' = Message!Decode(Message!Encoded(list))
    BY <1>1, Zenon DEF Message!Receive
  <2>2. /\ list \in Seq(Field) /\ list # <<>>
        /\ \A k \in DOMAIN list : list[k].field \in {2, 5, 7, 8, 9, 10, 16}
    BY FramesAre
  <2>3. Message!FieldsOf(Message!Encoded(list), 5) = list
    <3>1. Enough(5, Message!Encoded(list))
      BY DEF Enough
    <3> QED
      BY <2>2, <3>1, ListRead
  <2>4. Message!Whole(list)
    BY <2>2 DEF Message!Whole
  <2>5. ASSUME NEW f \in {1, 3, 4, 6}, NEW type, NEW default
        PROVE  Message!LastOf(list, f, type, default) = default
    <3>1. \A k \in DOMAIN list : list[k].field # f
      BY <2>2
    <3> QED
      BY <3>1, LastNone
  <2>6. /\ Message!LastOf(list, 1, 0, 0) = 0 /\ Message!LastOf(list, 3, 2, <<>>) = <<>>
        /\ Message!LastOf(list, 4, 2, <<>>) = <<>> /\ Message!LastOf(list, 6, 2, <<>>) = <<>>
    BY <2>5
  <2>7. got' = <<0, Message!LastOf(list, 2, 2, <<>>), <<>>, <<>>,
                 Message!LastOf(list, 5, 0, 0), <<>>, Message!LastOf(list, 7, 2, <<>>)>>
    BY <2>1, <2>3, <2>4, <2>6, Zenon DEF Message!Decode
  <2> QED
    BY <2>1, <2>7, Zenon DEF Message!FieldsRead
<1>2. CASE fields' = fields /\ got' = got
  BY <1>2 DEF Message!FieldsRead
<1> QED
  BY <1>1, <1>2, Zenon DEF Message!Next, Message!Challenge, Message!Message, Message!wireVars

\* The bytes of the only field of a number that is bytes; none, if there is none.
LEMMA UnwrapIs ==
    ASSUME NEW list \in Seq(Field), list # <<>>, NEW f, NEW i \in DOMAIN list,
           list[i].field = f, list[i].type = 2,
           \A j \in DOMAIN list : j # i => ~(list[j].field = f /\ list[j].type = 2)
    PROVE  Message!Unwrap(Message!Encoded(list), f) = <<list[i].value>>
<1> DEFINE data == Message!Encoded(list)
           at == {j \in DOMAIN list : list[j].field = f /\ list[j].type = 2}
<1>1. data \in Seq(Byte) /\ Len(data) \in Nat
  <2>1. data \in Seq(Byte)
    BY EncodedIs
  <2> QED
    BY <2>1
<1>2. Message!FieldsOf(data, Len(data)) = list
  <2>1. Enough(Len(data), data)
    BY <1>1 DEF Enough
  <2> QED
    BY <2>1, ListRead
<1>3. Message!Unwrap(data, f) = IF at = {} THEN <<>> ELSE <<list[Message!Min(at)].value>>
  BY <1>2, Zenon DEF Message!Unwrap
<1>4. at = {i} /\ i \in Int
  OBVIOUS
<1> HIDE DEF at
<1>5. Message!Min(at) = i
  BY <1>4 DEF Message!Min
<1> QED
  BY <1>3, <1>4, <1>5

LEMMA UnwrapNone ==
    ASSUME NEW list \in Seq(Field), list # <<>>, NEW f,
           \A j \in DOMAIN list : ~(list[j].field = f /\ list[j].type = 2)
    PROVE  Message!Unwrap(Message!Encoded(list), f) = <<>>
<1> DEFINE data == Message!Encoded(list)
           at == {j \in DOMAIN list : list[j].field = f /\ list[j].type = 2}
<1>1. data \in Seq(Byte) /\ Len(data) \in Nat
  <2>1. data \in Seq(Byte)
    BY EncodedIs
  <2> QED
    BY <2>1
<1>2. Message!FieldsOf(data, Len(data)) = list
  <2>1. Enough(Len(data), data)
    BY <1>1 DEF Enough
  <2> QED
    BY <2>1, ListRead
<1>3. Message!Unwrap(data, f) = IF at = {} THEN <<>> ELSE <<list[Message!Min(at)].value>>
  BY <1>2, Zenon DEF Message!Unwrap
<1>4. at = {}
  OBVIOUS
<1> HIDE DEF at
<1> QED
  BY <1>3, <1>4

\* Bytes in a wrapper of a field of their own are opened, and read whole.
LEMMA WrapperOpened ==
    ASSUME NEW f \in Nat, f <= 100, NEW b \in Blob
    PROVE  LET data == Message!Encoded(<<Message!Bytes(f, b)>>) IN
           /\ Message!Unwrap(data, f) = <<b>>
           /\ Len(data) \in Nat /\ Len(data) >= Len(b)
<1> DEFINE x == Message!Bytes(f, b)
           list == <<x>>
           data == Message!Encoded(list)
<1>1. x \in Field /\ x.field = f /\ x.type = 2 /\ x.value = b
  BY BytesField
<1> HIDE DEF x
<1>2. list \in Seq(Field) /\ list # <<>> /\ DOMAIN list = {1} /\ list[1] = x /\ Len(list) = 1
  BY <1>1
<1> HIDE DEF list
<1>3. Message!Unwrap(data, f) = <<b>>
  <2>1. /\ 1 \in DOMAIN list /\ list[1].field = f /\ list[1].type = 2
        /\ \A j \in DOMAIN list : j # 1 => ~(list[j].field = f /\ list[j].type = 2)
    BY <1>1, <1>2
  <2>2. Message!Unwrap(data, f) = <<list[1].value>>
    BY <1>2, <2>1, UnwrapIs
  <2> QED
    BY <1>1, <1>2, <2>2
<1>4. data \in Seq(Byte) /\ \E at : Begins(at, list)
  BY <1>2, EncodedIs
<1>5. PICK at : Begins(at, list)
  BY <1>4
<1>6. at[0] = 1 /\ at[1] = Len(data) + 1 /\ at[1] = at[0] + Len(Message!EncField(x))
  <2>1. /\ at[0] = 1 /\ at[Len(list)] = Len(data) + 1
        /\ \A k \in 1 .. Len(list) : at[k] = at[k - 1] + Len(Message!EncField(list[k]))
    BY <1>5, Zenon DEF Begins
  <2>2. 1 \in 1 .. Len(list) /\ 1 - 1 = 0
    BY <1>2
  <2>3. at[1] = at[1 - 1] + Len(Message!EncField(list[1]))
    BY <2>1, <2>2
  <2> HIDE DEF data
  <2> QED
    BY <1>2, <2>1, <2>2, <2>3
<1>7. Len(Message!EncField(x)) \in Nat /\ Len(Message!EncField(x)) >= Len(b)
  BY <1>1, FieldSize
<1>8. Len(data) \in Nat /\ Len(b) \in Nat
  <2> HIDE DEF data
  <2> QED
    BY <1>4 DEF Blob
<1> DEFINE m == Len(data)
           n == Len(Message!EncField(x))
<1>9. m + 1 = 1 + n /\ m \in Nat /\ n \in Nat /\ n >= Len(b)
  BY <1>6, <1>7, <1>8
<1> HIDE DEF m, n
<1>10. m >= Len(b)
  BY <1>8, <1>9
<1> QED
  BY <1>3, <1>8, <1>10 DEF m, list, x

\* What a challenge has.
Asked(nonce, hash, algorithm) ==
    <<Message!Num(1, algorithm), Message!Bytes(2, nonce), Message!Num(3, hash)>>

LEMMA AskedIs ==
    ASSUME NEW nonce \in Message!Texts, NEW hash \in {0, 1}, NEW algorithm \in {0, 1}
    PROVE  LET list == Asked(nonce, hash, algorithm) IN
           /\ list \in Seq(Field) /\ list # <<>> /\ Len(list) = 3 /\ DOMAIN list = {1, 2, 3}
           /\ \A k \in {1, 2, 3} : list[k].field = k /\ Short(list[k])
           /\ list[1].type = 0 /\ list[2].type = 2 /\ list[3].type = 0
           /\ list[2].value = nonce /\ list[3].value = hash
<1> DEFINE x == Message!Num(1, algorithm)
           y == Message!Bytes(2, nonce)
           z == Message!Num(3, hash)
           list == <<x, y, z>>
<1>1. x \in Field /\ Short(x) /\ x.field = 1 /\ x.type = 0
  <2>1. algorithm \in Word
    BY SmallWords
  <2> QED
    BY <2>1, NumField
<1>2. z \in Field /\ Short(z) /\ z.field = 3 /\ z.type = 0 /\ z.value = hash
  <2>1. hash \in Word
    BY SmallWords
  <2> QED
    BY <2>1, NumField
<1>3. y \in Field /\ Short(y) /\ y.field = 2 /\ y.type = 2 /\ y.value = nonce
  <2>1. nonce \in Seq(Byte) /\ Len(nonce) \in Nat /\ Len(nonce) <= 128
    BY TextBytes
  <2>2. Len(nonce) <= 140 /\ Len(nonce) <= 1000
    BY <2>1
  <2>3. nonce \in Blob
    BY <2>1, <2>2, Blobs
  <2> QED
    BY <2>2, <2>3, BytesField
<1> HIDE DEF x, y, z
<1>4. /\ list \in Seq(Field) /\ list # <<>> /\ Len(list) = 3 /\ DOMAIN list = {1, 2, 3}
      /\ list[1] = x /\ list[2] = y /\ list[3] = z
  BY <1>1, <1>2, <1>3
<1> HIDE DEF list
<1>5. \A k \in {1, 2, 3} : list[k].field = k /\ Short(list[k])
  BY <1>1, <1>2, <1>3, <1>4
<1> QED
  BY <1>1, <1>2, <1>3, <1>4, <1>5, Zenon DEF list, x, y, z, Asked

\* As it is sent, and as it is opened.
Carried(inner, wrapped) ==
    IF wrapped THEN Message!Encoded(<<Message!Bytes(1, inner)>>) ELSE inner
OpenedOf(data) ==
    Message!FieldsOf(IF Message!Unwrap(data, 1) = <<>> THEN data
                     ELSE Message!Unwrap(data, 1)[1], Len(data))

LEMMA ChallengeOpened ==
    ASSUME NEW nonce \in Message!Texts, NEW hash \in {0, 1}, NEW algorithm \in {0, 1},
           NEW wrapped \in BOOLEAN
    PROVE  OpenedOf(Carried(Message!Encoded(Asked(nonce, hash, algorithm)), wrapped))
             = Asked(nonce, hash, algorithm)
<1> DEFINE list == Asked(nonce, hash, algorithm)
           inner == Message!Encoded(list)
           data == Carried(inner, wrapped)
<1>1. /\ list \in Seq(Field) /\ list # <<>> /\ Len(list) = 3 /\ DOMAIN list = {1, 2, 3}
      /\ \A k \in {1, 2, 3} : list[k].field = k /\ Short(list[k])
      /\ list[1].type = 0
  BY AskedIs
<1> HIDE DEF list
<1>2. inner \in Seq(Byte) /\ Len(inner) \in Nat /\ Len(inner) <= 1000 /\ inner \in Blob
  <2>1. \A k \in 1 .. Len(list) : k \in {1, 2, 3}
    BY <1>1
  <2>2. inner \in Seq(Byte) /\ Len(inner) \in Nat /\ Len(inner) <= 150 * Len(list)
    BY <1>1, <2>1, ShortList
  <2>3. Len(inner) <= 1000
    BY <1>1, <2>2
  <2> QED
    BY <2>2, <2>3, Blobs
<1>3. CASE wrapped
  <2>1. data = Message!Encoded(<<Message!Bytes(1, inner)>>)
    BY <1>3 DEF Carried
  <2> HIDE DEF data
  <2>2. Message!Unwrap(data, 1) = <<inner>> /\ Len(data) \in Nat /\ Len(data) >= Len(inner)
    BY <1>2, <2>1, WrapperOpened
  <2>3. Enough(Len(data), inner)
    BY <2>2 DEF Enough
  <2>4. Message!FieldsOf(inner, Len(data)) = list
    BY <1>1, <2>3, ListRead
  <2>5. <<inner>> # <<>> /\ <<inner>>[1] = inner
    OBVIOUS
  <2> HIDE DEF inner
  <2>6. OpenedOf(data) = Message!FieldsOf(inner, Len(data))
    BY <2>2, <2>5 DEF OpenedOf
  <2> QED
    BY <2>4, <2>6 DEF data, list, inner
<1>4. CASE ~wrapped
  <2>1. data = inner
    BY <1>4 DEF Carried
  <2>2. Message!Unwrap(inner, 1) = <<>>
    <3>1. \A j \in DOMAIN list : ~(list[j].field = 1 /\ list[j].type = 2)
      BY <1>1
    <3> QED
      BY <1>1, <3>1, UnwrapNone
  <2>3. Enough(Len(inner), inner)
    BY <1>2 DEF Enough
  <2>4. Message!FieldsOf(inner, Len(inner)) = list
    BY <1>1, <2>3, ListRead
  <2> HIDE DEF inner
  <2>5. OpenedOf(inner) = Message!FieldsOf(inner, Len(inner))
    BY <2>2 DEF OpenedOf
  <2> QED
    BY <2>1, <2>4, <2>5 DEF data, list, inner
<1> QED
  BY <1>3, <1>4

\* What the reply has: the nonce and the algorithm only if there is one.
Response(nonce, hash) ==
    <<Message!Bytes(1, Message!Signed(nonce, hash)), Message!Bytes(2, Message!Certificate),
      Message!Bytes(3, Message!Certificate), Message!Num(4, 1)>>
    \o (IF nonce = <<>> THEN <<>> ELSE <<Message!Bytes(5, nonce)>>)
    \o (IF hash = 0 THEN <<>> ELSE <<Message!Num(6, hash)>>)

LEMMA LenOfTwo ==
    ASSUME NEW d \in Seq(Byte), NEW e \in Seq(Byte)
    PROVE  d \o e \in Seq(Byte) /\ Len(d \o e) = Len(d) + Len(e)
  OBVIOUS

LEMMA SignatureBytes ==
    ASSUME NEW nonce \in Message!Texts, NEW hash \in {0, 1}
    PROVE  /\ Message!Signed(nonce, hash) = Message!Signature(nonce, hash)
           /\ Message!Signed(nonce, hash) \in Seq(Byte)
           /\ Len(Message!Signed(nonce, hash)) <= 140
<1> DEFINE h == 200 + hash
           d == <<h>>
           e == <<48>>
<1>1. nonce \in Seq(Byte) /\ Len(nonce) \in Nat /\ Len(nonce) <= 128
  BY TextBytes
<1>2. h \in Byte /\ 48 \in Byte
  BY DEF Byte
<1> HIDE DEF h
<1>3. d \in Seq(Byte) /\ Len(d) = 1 /\ e \in Seq(Byte) /\ Len(e) = 1
  BY <1>2
<1>4. Message!Signature(nonce, hash) = d \o nonce \o e
  BY Zenon DEF Message!Signature, Message!Certificate, h
<1> HIDE DEF d, e
<1>5. d \o nonce \in Seq(Byte) /\ Len(d \o nonce) = Len(d) + Len(nonce)
  BY <1>1, <1>3, LenOfTwo
<1> DEFINE c == d \o nonce
           n == Len(nonce)
<1>6. c \in Seq(Byte) /\ Len(c) = 1 + n /\ n \in Nat /\ n <= 128
  BY <1>1, <1>3, <1>5
<1> HIDE DEF c, n
<1>7. c \o e \in Seq(Byte) /\ Len(c \o e) = 1 + n + 1
  <2>1. c \o e \in Seq(Byte) /\ Len(c \o e) = Len(c) + Len(e)
    BY <1>3, <1>6, LenOfTwo
  <2> QED
    BY <1>3, <1>6, <2>1
<1>8. Message!Signature(nonce, hash) \in Seq(Byte) /\ Len(Message!Signature(nonce, hash)) <= 140
  <2>1. Message!Signature(nonce, hash) = c \o e
    BY <1>4 DEF c
  <2>2. 1 + n + 1 <= 140
    BY <1>6
  <2> QED
    BY <1>7, <2>1, <2>2
<1>9. Message!Signed(nonce, hash) = Message!Signature(nonce, hash)
  BY DEF Message!Signed
<1> QED
  BY <1>8, <1>9

\* One field behind others.
LEMMA OneBehind ==
    ASSUME NEW d \in Seq(Field), NEW x \in Field
    PROVE  /\ d \o <<x>> \in Seq(Field) /\ Len(d \o <<x>>) = Len(d) + 1
           /\ d \o <<x>> # <<>> /\ DOMAIN (d \o <<x>>) = 1 .. Len(d) + 1
           /\ \A k \in 1 .. Len(d) : (d \o <<x>>)[k] = d[k]
           /\ (d \o <<x>>)[Len(d) + 1] = x
  OBVIOUS

LEMMA NoneBehind ==
    ASSUME NEW d \in Seq(Field)
    PROVE  d \o <<>> = d
  OBVIOUS

\* A list with the four first fields of a reply, then others.
Reads(list, by, nonce, hash) ==
    /\ list \in Seq(Field) /\ list # <<>> /\ Len(list) <= 6
    /\ \A k \in 1 .. Len(list) : Short(list[k])
    /\ Message!LastOf(list, 1, 2, <<>>) = by
    /\ Message!LastOf(list, 5, 2, <<>>) = nonce
    /\ Message!LastOf(list, 6, 0, 0) = hash

\* A list of fields of which each has a number of its own.
Numbered(list) ==
    /\ list \in Seq(Field) /\ list # <<>> /\ Len(list) <= 6
    /\ \A k \in 1 .. Len(list) : Short(list[k])
    /\ \A j, k \in 1 .. Len(list) : j # k => list[j].field # list[k].field

LEMMA NumberedMore ==
    ASSUME NEW d, Numbered(d), Len(d) <= 5, NEW x \in Field, Short(x),
           \A k \in 1 .. Len(d) : d[k].field # x.field
    PROVE  /\ Numbered(d \o <<x>>) /\ Len(d \o <<x>>) = Len(d) + 1
           /\ \A k \in 1 .. Len(d) : (d \o <<x>>)[k] = d[k]
           /\ (d \o <<x>>)[Len(d) + 1] = x
<1> DEFINE r == d \o <<x>>
           n == Len(d)
<1>1. d \in Seq(Field) /\ n \in Nat /\ n <= 5 /\ Len(d) = n
  BY DEF Numbered
<1>2. /\ r \in Seq(Field) /\ Len(r) = n + 1 /\ r # <<>>
      /\ \A k \in 1 .. n : r[k] = d[k]
      /\ r[n + 1] = x
  BY <1>1, OneBehind
<1> HIDE DEF r, n
<1>3. \A k \in 1 .. n + 1 : k \in 1 .. n \/ k = n + 1
  BY <1>1
<1>4. \A k \in 1 .. n + 1 : Short(r[k])
  BY <1>1, <1>2, <1>3 DEF Numbered
<1>5. ASSUME NEW j \in 1 .. n + 1, NEW k \in 1 .. n + 1, j # k
      PROVE  r[j].field # r[k].field
  <2>1. CASE j \in 1 .. n /\ k \in 1 .. n
    BY <1>1, <1>2, <1>5, <2>1 DEF Numbered
  <2>2. CASE j \in 1 .. n /\ k = n + 1
    BY <1>1, <1>2, <2>2
  <2>3. CASE j = n + 1 /\ k \in 1 .. n
    BY <1>1, <1>2, <2>3
  <2> QED
    BY <1>3, <1>5, <2>1, <2>2, <2>3
<1>6. Len(r) <= 6
  BY <1>1, <1>2
<1>7. Numbered(r)
  BY <1>2, <1>4, <1>5, <1>6 DEF Numbered
<1> QED
  BY <1>2, <1>7 DEF r, n

LEMMA NumberedLast ==
    ASSUME NEW list, Numbered(list), NEW f, NEW type, NEW default
    PROVE  /\ \A i \in 1 .. Len(list) : list[i].field = f /\ list[i].type = type
                    => Message!LastOf(list, f, type, default) = list[i].value
           /\ (\A i \in 1 .. Len(list) : list[i].field # f)
                    => Message!LastOf(list, f, type, default) = default
<1>1. DOMAIN list = 1 .. Len(list) /\ DOMAIN list \subseteq Int
  BY DEF Numbered
<1>2. ASSUME NEW i \in 1 .. Len(list), list[i].field = f, list[i].type = type
      PROVE  Message!LastOf(list, f, type, default) = list[i].value
  <2>1. \A j \in DOMAIN list : j # i => ~(list[j].field = f /\ list[j].type = type)
    BY <1>1, <1>2 DEF Numbered
  <2>2. i \in DOMAIN list
    BY <1>1
  <2> QED
    BY <1>1, <1>2, <2>1, <2>2, LastIs
<1>3. ASSUME \A i \in 1 .. Len(list) : list[i].field # f
      PROVE  Message!LastOf(list, f, type, default) = default
  BY <1>1, <1>3, LastNone
<1> QED
  BY <1>2, <1>3

LEMMA ResponseIs ==
    ASSUME NEW nonce \in Message!Texts, NEW hash \in {0, 1}
    PROVE  Reads(Response(nonce, hash), Message!Signature(nonce, hash), nonce, hash)
<1> DEFINE by == Message!Signature(nonce, hash)
           y1 == Message!Bytes(1, Message!Signed(nonce, hash))
           y2 == Message!Bytes(2, Message!Certificate)
           y3 == Message!Bytes(3, Message!Certificate)
           y4 == Message!Num(4, 1)
           y5 == Message!Bytes(5, nonce)
           y6 == Message!Num(6, hash)
           d == <<y1, y2, y3, y4>>
           c == d \o (IF nonce = <<>> THEN <<>> ELSE <<y5>>)
           r == c \o (IF hash = 0 THEN <<>> ELSE <<y6>>)
           Fits(y, f) == y \in Field /\ Short(y) /\ y.field = f
<1>1. Fits(y1, 1) /\ y1.type = 2 /\ y1.value = by
  <2> DEFINE b == Message!Signed(nonce, hash)
  <2>1. b \in Seq(Byte) /\ Len(b) <= 140 /\ b = by
    BY SignatureBytes
  <2> HIDE DEF b
  <2>2. Len(b) \in Nat
    BY <2>1
  <2>3. Len(b) <= 1000
    BY <2>1, <2>2
  <2>4. b \in Blob
    BY <2>1, <2>3, Blobs
  <2>5. /\ Message!Bytes(1, b) \in Field /\ Short(Message!Bytes(1, b))
        /\ Message!Bytes(1, b).field = 1 /\ Message!Bytes(1, b).type = 2
        /\ Message!Bytes(1, b).value = b
    BY <2>1, <2>4, BytesField
  <2> QED
    BY <2>1, <2>5 DEF b
<1>2. Fits(y2, 2) /\ Fits(y3, 3)
  <2> DEFINE b == Message!Certificate
  <2>1. b \in Seq(Byte) /\ Len(b) = 1
    BY ByteValues DEF Message!Certificate
  <2> HIDE DEF b
  <2>2. Len(b) <= 1000 /\ Len(b) <= 140
    BY <2>1
  <2>3. b \in Blob
    BY <2>1, <2>2, Blobs
  <2>4. /\ Message!Bytes(2, b) \in Field /\ Short(Message!Bytes(2, b))
        /\ Message!Bytes(2, b).field = 2
    BY <2>2, <2>3, BytesField
  <2>5. /\ Message!Bytes(3, b) \in Field /\ Short(Message!Bytes(3, b))
        /\ Message!Bytes(3, b).field = 3
    BY <2>2, <2>3, BytesField
  <2> QED
    BY <2>4, <2>5 DEF b
<1>3. Fits(y4, 4)
  BY NumField, SmallWords
<1>4. Fits(y5, 5) /\ y5.type = 2 /\ y5.value = nonce
  <2>1. nonce \in Seq(Byte) /\ Len(nonce) \in Nat /\ Len(nonce) <= 128
    BY TextBytes
  <2>2. Len(nonce) <= 140 /\ Len(nonce) <= 1000
    BY <2>1
  <2>3. nonce \in Blob
    BY <2>1, <2>2, Blobs
  <2> QED
    BY <2>2, <2>3, BytesField
<1>5. Fits(y6, 6) /\ y6.type = 0 /\ y6.value = hash
  <2>1. hash \in Word
    BY SmallWords
  <2> QED
    BY <2>1, NumField
<1>6. Response(nonce, hash) = r
  BY Zenon DEF Response
<1> HIDE DEF by, y1, y2, y3, y4, y5, y6
<1>7. /\ d \in Seq(Field) /\ Len(d) = 4 /\ d # <<>>
      /\ d[1] = y1 /\ d[2] = y2 /\ d[3] = y3 /\ d[4] = y4
  BY <1>1, <1>2, <1>3
<1> HIDE DEF d
<1>8. \A k \in 1 .. 4 : Short(d[k]) /\ d[k].field = k
  BY <1>1, <1>2, <1>3, <1>7
<1>9. Numbered(d) /\ Len(d) <= 5
  BY <1>7, <1>8 DEF Numbered
\* A list that begins as this, of so many fields.
<1> DEFINE HasFour(l, n) == /\ Numbered(l) /\ Len(l) = n
                          /\ l[1].field = 1 /\ l[1].type = 2 /\ l[1].value = by
                          /\ \A k \in 1 .. 4 : l[k].field = k
<1>10. HasFour(d, 4)
  BY <1>1, <1>7, <1>8, <1>9
<1>11. ASSUME NEW l, HasFour(l, 4) \/ HasFour(l, 5), NEW x, NEW f \in {5, 6}, Fits(x, f),
              Len(l) = 5 => l[5].field # f
       PROVE  HasFour(l \o <<x>>, Len(l) + 1) /\ (l \o <<x>>)[Len(l) + 1] = x
  <2> DEFINE n == Len(l)
             m == l \o <<x>>
  <2>0. Numbered(l) /\ (n = 4 \/ n = 5) /\ \A k \in 1 .. 4 : l[k].field = k
    BY <1>11
  <2> HIDE DEF n
  <2>1. Numbered(l) /\ n \in {4, 5} /\ n <= 5
    BY <2>0
  <2>2. \A k \in 1 .. n : l[k].field # f
    <3>0. n \in Int
      BY <2>1
    <3>1. \A k \in 1 .. n : k \in 1 .. 4 \/ (k = 5 /\ n = 5)
      BY <2>1, <3>0
    <3>2. f \in {5, 6} /\ (n = 5 => l[5].field # f)
      BY <1>11 DEF n
    <3> QED
      BY <2>0, <3>1, <3>2
  <2>3. /\ Numbered(m) /\ Len(m) = n + 1 /\ m[n + 1] = x
        /\ \A k \in 1 .. n : m[k] = l[k]
    BY <1>11, <2>1, <2>2, NumberedMore DEF n
  <2> HIDE DEF m
  <2>4. \A k \in 1 .. 4 : k \in 1 .. n
    BY <2>1
  <2>5. m[1] = l[1] /\ \A k \in 1 .. 4 : m[k] = l[k]
    BY <2>3, <2>4
  <2> QED
    BY <1>11, <2>3, <2>5 DEF m, n
<1>12. \E l : /\ l = c /\ HasFour(l, IF nonce = <<>> THEN 4 ELSE 5)
              /\ nonce # <<>> => l[5] = y5
  <2>1. CASE nonce = <<>>
    <3>1. c = d
      BY <1>7, <2>1, NoneBehind
    <3> QED
      BY <1>10, <2>1, <3>1
  <2>2. CASE nonce # <<>>
    <3>1. c = d \o <<y5>>
      BY <2>2
    <3>2. Len(d) = 4 /\ ~(Len(d) = 5)
      BY <1>7
    <3>3. HasFour(d \o <<y5>>, Len(d) + 1) /\ (d \o <<y5>>)[Len(d) + 1] = y5
      <4> HIDE DEF HasFour, Fits
      <4> QED
        BY <1>4, <1>10, <1>11, <3>2
    <3> HIDE DEF HasFour, c
    <3>4. Len(d) + 1 = 5
      BY <3>2
    <3> QED
      BY <2>2, <3>1, <3>3, <3>4
  <2> QED
    BY <2>1, <2>2
<1>13. PICK l : /\ l = c /\ HasFour(l, IF nonce = <<>> THEN 4 ELSE 5)
                /\ nonce # <<>> => l[5] = y5
  BY <1>12
<1> HIDE DEF c
<1> DEFINE n == IF nonce = <<>> THEN 4 ELSE 5
<1>14. /\ Numbered(l) /\ Len(l) = n /\ l[1].field = 1 /\ l[1].type = 2 /\ l[1].value = by
       /\ \A k \in 1 .. 4 : l[k].field = k
       /\ nonce # <<>> => l[5] = y5 /\ l[5].field = 5
  BY <1>4, <1>13
<1>15. CASE hash = 0
  <2>1. r = l
    <3>1. r = l \o <<>>
      BY <1>13, <1>15
    <3>2. l \in Seq(Field)
      BY <1>14 DEF Numbered
    <3> QED
      BY <3>1, <3>2, NoneBehind
  <2>2. Message!LastOf(l, 1, 2, <<>>) = by
    <3>1. 1 \in 1 .. Len(l)
      BY <1>14
    <3> QED
      BY <1>14, <3>1, NumberedLast
  <2>3. \A k \in 1 .. Len(l) : k \in 1 .. 4 \/ (k = 5 /\ nonce # <<>>)
    BY <1>14
  <2>4. Message!LastOf(l, 5, 2, <<>>) = nonce
    <3>1. CASE nonce = <<>>
      <4>1. \A k \in 1 .. Len(l) : l[k].field # 5
        BY <1>14, <2>3, <3>1
      <4> QED
        BY <1>14, <3>1, <4>1, NumberedLast
    <3>2. CASE nonce # <<>>
      <4>1. 5 \in 1 .. Len(l) /\ l[5].field = 5 /\ l[5].type = 2 /\ l[5].value = nonce
        BY <1>4, <1>14, <3>2
      <4> QED
        BY <1>14, <4>1, NumberedLast
    <3> QED
      BY <3>1, <3>2
  <2>5. Message!LastOf(l, 6, 0, 0) = hash
    <3>1. \A k \in 1 .. Len(l) : l[k].field # 6
      BY <1>14, <2>3
    <3> QED
      BY <1>14, <1>15, <3>1, NumberedLast
  <2>6. l \in Seq(Field) /\ l # <<>> /\ Len(l) <= 6 /\ \A k \in 1 .. Len(l) : Short(l[k])
    BY <1>14 DEF Numbered
  <2>7. Reads(l, by, nonce, hash)
    BY <2>2, <2>4, <2>5, <2>6, Zenon DEF Reads
  <2> QED
    BY <1>6, <2>1, <2>7 DEF by
<1>16. CASE hash = 1
  <2> DEFINE m == l \o <<y6>>
  <2>1. r = m
    BY <1>13, <1>16
  <2>2. n \in {4, 5} /\ (nonce = <<>> <=> n = 4)
    OBVIOUS
  <2> HIDE DEF n
  <2>3. /\ Numbered(m) /\ Len(m) = n + 1 /\ m[n + 1] = y6
        /\ \A k \in 1 .. n : m[k] = l[k]
    <3>1. \A k \in 1 .. Len(l) : k \in 1 .. 4 \/ (k = 5 /\ nonce # <<>>)
      BY <1>14, <2>2
    <3>2. \A k \in 1 .. Len(l) : l[k].field # y6.field
      BY <1>5, <1>14, <3>1
    <3>3. y6 \in Field /\ Short(y6) /\ Len(l) <= 5
      BY <1>5, <1>14, <2>2
    <3> QED
      BY <1>14, <3>2, <3>3, NumberedMore
  <2> HIDE DEF m
  <2>4. m[1] = l[1] /\ \A k \in 1 .. 4 : m[k] = l[k]
    <3>1. \A k \in 1 .. 4 : k \in 1 .. n
      BY <2>2
    <3> QED
      BY <2>3, <3>1
  <2>5. Message!LastOf(m, 1, 2, <<>>) = by
    <3>1. 1 \in 1 .. Len(m)
      BY <2>2, <2>3
    <3> QED
      BY <1>14, <2>3, <2>4, <3>1, NumberedLast
  <2>6. Message!LastOf(m, 6, 0, 0) = hash
    <3>1. n + 1 \in 1 .. Len(m)
      BY <2>2, <2>3
    <3>2. m[n + 1].field = 6 /\ m[n + 1].type = 0 /\ m[n + 1].value = hash
      BY <1>5, <2>3
    <3> QED
      BY <2>3, <3>1, <3>2, NumberedLast
  <2>7. Message!LastOf(m, 5, 2, <<>>) = nonce
    <3>1. CASE nonce = <<>>
      <4>1. n = 4
        BY <2>2, <3>1
      <4>2. \A k \in 1 .. Len(m) : k \in 1 .. 4 \/ k = 5
        BY <2>3, <4>1
      <4>3. \A k \in 1 .. 4 : m[k].field = k
        BY <1>14, <2>4
      <4>4. m[5].field = 6
        BY <1>5, <2>3, <4>1
      <4>5. \A k \in 1 .. Len(m) : m[k].field # 5
        BY <4>2, <4>3, <4>4
      <4> QED
        BY <2>3, <3>1, <4>5, NumberedLast
    <3>2. CASE nonce # <<>>
      <4>1. n = 5
        BY <2>2, <3>2
      <4>2. 5 \in 1 .. Len(m) /\ 5 \in 1 .. n
        BY <2>3, <4>1
      <4>3. m[5] = y5
        BY <1>14, <2>3, <3>2, <4>2
      <4>4. m[5].field = 5 /\ m[5].type = 2 /\ m[5].value = nonce
        BY <1>4, <4>3
      <4> QED
        BY <2>3, <4>2, <4>4, NumberedLast
    <3> QED
      BY <3>1, <3>2
  <2>8. m \in Seq(Field) /\ m # <<>> /\ Len(m) <= 6 /\ \A k \in 1 .. Len(m) : Short(m[k])
    BY <2>3 DEF Numbered
  <2>9. Reads(m, by, nonce, hash)
    BY <2>5, <2>6, <2>7, <2>8, Zenon DEF Reads
  <2> QED
    BY <1>6, <2>1, <2>9 DEF by
<1> QED
  BY <1>15, <1>16

LEMMA ChallengeBegins == Message!Init => Message!ChallengeMet
  BY DEF Message!Init, Message!ChallengeMet

\* What is signed, as the sender reads it of the bytes that come back.
Answer(read) ==
    LET list == Message!FieldsOf(Message!Unwrap(Message!Reply(read), 2)[1], 5) IN
    [by |-> Message!LastOf(list, 1, 2, <<>>), nonce |-> Message!LastOf(list, 5, 2, <<>>),
     hash |-> Message!LastOf(list, 6, 0, 0)]

LEMMA AnswerIs ==
    ASSUME NEW nonce \in Message!Texts, NEW hash \in {0, 1}, NEW algorithm \in {0, 1}
    PROVE  Answer(Asked(nonce, hash, algorithm))
             = [by |-> Message!Signature(nonce, hash), nonce |-> nonce, hash |-> hash]
<1> DEFINE list == Asked(nonce, hash, algorithm)
           r == Response(nonce, hash)
           body == Message!Encoded(r)
           reply == Message!Encoded(<<Message!Bytes(2, body)>>)
<1>1. /\ list \in Seq(Field) /\ DOMAIN list = {1, 2, 3}
      /\ \A k \in {1, 2, 3} : list[k].field = k
      /\ list[2].type = 2 /\ list[3].type = 0 /\ list[2].value = nonce /\ list[3].value = hash
  BY AskedIs
<1> HIDE DEF list
<1>2. Message!LastOf(list, 2, 2, <<>>) = nonce
  <2>1. 2 \in DOMAIN list /\ DOMAIN list \subseteq Int
    BY <1>1
  <2>2. \A j \in DOMAIN list : j # 2 => ~(list[j].field = 2 /\ list[j].type = 2)
    BY <1>1
  <2> QED
    BY <1>1, <2>1, <2>2, LastIs
<1>3. Message!LastOf(list, 3, 0, 0) = hash
  <2>1. 3 \in DOMAIN list /\ DOMAIN list \subseteq Int
    BY <1>1
  <2>2. \A j \in DOMAIN list : j # 3 => ~(list[j].field = 3 /\ list[j].type = 0)
    BY <1>1
  <2> QED
    BY <1>1, <2>1, <2>2, LastIs
<1>4. (IF Message!LastOf(list, 3, 0, 0) = 1 THEN 1 ELSE 0) = hash
  BY <1>3
<1>5. Message!Reply(list) = reply
  BY <1>2, <1>4, Zenon DEF Message!Reply, Response
<1>6. Reads(r, Message!Signature(nonce, hash), nonce, hash)
  BY ResponseIs
<1> HIDE DEF r
<1>7. body \in Seq(Byte) /\ body \in Blob
  <2>1. r \in Seq(Field) /\ r # <<>> /\ Len(r) <= 6 /\ \A k \in 1 .. Len(r) : Short(r[k])
    BY <1>6 DEF Reads
  <2>2. body \in Seq(Byte) /\ Len(body) \in Nat /\ Len(body) <= 150 * Len(r)
    BY <2>1, ShortList
  <2>3. Len(body) <= 1000
    <3>1. Len(r) \in Nat
      BY <2>1
    <3> HIDE DEF body
    <3> QED
      BY <2>1, <2>2, <3>1
  <2> QED
    BY <2>2, <2>3, Blobs
<1>8. Message!FieldsOf(body, 5) = r
  <2>1. Enough(5, body)
    BY DEF Enough
  <2>2. r \in Seq(Field) /\ r # <<>>
    BY <1>6 DEF Reads
  <2> QED
    BY <2>1, <2>2, ListRead
<1> HIDE DEF body
<1>9. Message!Unwrap(reply, 2) = <<body>>
  BY <1>7, WrapperOpened
<1> HIDE DEF reply
<1>10. Message!Unwrap(Message!Reply(list), 2)[1] = body
  BY <1>5, <1>9
<1>11. Answer(list) = [by |-> Message!LastOf(r, 1, 2, <<>>),
                       nonce |-> Message!LastOf(r, 5, 2, <<>>),
                       hash |-> Message!LastOf(r, 6, 0, 0)]
  BY <1>8, <1>10, Zenon DEF Answer
<1> QED
  BY <1>6, <1>11 DEF Reads, list

LEMMA ChallengeKept ==
    ASSUME Message!ChallengeMet, Message!Next  PROVE Message!ChallengeMet'
<1>1. CASE Message!Challenge
  <2>1. PICK nonce \in Message!Texts, hash \in {0, 1}, wrapped \in BOOLEAN,
             algorithm \in {0, 1} :
          \E inner \in {Message!Encoded(Asked(nonce, hash, algorithm))} :
          \E data \in {Carried(inner, wrapped)} :
          \E opened \in {Message!Unwrap(data, 1)} :
          \E read \in {Message!FieldsOf(IF opened = <<>> THEN data ELSE opened[1], Len(data))} :
          \E reply \in {Message!Reply(read)} :
          \E body \in {Message!Unwrap(reply, 2)[1]} :
          \E list \in {Message!FieldsOf(body, 5)} :
              /\ challenge' = <<nonce, hash>>
              /\ signed' = [by |-> Message!LastOf(list, 1, 2, <<>>),
                            nonce |-> Message!LastOf(list, 5, 2, <<>>),
                            hash |-> Message!LastOf(list, 6, 0, 0)]
    BY <1>1, Zenon DEF Message!Challenge, Carried, Asked
  <2> DEFINE data == Carried(Message!Encoded(Asked(nonce, hash, algorithm)), wrapped)
  <2>2. PICK opened \in {Message!Unwrap(data, 1)} :
          \E read \in {Message!FieldsOf(IF opened = <<>> THEN data ELSE opened[1], Len(data))} :
          \E reply \in {Message!Reply(read)} :
          \E body \in {Message!Unwrap(reply, 2)[1]} :
          \E list \in {Message!FieldsOf(body, 5)} :
              /\ challenge' = <<nonce, hash>>
              /\ signed' = [by |-> Message!LastOf(list, 1, 2, <<>>),
                            nonce |-> Message!LastOf(list, 5, 2, <<>>),
                            hash |-> Message!LastOf(list, 6, 0, 0)]
    BY <2>1
  <2>3. \E read \in {OpenedOf(data)} :
          challenge' = <<nonce, hash>> /\ signed' = Answer(read)
    BY <2>2 DEF OpenedOf, Answer
  <2>4. challenge' = <<nonce, hash>> /\ signed' = Answer(OpenedOf(data))
    BY <2>3
  <2>5. signed' = [by |-> Message!Signature(nonce, hash), nonce |-> nonce, hash |-> hash]
    BY <2>4, ChallengeOpened, AnswerIs
  <2>6. challenge'[1] = nonce /\ challenge'[2] = hash
    BY <2>4
  <2>7. /\ signed'.by = Message!Signature(nonce, hash) /\ signed'.nonce = nonce
        /\ signed'.hash = hash
    BY <2>5
  <2> QED
    BY <2>6, <2>7, Zenon DEF Message!ChallengeMet
<1>2. CASE challenge' = challenge /\ signed' = signed
  BY <1>2 DEF Message!ChallengeMet
<1> QED
  BY <1>1, <1>2, Zenon DEF Message!Next, Message!Receive, Message!Message, Message!wireVars

-----------------------------------------------------------------------------
(***************************************************************************)
(* The Cast receiver's own responder: the addresses, and how much is sent. *)
(***************************************************************************)
Chosen == found # <<>> => found = <<Mdns!LocalIp(adapters), Mdns!CastLocalIp(adapters)>>
CastInv ==
    /\ Mdns!CastTypeOK /\ Chosen
    /\ \E S, T : heard \in Seq(S) /\ sent \in Seq(T)

LEMMA CastBegins == Mdns!CastInit => CastInv
<1> SUFFICES ASSUME Mdns!CastInit  PROVE CastInv
  OBVIOUS
<1>1. /\ responder = "off" /\ found = <<>> /\ packet = <<>> /\ heard = <<>> /\ sent = <<>>
  BY Zenon DEF Mdns!CastInit, Mdns!Init
<1>2. heard \in Seq({}) /\ sent \in Seq({}) /\ Len(heard) = Len(sent)
  BY <1>1
<1> QED
  BY <1>1, <1>2 DEF CastInv, Chosen, Mdns!CastTypeOK

LEMMA CastKept ==
    ASSUME CastInv, Mdns!CastNext  PROVE CastInv'
<1>1. PICK S, T : heard \in Seq(S) /\ sent \in Seq(T)
  BY DEF CastInv
<1>2. CASE Mdns!CastStart
  <2>1. /\ responder = "off" /\ responder' \in {"failed", "found"}
        /\ found' = <<Mdns!LocalIp(adapters'), Mdns!CastLocalIp(adapters')>>
        /\ packet' = packet /\ heard' = heard /\ sent' = sent
    BY <1>2 DEF Mdns!CastStart, Mdns!mdnsVars
  <2>2. Chosen'
    BY <2>1, Zenon DEF Chosen
  <2>3. Mdns!CastTypeOK'
    BY <2>1 DEF CastInv, Mdns!CastTypeOK
  <2> QED
    BY <1>1, <2>1, <2>2, <2>3 DEF CastInv
<1>3. CASE Mdns!CastListen
  <2>1. /\ responder = "found" /\ responder' \in {"run", "failed"} /\ found' = <<>>
        /\ packet' = packet /\ heard' = heard /\ sent' = sent
    BY <1>3 DEF Mdns!CastListen, Mdns!mdnsVars
  <2>2. Chosen' /\ Mdns!CastTypeOK'
    BY <2>1 DEF CastInv, Mdns!CastTypeOK, Chosen
  <2> QED
    BY <1>1, <2>1, <2>2 DEF CastInv
<1>4. CASE Mdns!CastReceive
  <2>1. /\ responder = "run" /\ responder' = responder /\ found' = found
        /\ adapters' = adapters /\ heard' = heard /\ sent' = sent
    BY <1>4, Zenon DEF Mdns!CastReceive, Mdns!castKeeps
  <2>2. Chosen' /\ Mdns!CastTypeOK'
    BY <2>1 DEF CastInv, Mdns!CastTypeOK, Chosen
  <2> QED
    BY <1>1, <2>1, <2>2 DEF CastInv
<1>5. CASE Mdns!CastHear
  <2>1. /\ packet' = packet /\ responder' = responder /\ found' = found
        /\ adapters' = adapters
        /\ \E x, y : heard' = Append(heard, x) /\ sent' = Append(sent, y)
    BY <1>5, ZenonT(30) DEF Mdns!CastHear, Mdns!castKeeps
  <2>2. PICK x, y : heard' = Append(heard, x) /\ sent' = Append(sent, y)
    BY <2>1
  <2>3. heard' \in Seq(S \cup {x}) /\ Len(heard') = Len(heard) + 1
    BY <1>1, <2>2
  <2>4. sent' \in Seq(T \cup {y}) /\ Len(sent') = Len(sent) + 1
    BY <1>1, <2>2
  <2>5. Chosen' /\ Mdns!CastTypeOK'
    BY <2>1, <2>3, <2>4 DEF CastInv, Mdns!CastTypeOK, Chosen
  <2> QED
    BY <2>3, <2>4, <2>5 DEF CastInv
<1>6. CASE Mdns!CastDone
  <2>1. /\ packet' = <<>> /\ heard' = <<>> /\ sent' = <<>> /\ responder' = responder
        /\ found' = found /\ adapters' = adapters
    BY <1>6, Zenon DEF Mdns!CastDone, Mdns!Done, Mdns!castKeeps
  <2>2. heard' \in Seq({}) /\ sent' \in Seq({}) /\ Len(heard') = Len(sent')
    BY <2>1
  <2>3. Chosen' /\ Mdns!CastTypeOK'
    BY <2>1, <2>2 DEF CastInv, Mdns!CastTypeOK, Chosen
  <2> QED
    BY <2>2, <2>3 DEF CastInv
<1> QED
  BY <1>2, <1>3, <1>4, <1>5, <1>6 DEF Mdns!CastNext

\* If nothing but private networks has a gateway, both choose among the same addresses.
LEMMA CastAgrees == CastInv => Mdns!AddressesAgree
<1> DEFINE u == Mdns!Usable(adapters)
           one == {i \in DOMAIN u : u[i].gateway}
           other == {i \in DOMAIN u : u[i].gateway /\ u[i].range \in {"private", "192"}}
<1> SUFFICES ASSUME CastInv, found # <<>>,
                    \A i \in DOMAIN u : u[i].gateway => u[i].range \in {"private", "192"}
             PROVE  found[1] = found[2]
  BY Zenon DEF Mdns!AddressesAgree
<1>1. found = <<Mdns!LocalIp(adapters), Mdns!CastLocalIp(adapters)>>
  BY Zenon DEF CastInv, Chosen
<1>2. Mdns!LocalIp(adapters) = Mdns!FirstOf(one, u)
  BY Zenon DEF Mdns!LocalIp
<1>3. Mdns!CastLocalIp(adapters) = Mdns!FirstOf(other, u)
  BY Zenon DEF Mdns!CastLocalIp
<1>4. one = other
  <2> HIDE DEF u
  <2> QED
    OBVIOUS
<1> HIDE DEF one, other, u
<1> QED
  BY <1>1, <1>2, <1>3, <1>4

-----------------------------------------------------------------------------
(* What the AirPlay responder says of a name that is somebody else's. *)

\* Each response is that to the name and the type that were read.
Responded ==
    /\ server_name \in Seq(Nat)
    /\ \E S, T : heard \in Seq(S) /\ sent \in Seq(T)
    /\ Len(heard) = Len(sent)
    /\ \A i \in 1 .. Len(sent) : sent[i] = Mdns!BuildResponse(heard[i].name, heard[i].type)

LEMMA RespondedKept ==
    ASSUME Responded, Mdns!Next  PROVE Responded'
<1>1. PICK S, T : heard \in Seq(S) /\ sent \in Seq(T)
  BY DEF Responded
<1>5. server_name' = server_name
  BY Zenon DEF Mdns!Next, Mdns!Receive, Mdns!Hear, Mdns!Done
<1>6. \A name, type : Mdns!BuildResponse(name, type)' = Mdns!BuildResponse(name, type)
  BY <1>5, Zenon DEF Mdns!BuildResponse, Mdns!AsksFor, Mdns!airplay_service, Mdns!raop_service
<1>2. CASE Mdns!Receive
  BY <1>2, <1>5, <1>6 DEF Mdns!Receive, Responded
<1>3. CASE Mdns!Done
  <2>1. heard' = <<>> /\ sent' = <<>>
    BY <1>3, Zenon DEF Mdns!Done
  <2>2. heard' \in Seq({}) /\ sent' \in Seq({}) /\ Len(heard') = 0 /\ Len(sent') = 0
    BY <2>1
  <2> QED
    BY <1>5, <2>2 DEF Responded
<1>4. CASE Mdns!Hear
  <2>1. PICK p \in {Mdns!ParseName(packet, offset)} :
            LET type == packet[p.offset + 1] * 256 + packet[p.offset + 2]
            IN  /\ heard' = Append(heard, [name |-> p.name, type |-> type])
                /\ sent' = Append(sent, Mdns!BuildResponse(p.name, type))
    BY <1>4, Zenon DEF Mdns!Hear
  <2> DEFINE type == packet[p.offset + 1] * 256 + packet[p.offset + 2]
             q == [name |-> p.name, type |-> type]
             r == Mdns!BuildResponse(p.name, type)
  <2>2. heard' = Append(heard, q) /\ sent' = Append(sent, r)
    BY <2>1, Zenon
  <2>3. r = Mdns!BuildResponse(q.name, q.type)
    <3> HIDE DEF type
    <3> QED
      OBVIOUS
  <2> HIDE DEF q, r
  <2>4. Len(heard) = Len(sent) /\ Len(sent) \in Nat
    BY <1>1 DEF Responded
  <2>5. heard' \in Seq(S \cup {q}) /\ sent' \in Seq(T \cup {r})
    <3>1. heard \in Seq(S \cup {q}) /\ sent \in Seq(T \cup {r})
      BY <1>1
    <3> QED
      BY <2>2, <3>1
  <2>6. Len(heard') = Len(heard) + 1 /\ Len(sent') = Len(sent) + 1
    BY <1>1, <2>2
  <2>7. ASSUME NEW i \in 1 .. Len(sent')
        PROVE  sent'[i] = Mdns!BuildResponse(heard'[i].name, heard'[i].type)
    <3>1. CASE i = Len(sent) + 1
      <4>1. sent'[i] = r /\ heard'[i] = q
        BY <1>1, <2>2, <2>4, <3>1
      <4> QED
        BY <2>3, <4>1
    <3>2. CASE i \in 1 .. Len(sent)
      <4>1. sent'[i] = sent[i] /\ heard'[i] = heard[i]
        BY <1>1, <2>2, <2>4, <3>2
      <4> QED
        BY <3>2, <4>1 DEF Responded
    <3> QED
      BY <2>4, <2>6, <3>1, <3>2
  <2> QED
    BY <1>5, <1>6, <2>4, <2>5, <2>6, <2>7 DEF Responded
<1> QED
  BY <1>2, <1>3, <1>4 DEF Mdns!Next

\* None of the responder's names is the other's, whatever the server's name is.
LEMMA NotOthers ==
    server_name \in Seq(Nat) =>
        /\ Mdns!Lower(Mdns!Others) # Mdns!services
        /\ ~Mdns!AsksFor(Mdns!Lower(Mdns!Others), Mdns!airplay_service, Mdns!airplay_type)
        /\ ~Mdns!AsksFor(Mdns!Lower(Mdns!Others), Mdns!raop_service, Mdns!raop_type)
        /\ Mdns!Lower(Mdns!Others) # Mdns!Lower(Mdns!hostname)
<1> DEFINE q == Mdns!Lower(Mdns!Others)
<1>1. DOMAIN q = 1 .. 3 /\ q[1] = 110
  BY DEF Mdns!Lower, Mdns!Others, Mdns!_n, Mdns!Dot, Mdns!_l
<1>2. Len(Mdns!services) = 5 /\ DOMAIN Mdns!services = 1 .. 5
  BY DEF Mdns!services, Mdns!_s, Mdns!Dot, Mdns!_t, Mdns!_l
<1>3. /\ Mdns!Lower(Mdns!airplay_type)[1] = 97 /\ Mdns!Lower(Mdns!raop_type)[1] = 114
      /\ Mdns!Lower(Mdns!hostname)[1] = 104
  BY DEF Mdns!Lower, Mdns!airplay_type, Mdns!raop_type, Mdns!hostname,
     Mdns!_a, Mdns!_r, Mdns!_h, Mdns!Dot, Mdns!_t, Mdns!_l
<1>4. HAVE server_name \in Seq(Nat)
<1>5. Mdns!airplay_type \in Seq(Nat) /\ Len(Mdns!airplay_type) = 5
  BY DEF Mdns!airplay_type, Mdns!_a, Mdns!Dot, Mdns!_t, Mdns!_l
<1>6. Mdns!raop_type \in Seq(Nat) /\ Len(Mdns!raop_type) = 5
  BY DEF Mdns!raop_type, Mdns!_r, Mdns!Dot, Mdns!_t, Mdns!_l
<1>7. <<Mdns!Dot>> \in Seq(Nat) /\ <<Mdns!_s>> \in Seq(Nat)
  BY DEF Mdns!Dot, Mdns!_s
<1>8. /\ Mdns!airplay_service \in Seq(Nat) /\ Len(Mdns!airplay_service) >= 6
      /\ Mdns!raop_service \in Seq(Nat) /\ Len(Mdns!raop_service) >= 6
  <2>1. (server_name \o <<Mdns!Dot>>) \in Seq(Nat)
        /\ Len(server_name \o <<Mdns!Dot>>) >= 1
    BY <1>4, <1>7
  <2>2. (<<Mdns!_s>> \o server_name) \in Seq(Nat)
    BY <1>4, <1>7
  <2>3. (<<Mdns!_s>> \o server_name \o <<Mdns!Dot>>) \in Seq(Nat)
        /\ Len(<<Mdns!_s>> \o server_name \o <<Mdns!Dot>>) >= 1
    BY <2>2, <1>7
  <2>4. ASSUME NEW s \in Seq(Nat), NEW t \in Seq(Nat), Len(s) >= 1, Len(t) = 5
        PROVE  (s \o t) \in Seq(Nat) /\ Len(s \o t) >= 6
    <3>1. (s \o t) \in Seq(Nat) /\ Len(s \o t) = Len(s) + Len(t) /\ Len(s) \in Nat
      OBVIOUS
    <3> QED
      BY <2>4, <3>1
  <2>5. Mdns!airplay_service = (server_name \o <<Mdns!Dot>>) \o Mdns!airplay_type
    BY Zenon DEF Mdns!airplay_service
  <2>6. Mdns!raop_service
          = (<<Mdns!_s>> \o server_name \o <<Mdns!Dot>>) \o Mdns!raop_type
    BY Zenon DEF Mdns!raop_service
  <2> QED
    BY <2>1, <2>3, <2>4, <2>5, <2>6, <1>5, <1>6, Zenon
<1>9. /\ DOMAIN Mdns!Lower(Mdns!airplay_service) = 1 .. Len(Mdns!airplay_service)
      /\ DOMAIN Mdns!Lower(Mdns!raop_service) = 1 .. Len(Mdns!raop_service)
  BY <1>8 DEF Mdns!Lower
<1>10. 6 \in DOMAIN Mdns!Lower(Mdns!airplay_service) /\ 6 \in DOMAIN Mdns!Lower(Mdns!raop_service)
  BY <1>8, <1>9
<1> HIDE DEF q
<1>11. q # Mdns!services /\ q # Mdns!Lower(Mdns!airplay_service)
       /\ q # Mdns!Lower(Mdns!raop_service)
  BY <1>1, <1>2, <1>10
<1>12. q # Mdns!Lower(Mdns!airplay_type) /\ q # Mdns!Lower(Mdns!raop_type)
       /\ q # Mdns!Lower(Mdns!hostname)
  BY <1>1, <1>3
<1> QED
  BY <1>11, <1>12, Zenon DEF q, Mdns!AsksFor

LEMMA OthersUnanswered ==
    server_name \in Seq(Nat) => \A type : Mdns!BuildResponse(Mdns!Others, type) = <<>>
<1> DEFINE q == Mdns!Lower(Mdns!Others)
<1>1. <<>> \o <<>> = <<>>
  OBVIOUS
<1> HAVE server_name \in Seq(Nat)
<1> TAKE type
<1> HIDE DEF q
<1>2. /\ q # Mdns!services /\ q # Mdns!Lower(Mdns!hostname)
      /\ ~Mdns!AsksFor(q, Mdns!airplay_service, Mdns!airplay_type)
      /\ ~Mdns!AsksFor(q, Mdns!raop_service, Mdns!raop_type)
  BY NotOthers, Zenon DEF q
<1> QED
  BY <1>1, <1>2, Zenon DEF q, Mdns!BuildResponse

LEMMA OwnNamesHold == Responded => Mdns!OwnNamesOnly
<1> SUFFICES ASSUME Responded, NEW i \in DOMAIN sent, heard[i].name = Mdns!Others
             PROVE  sent[i] = <<>>
  BY Zenon DEF Mdns!OwnNamesOnly
<1>1. i \in 1 .. Len(sent)
  BY DEF Responded
<1> QED
  BY <1>1, OthersUnanswered DEF Responded

-----------------------------------------------------------------------------
(* What was written is read, and what was asked is answered. *)

SaidInv == MessageInv /\ Message!FieldsRead /\ Message!ChallengeMet

LEMMA SaidKept ==
    ASSUME SaidInv, [Next]_vars  PROVE SaidInv'
<1>1. CASE part = "message" /\ Message!Next
  <2>1. Message!FieldsRead' /\ Message!ChallengeMet'
    BY <1>1, FieldsKept, ChallengeKept DEF SaidInv
  <2>2. CASE Message!Message
    BY <2>1, <2>2, MessageKept DEF SaidInv
  <2>3. CASE Message!Receive \/ Message!Challenge
    <3>1. UNCHANGED <<mirroring, transport, requests, replies>>
      BY <2>3, Zenon DEF Message!Receive, Message!Challenge, Message!castVars
    <3>2. MessageInv'
      BY <3>1 DEF SaidInv, MessageInv, Goes
    <3> QED
      BY <2>1, <3>2 DEF SaidInv
  <2> QED
    BY <1>1, <2>2, <2>3 DEF Message!Next
<1>2. CASE UNCHANGED messageV
  <2>1. UNCHANGED <<mirroring, transport, requests, replies, fields, got, challenge, signed>>
    BY <1>2 DEF messageV
  <2>2. MessageInv'
    BY <2>1 DEF SaidInv, MessageInv, Goes
  <2>3. Message!FieldsRead' /\ Message!ChallengeMet'
    BY <2>1 DEF SaidInv, Message!FieldsRead, Message!ChallengeMet
  <2> QED
    BY <2>2, <2>3 DEF SaidInv
<1> QED
  BY <1>1, <1>2, Zenon DEF Next, vars, castVs

LEMMA SaidBegins == Message!Init => SaidInv
  BY MessageBegins, FieldsBegin, ChallengeBegins DEF SaidInv

LEMMA SaidHolds ==
    SaidInv => Message!FieldsRead /\ Message!ChallengeMet /\ Message!RequestsAnswered
<1> SUFFICES ASSUME SaidInv
             PROVE  Message!FieldsRead /\ Message!ChallengeMet /\ Message!RequestsAnswered
  OBVIOUS
<1>1. requests \in Seq(Requests) /\ \A i \in 1 .. Len(requests) : Answered(requests, replies, i)
  BY DEF SaidInv, MessageInv
<1>2. \A i \in DOMAIN requests : Answered(requests, replies, i)
  BY <1>1
<1> QED
  BY <1>2, Restated DEF SaidInv

\* The invariants of the whole.
LEMMA SaidAlways == Spec => []SaidInv
<1>1. Init => SaidInv
  BY SaidBegins, Zenon DEF Init
<1> QED
  BY <1>1, SaidKept, PTL DEF Spec

LEMMA WebrtcAlways == Spec => []WebrtcInv
<1>1. Init => WebrtcInv
  BY WebrtcBegins, Zenon DEF Init
<1>2. WebrtcInv /\ [Next]_vars => WebrtcInv'
  <2>1. [Next]_vars => [Webrtc!Next]_webrtcV
    BY Zenon DEF Next, vars, castVs
  <2> QED
    BY <2>1, WebrtcKept
<1> QED
  BY <1>1, <1>2, PTL DEF Spec

Parts == {"rtsp", "pin", "verify", "server", "plist", "mdns", "cast", "message", "webrtc"}

LEMMA PartAlways == Spec => [](part \in Parts)
<1>1. Init => part \in Parts
  BY Zenon DEF Init, Parts
<1>2. part \in Parts /\ [Next]_vars => (part \in Parts)'
  BY Zenon DEF Next, vars
<1> QED
  BY <1>1, <1>2, PTL DEF Spec

CastOf == part = "cast" => CastInv

LEMMA CastAlways == Spec => []CastOf
<1>1. Init => CastOf
  BY CastBegins, Zenon DEF Init, CastOf
<1>2. CastOf /\ [Next]_vars => CastOf'
  <2> SUFFICES ASSUME CastOf, [Next]_vars, part' = "cast"  PROVE CastInv'
    BY Zenon DEF CastOf
  <2>1. part = "cast" /\ (Mdns!CastNext \/ UNCHANGED <<mdnsV, castV>>)
    BY Zenon DEF Next, vars, castVs
  <2>2. CastInv
    BY <2>1 DEF CastOf
  <2>3. CASE Mdns!CastNext
    BY <2>2, <2>3, CastKept
  <2>4. CASE UNCHANGED <<mdnsV, castV>>
    <3>1. UNCHANGED <<packet, heard, sent, responder, adapters, found>>
      BY <2>4 DEF mdnsV, castV
    <3> QED
      BY <2>2, <3>1 DEF CastInv, Chosen, Mdns!CastTypeOK
  <2> QED
    BY <2>1, <2>3, <2>4
<1> QED
  BY <1>1, <1>2, PTL DEF Spec

RespondedOf == part = "mdns" => Responded

LEMMA RespondedAlways == Spec => []RespondedOf
<1>1. Init => RespondedOf
  <2> SUFFICES ASSUME Init  PROVE Responded
    BY DEF RespondedOf
  <2>1. heard = <<>> /\ sent = <<>>
    BY Zenon DEF Init, Mdns!CastInit, Mdns!Init
  <2>2. heard \in Seq({}) /\ sent \in Seq({}) /\ Len(heard) = 0 /\ Len(sent) = 0
    BY <2>1
  <2>3. server_name \in Mdns!ServerNames
    BY Zenon DEF Init, Mdns!CastInit, Mdns!Init
  <2>4. server_name \in Seq(Nat)
    BY <2>3, MaxAssumption DEF Mdns!ServerNames, Mdns!Dot, Mdns!_n
  <2> QED
    BY <2>2, <2>4 DEF Responded
<1>2. RespondedOf /\ [Next]_vars => RespondedOf'
  <2> SUFFICES ASSUME RespondedOf, [Next]_vars, part' = "mdns"  PROVE Responded'
    BY Zenon DEF RespondedOf
  <2>1. part = "mdns" /\ (Mdns!Next \/ UNCHANGED mdnsV)
    BY Zenon DEF Next, vars
  <2>2. Responded
    BY <2>1 DEF RespondedOf
  <2>3. CASE Mdns!Next
    BY <2>2, <2>3, RespondedKept
  <2>4. CASE UNCHANGED mdnsV
    <3>1. server_name' = server_name /\ heard' = heard /\ sent' = sent
      BY <2>4 DEF mdnsV
    <3>2. \A name, type : Mdns!BuildResponse(name, type)' = Mdns!BuildResponse(name, type)
      BY <3>1, Zenon
      DEF Mdns!BuildResponse, Mdns!AsksFor, Mdns!airplay_service, Mdns!raop_service
    <3> QED
      BY <2>2, <3>1, <3>2 DEF Responded
  <2> QED
    BY <2>1, <2>3, <2>4
<1> QED
  BY <1>1, <1>2, PTL DEF Spec

(***************************************************************************)
(* The theorems.                                                           *)
(***************************************************************************)

\* The Cast receiver's messages: a frame's fields are read as a sender has written them,
\* the reply to a challenge returns its nonce and is signed as it asks, and every request
\* has its reply, with its number, and the status that it leads to, for any number of
\* requests (cast_proto.h, cast_receiver.cpp).  The WebRTC thread counts video only, and
\* with the sender's keys.
THEOREM MessagesServed == Spec => [](part \in {"message", "webrtc"} => MessagesRead)
<1>1. SaidInv /\ WebrtcInv => (part \in {"message", "webrtc"} => MessagesRead)
  BY SaidHolds, WebrtcHolds DEF MessagesRead
<1> QED
  BY <1>1, SaidAlways, WebrtcAlways, PTL

\* Both mDNS responders give the host one address, whatever adapters it has, if none but
\* those of private networks have a gateway (mdns_service.cpp, cast_receiver.cpp).
THEOREM OneAddress == Spec => [](part = "cast" => Mdns!AddressesAgree)
<1>1. CastOf => (part = "cast" => Mdns!AddressesAgree)
  BY CastAgrees DEF CastOf
<1> QED
  BY <1>1, CastAlways, PTL

\* The types of the parts, of all whose data are not themselves what is checked: for any
\* clients, PINs, connections, handles and requests.
THEOREM ControlTyped == Spec => [](part \notin {"plist", "mdns"} => TypeOK)
<1>1. Init => RtspInv /\ PinInv /\ VerifyInv /\ ServerInv
  BY RtspBegins, PinBegins, VerifyBegins, ServerBegins, Zenon DEF Init
<1>2. RtspInv /\ [Next]_vars => RtspInv'
  BY RtspTyped, RtspPlacesKept, FewHandlersKept, RtspEntriesKept DEF Next, vars, RtspInv
<1>3. PinInv /\ [Next]_vars => PinInv'
  BY PinKept DEF Next, vars
<1>4. VerifyInv /\ [Next]_vars => VerifyInv'
  BY VerifyKept DEF Next, vars
<1>5. ServerInv /\ [Next]_vars => ServerInv'
  BY ServerKept DEF Next, vars
<1>6. SaidInv => Message!TypeOK
  BY DEF SaidInv, MessageInv, Goes, Transports, Message!TypeOK
<1>7. ASSUME part \in Parts, RtspInv, PinInv, VerifyInv, ServerInv, CastOf, SaidInv, WebrtcInv
      PROVE  part \notin {"plist", "mdns"} => TypeOK
  <2> SUFFICES ASSUME part \notin {"plist", "mdns"}  PROVE TypeOK
    OBVIOUS
  <2>1. part \in {"rtsp", "pin", "verify", "server", "cast", "message", "webrtc"}
    BY <1>7 DEF Parts
  <2> QED
    BY <1>6, <1>7, <2>1
    DEF TypeOK, RtspInv, PinInv, VerifyInv, ServerInv, CastOf, CastInv, WebrtcInv
<1> QED
  BY <1>1, <1>2, <1>3, <1>4, <1>5, <1>7, PartAlways, SaidAlways, WebrtcAlways,
     CastAlways, PTL DEF Spec

\* The AirPlay responder answers nothing to a question for a name of somebody else,
\* however long the server's name is (mdns_service.cpp).
THEOREM OwnNames == Spec => [](part = "mdns" => Mdns!OwnNamesOnly)
<1>1. RespondedOf => (part = "mdns" => Mdns!OwnNamesOnly)
  BY OwnNamesHold DEF RespondedOf
<1> QED
  BY <1>1, RespondedAlways, PTL
=============================================================================
