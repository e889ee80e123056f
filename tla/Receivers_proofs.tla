---------------------------- MODULE Receivers_proofs ---------------------------
(***************************************************************************)
(* Proofs about MiracastReceiver, CastReceiver, WebcamDrawer and           *)
(* AudioOutput as MCReceivers composes them: for any set of layouts of a   *)
(* transport stream, any senders, cameras and detached threads, and any    *)
(* sizes of frames.                                                        *)
(***************************************************************************)
EXTENDS MCReceivers, Induction

(***************************************************************************)
(* Miracast.                                                               *)
(*                                                                         *)
(* What is sent either way is a queue, and the code does not match answers *)
(* with requests.  That a session streams only after the source granted it *)
(* therefore rests on there being one request under way at a time in each  *)
(* direction, and on the order in which messages of both directions stand  *)
(* in the queues: the invariant Exchange says which orders there can be.   *)
(***************************************************************************)

(***************************************************************************)
(* Queues of messages.                                                     *)
(***************************************************************************)

\* No message of S is in q; at most one is; every a stands before every b.
None(q, S) == \A i \in 1..Len(q) : q[i] \notin S
Once(q, S) == \A i, j \in 1..Len(q) : q[i] \in S /\ q[j] \in S => i = j
Ahead(q, a, b) == \A i, j \in 1..Len(q) : q[i] = a /\ q[j] = b => i < j

\* What the source sends, what it is sent, and the kinds of both that matter.
Shown == {"OPTIONS", "GET_PARAMETER", "SET_PARAMETER", "TRIGGER", "TEARDOWN", "ok", "no"}
Told == {"OPTIONS", "SETUP", "PLAY", "ok"}
Ok == {"ok"}
Answers == {"ok", "no"}
Commands == {"OPTIONS", "SETUP", "PLAY"}
Asks == {"OPTIONS", "GET_PARAMETER", "SET_PARAMETER", "TRIGGER"}

\* r is what is left of q when its first message m was taken, and what is
\* known of q goes on for r.
Took(q, r, m) ==
    /\ Len(q) > 0 /\ q[1] = m /\ Len(r) = Len(q) - 1
    /\ Len(r) > 0 => r[1] = q[2]
    /\ \A S : /\ None(q, S) => None(r, S)
              /\ None(r, S) /\ m \notin S => None(q, S)
              /\ m \in S => ~None(q, S)
              /\ Once(q, S) => Once(r, S)
              /\ Once(q, S) /\ m \in S => None(r, S)
    /\ \A a, b : /\ Ahead(q, a, b) => Ahead(r, a, b)
                 /\ Ahead(q, a, b) /\ b = m => None(q, {a})

\* r is q with m behind it.
Put(q, r, m) ==
    /\ Len(r) = Len(q) + 1 /\ r[Len(r)] = m
    /\ Len(q) > 0 => r[1] = q[1]
    /\ Len(q) > 1 => r[2] = q[2]
    /\ \A S : /\ None(r, S) <=> None(q, S) /\ m \notin S
              /\ Once(q, S) /\ (m \notin S \/ None(q, S)) => Once(r, S)
    /\ \A a, b : Ahead(q, a, b) /\ a # b /\ (m # a \/ None(q, {b})) => Ahead(r, a, b)

\* The first message of a queue is taken.
LEMMA Taken ==
   ASSUME NEW A, NEW q \in Seq(A), q # <<>>
   PROVE  /\ Tail(q) \in Seq(A) /\ Head(q) \in A /\ Len(q) \in Nat
          /\ Took(q, Tail(q), Head(q))
<1>1. /\ Tail(q) \in Seq(A) /\ Len(q) > 0 /\ Len(Tail(q)) = Len(q) - 1
      /\ Head(q) = q[1] /\ q[1] \in A /\ Len(q) \in Nat
      /\ \A i \in 1..Len(q) - 1 : Tail(q)[i] = q[i + 1]
  OBVIOUS
<1> DEFINE r == Tail(q)
<1> HIDE DEF r
<1>2. /\ Len(r) = Len(q) - 1
      /\ \A i \in 1..Len(r) : r[i] = q[i + 1] /\ i + 1 \in 1..Len(q)
      /\ \A i \in 1..Len(q) : i = 1 \/ (i - 1 \in 1..Len(r) /\ q[i] = r[i - 1])
  BY <1>1 DEF r
<1>3. ASSUME NEW S PROVE
              /\ None(q, S) => None(r, S)
              /\ None(r, S) /\ q[1] \notin S => None(q, S)
              /\ q[1] \in S => ~None(q, S)
              /\ Once(q, S) => Once(r, S)
              /\ Once(q, S) /\ q[1] \in S => None(r, S)
  <2>1. None(q, S) => None(r, S)
    BY <1>1, <1>2 DEF None
  <2>2. None(r, S) /\ q[1] \notin S => None(q, S)
    BY <1>1, <1>2 DEF None
  <2>3. q[1] \in S => ~None(q, S)
    BY <1>1 DEF None
  <2>4. Once(q, S) => Once(r, S)
    BY <1>1, <1>2 DEF Once
  <2>5. Once(q, S) /\ q[1] \in S => None(r, S)
    BY <1>1, <1>2 DEF Once, None
  <2> QED
    BY <2>1, <2>2, <2>3, <2>4, <2>5
<1>4. ASSUME NEW a, NEW b PROVE
                 /\ Ahead(q, a, b) => Ahead(r, a, b)
                 /\ Ahead(q, a, b) /\ b = q[1] => None(q, {a})
  <2>1. Ahead(q, a, b) => Ahead(r, a, b)
    BY <1>1, <1>2 DEF Ahead
  <2>2. Ahead(q, a, b) /\ b = q[1] => None(q, {a})
    BY <1>1, <1>2 DEF Ahead, None
  <2> QED
    BY <2>1, <2>2
<1>5. Len(r) > 0 => r[1] = q[2]
  BY <1>1, <1>2
<1>6. Took(q, r, q[1])
  BY <1>1, <1>2, <1>3, <1>4, <1>5 DEF Took
<1> QED
  BY <1>1, <1>6 DEF r

\* A message is put behind a queue; two are; one is, by \o.
LEMMA Added ==
   ASSUME NEW A, NEW q \in Seq(A), NEW m \in A
   PROVE Append(q, m) \in Seq(A) /\ Put(q, Append(q, m), m) /\ Len(q) \in Nat
<1>1. /\ Append(q, m) \in Seq(A) /\ Len(Append(q, m)) = Len(q) + 1
      /\ Append(q, m)[Len(q) + 1] = m /\ Len(q) \in Nat
      /\ \A i \in 1..Len(q) : Append(q, m)[i] = q[i]
  OBVIOUS
<1> DEFINE r == Append(q, m)
<1> HIDE DEF r
<1>2. /\ Len(r) = Len(q) + 1 /\ r[Len(q) + 1] = m
      /\ \A i \in 1..Len(q) : r[i] = q[i] /\ i \in 1..Len(r)
      /\ \A i \in 1..Len(r) : i = Len(q) + 1 \/ (i \in 1..Len(q) /\ r[i] = q[i])
  BY <1>1 DEF r
<1>3. ASSUME NEW S PROVE
           /\ None(r, S) <=> None(q, S) /\ m \notin S
           /\ Once(q, S) /\ (m \notin S \/ None(q, S)) => Once(r, S)
  <2>1. None(r, S) <=> None(q, S) /\ m \notin S
    BY <1>1, <1>2 DEF None
  <2>2. Once(q, S) /\ m \notin S => Once(r, S)
    BY <1>1, <1>2 DEF Once
  <2>3. None(q, S) => Once(r, S)
    BY <1>1, <1>2 DEF Once, None
  <2> QED
    BY <2>1, <2>2, <2>3
<1>4. ASSUME NEW a, NEW b
      PROVE  Ahead(q, a, b) /\ a # b /\ (m # a \/ None(q, {b})) => Ahead(r, a, b)
  <2>1. Ahead(q, a, b) /\ m # a => Ahead(r, a, b)
    BY <1>1, <1>2 DEF Ahead
  <2>2. a # b /\ None(q, {b}) => Ahead(r, a, b)
    BY <1>1, <1>2 DEF Ahead, None
  <2> QED
    BY <2>1, <2>2
<1>5. (Len(q) > 0 => r[1] = q[1]) /\ (Len(q) > 1 => r[2] = q[2])
  BY <1>1, <1>2
<1>6. Put(q, r, m)
  BY <1>1, <1>2, <1>3, <1>4, <1>5 DEF Put
<1> QED
  BY <1>1, <1>6 DEF r

LEMMA AddedTwo ==
   ASSUME NEW A, NEW q \in Seq(A), NEW m \in A, NEW n \in A
   PROVE /\ q \o <<m, n>> \in Seq(A) /\ Put(q, Append(q, m), m)
         /\ Put(Append(q, m), q \o <<m, n>>, n)
<1>1. q \o <<m, n>> = Append(Append(q, m), n)
  OBVIOUS
<1>2. Append(q, m) \in Seq(A)
  OBVIOUS
<1> QED
  BY <1>1, <1>2, Added

LEMMA AddedOne ==
   ASSUME NEW A, NEW q \in Seq(A), NEW m \in A
   PROVE q \o <<m>> \in Seq(A) /\ Put(q, q \o <<m>>, m) /\ Len(q) \in Nat
<1>1. q \o <<m>> = Append(q, m)
  OBVIOUS
<1> QED
  BY <1>1, Added

\* What is not there is not there in part, and an empty queue has nothing.
LEMMA Fewer == ASSUME NEW q, NEW S, NEW T, None(q, S), T \subseteq S PROVE None(q, T)
  BY DEF None

LEMMA Vacant == ASSUME NEW q, Len(q) = 0 PROVE \A S : None(q, S) /\ Once(q, S)
  BY DEF None, Once

LEMMA Both == ASSUME NEW q, NEW S, NEW T, None(q, S), None(q, T) PROVE None(q, S \cup T)
  BY DEF None

\* The empty queue.
LEMMA Empty == /\ <<>> \in Seq(Shown) /\ <<>> \in Seq(Told) /\ Len(<<>>) = 0
               /\ \A S : None(<<>>, S) /\ Once(<<>>, S)
               /\ \A a, b : Ahead(<<>>, a, b)
<1>1. <<>> \in Seq(Shown) /\ <<>> \in Seq(Told) /\ Len(<<>>) = 0
  OBVIOUS
<1> QED
  BY <1>1 DEF None, Once, Ahead

(***************************************************************************)
(* The invariant: types and places.                                        *)
(***************************************************************************)

\* The types of the threads' places, of the queues and counters, and of the
\* flags: three parts of TypeOK that a proof seldom needs together.
ThreadTypes ==
    /\ main \in Miracast!Joining \cup {"off", "waits", "failed", "run", "cleanup", "join",
                              "joinWorker", "stopped", "terminated"}
    /\ worker \in {"none", "init", "loop", "ended"}
    /\ miracastOpen \subseteq {"rtp", "listen", "session"}
    /\ rtsp \in Miracast!Joining \cup {"none", "poll", "select", "negotiate", "begin",
                              "rtp", "decode", "monitor", "handle", "halt",
                              "reset", "close", "ended"}
    /\ wfd \in Miracast!States
    /\ src \in {"away", "in", "leaving", "gone", "reset"}
    /\ media \in [{"rtp", "decode"} -> {"none", "run", "wait", "read", "ended"}]
    /\ demuxer \in {"none", "ready", "open"}
    /\ layout \in Layouts \cup {Nobody} /\ picked \in Layouts \cup {Nobody}
MessageTypes ==
    /\ toSink \in Seq(Shown) /\ toSource \in Seq(Told)
    /\ sent \in 0..4 /\ answered \in 0..sent
    /\ granted \subseteq Commands /\ refused \subseteq Commands
Flags == /\ running \in BOOLEAN /\ streaming \in BOOLEAN /\ data \in BOOLEAN
         /\ eof \in BOOLEAN /\ polling \in BOOLEAN /\ crossed \in BOOLEAN

LEMMA BothTypes == Miracast!TypeOK <=> ThreadTypes /\ MessageTypes /\ Flags
  BY DEF Miracast!TypeOK, ThreadTypes, MessageTypes, Shown, Told, Flags, Commands

\* Where start() and stop() are, and what else is there then.
MainPlaces ==
    /\ main = "off" => rtsp = "none" /\ worker = "none" /\ ~eof
    /\ main \in {"off", "waits", "failed"} => rtsp = "none"
    /\ worker = "init" => main = "waits" /\ demuxer = "ready" /\ ~eof
    /\ running => main = "run"
    /\ main \in {"checkRtp", "joinRtp", "checkDecode", "joinDecode", "join",
                 "joinWorker", "stopped"} => miracastOpen \subseteq {"session"}
    /\ main \in {"joinWorker", "stopped"} =>
         rtsp = "ended" /\ miracastOpen = {} /\ demuxer = "none"
    /\ main = "stopped" => worker = "none"

Ending == {"checkRtp", "joinRtp", "checkDecode", "joinDecode", "reset"}

\* Where the accept loop is while the threads of a session are there: a decode
\* thread lives only between its start and its join, and meanwhile the loop
\* neither resets the demuxer nor ends.
MediaPlaces ==
    /\ media["rtp"] # "none" =>
         rtsp \in {"decode", "monitor", "handle", "halt", "checkRtp", "joinRtp"}
    /\ media["decode"] # "none" =>
         rtsp \in {"monitor", "handle", "halt"} \cup Miracast!Joining
    /\ rtsp \notin {"none", "ended"} => demuxer # "none"
    /\ media["decode"] = "read" => demuxer = "open"
    /\ streaming => rtsp \in {"rtp", "decode", "monitor", "handle", "halt"}
    /\ running /\ eof => rtsp \in Ending

(***************************************************************************)
(* The invariant: the exchange.                                            *)
(***************************************************************************)

\* The sink has one request under way at a time: it stands in the queue, or
\* its answer does.
OneAtATime ==
    rtsp = "negotiate" =>
    /\ Once(toSource, Commands) /\ Once(toSink, Answers)
    /\ None(toSource, Commands) \/ None(toSink, Answers)

\* The trigger comes once, behind every answer, when nothing of the sink is
\* under way and the three requests before it were answered.
TriggerLast ==
    rtsp = "negotiate" =>
      /\ Ahead(toSink, "ok", "TRIGGER") /\ Ahead(toSink, "no", "TRIGGER")
      /\ Once(toSink, {"TRIGGER"})
      /\ ~None(toSink, {"TRIGGER"}) =>
           sent = 4 /\ wfd \notin {"M6_Sent", "M7_Sent"} /\ None(toSource, Commands)
             /\ (src = "in" => answered = 3)

\* OPTIONS stands first in its queue, or behind the answer that was sent with
\* it.
OptionsFirst ==
    rtsp = "negotiate" =>
      \/ None(toSource, {"OPTIONS"})
      \/ ~polling /\ answered = 1 /\ Len(toSource) > 0 /\ toSource[1] = "OPTIONS"
      \/ /\ ~polling /\ answered = 0
         /\ Len(toSource) > 1 /\ toSource[1] = "ok" /\ toSource[2] = "OPTIONS"

\* Before M2 was sent nothing else was.
IdleState ==
    rtsp = "negotiate" /\ wfd = "Idle" =>
        /\ answered = 0 /\ sent < 2 /\ ~polling /\ Len(toSource) = 0
        /\ None(toSink, Answers)

\* The source has refused what the handshake cannot do without.
Denied == "SETUP" \in refused \/ "PLAY" \in refused

\* With SETUP sent, OPTIONS is over; an answer that comes is SETUP's.
SetupState ==
    rtsp = "negotiate" /\ wfd = "M6_Sent" =>
         /\ answered > 2
         /\ None(toSource, {"OPTIONS", "PLAY"})
         /\ None(toSink, Ok) \/ "SETUP" \in granted
         /\ None(toSink, {"no"}) \/ Denied

\* SETUP stands first, or behind the answer to the trigger; once it is granted
\* the trigger is answered.
SetupFirst ==
    rtsp = "negotiate" /\ src = "in" =>
      /\ "SETUP" \in granted => answered = 4
      /\ \/ None(toSource, {"SETUP"})
         \/ answered = 4 /\ Len(toSource) > 0 /\ toSource[1] = "SETUP"
         \/ /\ answered = 3
            /\ Len(toSource) > 1 /\ toSource[1] = "ok" /\ toSource[2] = "SETUP"

\* With PLAY sent, SETUP is granted; an answer that comes is PLAY's.
PlayState ==
    rtsp = "negotiate" /\ wfd = "M7_Sent" =>
         /\ answered > 2 /\ "SETUP" \in granted
         /\ None(toSource, {"OPTIONS", "SETUP"})
         /\ None(toSink, Ok) \/ "PLAY" \in granted
         /\ None(toSink, {"no"}) \/ Denied

\* Before the trigger nothing of SETUP and PLAY is there.
BeforeTrigger ==
    rtsp = "negotiate" /\ sent < 4 =>
      /\ wfd \notin {"M6_Sent", "M7_Sent"} /\ None(toSource, {"SETUP", "PLAY"})
      /\ "PLAY" \notin granted

\* The source waits for an answer.
Waiting == sent = answered + 1 \/ polling

\* So does the source: its request stands in the queue, or its answer does.
OneAsked ==
    src = "in" =>
      /\ Once(toSink, Asks) /\ Once(toSource, Ok)
      /\ None(toSink, Asks) \/ None(toSource, Ok)
      /\ None(toSink, {"TEARDOWN"})

\* It waits exactly while one of both is on its way.
AskedWhat ==
    /\ src = "in" => (Waiting <=> ~(None(toSink, Asks) /\ None(toSource, Ok)))
    /\ sent = answered \/ (sent = answered + 1 /\ ~polling)
SourceWaits == OneAsked /\ AskedWhat

\* Between two sources nothing is on its way.
Quiet ==
    rtsp \in {"none", "poll", "select", "ended"} =>
        toSink = <<>> /\ toSource = <<>> /\ src = "away"

\* After the trigger the sink has sent SETUP or PLAY, and that or its answer
\* is on its way, unless the source refused it or asked something meanwhile.
HandshakeLate ==
    rtsp = "negotiate" /\ src = "in" /\ sent = 4 /\ None(toSink, {"TRIGGER"}) =>
      \/ crossed
      \/ /\ wfd \in {"M6_Sent", "M7_Sent"}
         /\ Denied \/ ~(None(toSource, Commands) /\ None(toSink, Answers))

\* The first part of MiracastSafe.
Granting == Miracast!SessionGranted

\* The exchange of messages, whatever the source does.
Exchange ==
    /\ MessageTypes /\ Flags
    /\ OneAtATime /\ BeforeTrigger /\ TriggerLast /\ OptionsFirst
    /\ IdleState /\ SetupState /\ SetupFirst /\ PlayState
    /\ OneAsked /\ AskedWhat /\ Quiet /\ Granting

\* All of it.
MiracastInv ==
    ThreadTypes /\ Flags /\ MainPlaces /\ MediaPlaces /\ Exchange /\ HandshakeLate

(***************************************************************************)
(* Types and places are kept.                                              *)
(***************************************************************************)

\* Every step keeps the types of the places.
LEMMA MiracastTypesKept ==
    ASSUME ThreadTypes, MessageTypes, Miracast!Next \/ UNCHANGED miracastV
    PROVE  ThreadTypes'
<1>1. ASSUME Miracast!Start PROVE ThreadTypes'
  BY <1>1 DEF Miracast!Start, Miracast!sessionVars, Miracast!sourceVars, ThreadTypes
<1>2. ASSUME Miracast!StartFails PROVE ThreadTypes'
  BY <1>2 DEF Miracast!StartFails, Miracast!sessionVars, Miracast!sourceVars,
     ThreadTypes
<1>3. ASSUME Miracast!StopRunning PROVE ThreadTypes'
  BY <1>3 DEF Miracast!StopRunning, Miracast!stopKeeps, Miracast!sourceVars,
     ThreadTypes
<1>4. ASSUME Miracast!StopSession PROVE ThreadTypes'
  BY <1>4 DEF Miracast!StopSession, Miracast!stopKeeps, Miracast!sourceVars,
     ThreadTypes, Miracast!Joining
<1>5. ASSUME Miracast!JoinInStop PROVE ThreadTypes'
  BY <1>5 DEF Miracast!JoinInStop, Miracast!stopKeeps, Miracast!sourceVars,
     Miracast!Joins, ThreadTypes, Miracast!Joining
<1>6. ASSUME Miracast!JoinRtsp PROVE ThreadTypes'
  BY <1>6 DEF Miracast!JoinRtsp, Miracast!stopKeeps, Miracast!sourceVars,
     ThreadTypes
<1>7. ASSUME Miracast!JoinWorker PROVE ThreadTypes'
  BY <1>7 DEF Miracast!JoinWorker, Miracast!stopKeeps, Miracast!sourceVars,
     ThreadTypes
<1>8. ASSUME Miracast!JoinThrows PROVE ThreadTypes'
  BY <1>8 DEF Miracast!JoinThrows, Miracast!stopKeeps, Miracast!sourceVars,
     ThreadTypes
<1>9. ASSUME Miracast!WorkerFails PROVE ThreadTypes'
  BY <1>9 DEF Miracast!WorkerFails, Miracast!sessionVars, Miracast!sourceVars,
     ThreadTypes
<1>10. ASSUME Miracast!WorkerStarts PROVE ThreadTypes'
  BY <1>10 DEF Miracast!WorkerStarts, Miracast!controlVars, Miracast!sourceVars,
     Miracast!demuxerVars, ThreadTypes
<1>11. ASSUME Miracast!WorkerEnds PROVE ThreadTypes'
  BY <1>11 DEF Miracast!WorkerEnds, Miracast!sessionVars, Miracast!sourceVars,
     ThreadTypes
<1>12. ASSUME Miracast!Poll PROVE ThreadTypes'
  BY <1>12 DEF Miracast!Poll, Miracast!controlVars, Miracast!sourceVars,
     Miracast!demuxerVars, ThreadTypes
<1>13. ASSUME Miracast!NothingAccepted PROVE ThreadTypes'
  BY <1>13 DEF Miracast!NothingAccepted, Miracast!controlVars,
     Miracast!sourceVars, Miracast!demuxerVars, ThreadTypes
<1>14. ASSUME Miracast!AnswerOptions PROVE ThreadTypes'
  BY <1>14 DEF Miracast!AnswerOptions, Miracast!Receives, Miracast!Sends,
     Miracast!readKeeps, Miracast!controlVars, Miracast!demuxerVars, ThreadTypes,
     Miracast!States
<1>15. ASSUME Miracast!AnswerParameter PROVE ThreadTypes'
  BY <1>15 DEF Miracast!AnswerParameter, Miracast!Receives, Miracast!Sends,
     Miracast!readKeeps, Miracast!controlVars, Miracast!demuxerVars, ThreadTypes,
     Miracast!States
<1>16. ASSUME Miracast!AnswerTrigger PROVE ThreadTypes'
  BY <1>16 DEF Miracast!AnswerTrigger, Miracast!Receives, Miracast!Sends,
     Miracast!readKeeps, Miracast!controlVars, Miracast!demuxerVars, ThreadTypes,
     Miracast!States
<1>17. ASSUME Miracast!AnswerTeardown PROVE ThreadTypes'
  BY <1>17 DEF Miracast!AnswerTeardown, Miracast!Receives, Miracast!Sends,
     Miracast!readKeeps, Miracast!controlVars, Miracast!demuxerVars, ThreadTypes,
     Miracast!States
<1>18. ASSUME Miracast!NegotiateAnswer PROVE ThreadTypes'
  BY <1>18 DEF Miracast!NegotiateAnswer, Miracast!Granted, Miracast!Refused,
     Miracast!Receives, Miracast!Sends,
     Miracast!readKeeps, Miracast!controlVars, Miracast!demuxerVars, ThreadTypes,
     Miracast!States
<1>19. ASSUME Miracast!ReadEnds PROVE ThreadTypes'
  BY <1>19 DEF Miracast!ReadEnds, Miracast!readKeeps, Miracast!controlVars,
     Miracast!demuxerVars, ThreadTypes
<1>20. ASSUME Miracast!HandleMessage PROVE ThreadTypes'
  BY <1>20 DEF Miracast!HandleMessage, Miracast!Sends, Miracast!readKeeps,
     Miracast!controlVars, Miracast!demuxerVars, ThreadTypes
<1>21. ASSUME Miracast!Begin PROVE ThreadTypes'
  BY <1>21 DEF Miracast!Begin, Miracast!beginKeeps, Miracast!controlVars,
     Miracast!sourceVars, Miracast!demuxerVars, ThreadTypes
<1>22. ASSUME Miracast!Monitor PROVE ThreadTypes'
  BY <1>22 DEF Miracast!Monitor, Miracast!beginKeeps, Miracast!controlVars,
     Miracast!sourceVars, Miracast!demuxerVars, ThreadTypes
<1>23. ASSUME Miracast!Halt PROVE ThreadTypes'
  BY <1>23 DEF Miracast!Halt, Miracast!beginKeeps, Miracast!controlVars,
     Miracast!sourceVars, ThreadTypes, Miracast!Joining
<1>24. ASSUME Miracast!JoinInLoop PROVE ThreadTypes'
  BY <1>24 DEF Miracast!JoinInLoop, Miracast!beginKeeps, Miracast!controlVars,
     Miracast!sourceVars, Miracast!demuxerVars, Miracast!Joins, ThreadTypes,
     Miracast!Joining
<1>25. ASSUME Miracast!Reset PROVE ThreadTypes'
  BY <1>25 DEF Miracast!Reset, Miracast!beginKeeps, Miracast!controlVars,
     Miracast!sourceVars, ThreadTypes
<1>26. ASSUME Miracast!Close PROVE ThreadTypes'
  BY <1>26 DEF Miracast!Close, Miracast!controlVars, ThreadTypes
<1>27. ASSUME Miracast!AcceptSource PROVE ThreadTypes'
  BY <1>27 DEF Miracast!AcceptSource, Miracast!controlVars, ThreadTypes,
     Miracast!States
<1>28. ASSUME Miracast!SourceAsks PROVE ThreadTypes'
  BY <1>28 DEF Miracast!SourceAsks, Miracast!sinkVars, Miracast!controlVars,
     Miracast!demuxerVars, ThreadTypes
<1>29. ASSUME Miracast!SourceReads PROVE ThreadTypes'
  BY <1>29 DEF Miracast!SourceReads, Miracast!sinkVars, Miracast!controlVars,
     Miracast!demuxerVars, ThreadTypes
<1>30. ASSUME Miracast!SourcePolls PROVE ThreadTypes'
  BY <1>30 DEF Miracast!SourcePolls, Miracast!sinkVars, Miracast!controlVars,
     Miracast!demuxerVars, ThreadTypes
<1>31. ASSUME Miracast!SourceLeaves PROVE ThreadTypes'
  BY <1>31 DEF Miracast!SourceLeaves, Miracast!sinkVars, Miracast!controlVars,
     Miracast!demuxerVars, ThreadTypes
<1>32. ASSUME Miracast!RtpFeeds PROVE ThreadTypes'
  BY <1>32 DEF Miracast!RtpFeeds, Miracast!mediaKeeps, Miracast!controlVars,
     Miracast!sourceVars, Miracast!demuxerVars, ThreadTypes
<1>33. ASSUME Miracast!RtpEnds PROVE ThreadTypes'
  BY <1>33 DEF Miracast!RtpEnds, Miracast!mediaKeeps, Miracast!controlVars,
     Miracast!sourceVars, Miracast!demuxerVars, ThreadTypes
<1>34. ASSUME Miracast!DecodeOpens PROVE ThreadTypes'
  BY <1>34 DEF Miracast!DecodeOpens, Miracast!mediaKeeps, Miracast!controlVars,
     Miracast!sourceVars, Miracast!demuxerVars, ThreadTypes
<1>35. ASSUME Miracast!DecodeEnds PROVE ThreadTypes'
  BY <1>35 DEF Miracast!DecodeEnds, Miracast!mediaKeeps, Miracast!controlVars,
     Miracast!sourceVars, Miracast!demuxerVars, ThreadTypes
<1>36. ASSUME Miracast!SourceBegins PROVE ThreadTypes'
  BY <1>36 DEF Miracast!SourceBegins, Miracast!controlVars, Miracast!sourceVars,
     Miracast!demuxerVars, ThreadTypes
<1>37. CASE UNCHANGED miracastV
  BY <1>37 DEF miracastV, ThreadTypes
<1> QED
  BY <1>1, <1>2, <1>3, <1>4, <1>5, <1>6, <1>7, <1>8, <1>9, <1>10, <1>11, <1>12,
     <1>13, <1>14, <1>15, <1>16, <1>17, <1>18, <1>19, <1>20, <1>21, <1>22, <1>23,
     <1>24, <1>25, <1>26, <1>27, <1>28, <1>29, <1>30, <1>31, <1>32, <1>33, <1>34,
     <1>35, <1>36, <1>37
    DEF Miracast!Next, Miracast!LoopStep, Miracast!StopStep

\* And those of the flags.
LEMMA FlagsKept ==
    ASSUME Flags, Miracast!Next \/ UNCHANGED miracastV
    PROVE  Flags'
<1>1. ASSUME Miracast!Start PROVE Flags'
  BY <1>1 DEF Miracast!Start, Miracast!sessionVars, Miracast!sourceVars, Flags
<1>2. ASSUME Miracast!StartFails PROVE Flags'
  BY <1>2 DEF Miracast!StartFails, Miracast!sessionVars, Miracast!sourceVars, Flags
<1>3. ASSUME Miracast!StopRunning PROVE Flags'
  BY <1>3 DEF Miracast!StopRunning, Miracast!stopKeeps, Miracast!sourceVars, Flags
<1>4. ASSUME Miracast!StopSession PROVE Flags'
  BY <1>4 DEF Miracast!StopSession, Miracast!stopKeeps, Miracast!sourceVars, Flags
<1>5. ASSUME Miracast!JoinInStop PROVE Flags'
  BY <1>5 DEF Miracast!JoinInStop, Miracast!stopKeeps, Miracast!sourceVars,
     Miracast!Joins, Flags
<1>6. ASSUME Miracast!JoinRtsp PROVE Flags'
  BY <1>6 DEF Miracast!JoinRtsp, Miracast!stopKeeps, Miracast!sourceVars, Flags
<1>7. ASSUME Miracast!JoinWorker PROVE Flags'
  BY <1>7 DEF Miracast!JoinWorker, Miracast!stopKeeps, Miracast!sourceVars, Flags
<1>8. ASSUME Miracast!JoinThrows PROVE Flags'
  BY <1>8 DEF Miracast!JoinThrows, Miracast!stopKeeps, Miracast!sourceVars, Flags
<1>9. ASSUME Miracast!WorkerFails PROVE Flags'
  BY <1>9 DEF Miracast!WorkerFails, Miracast!sessionVars, Miracast!sourceVars, Flags
<1>10. ASSUME Miracast!WorkerStarts PROVE Flags'
  BY <1>10 DEF Miracast!WorkerStarts, Miracast!controlVars, Miracast!sourceVars,
     Miracast!demuxerVars, Flags
<1>11. ASSUME Miracast!WorkerEnds PROVE Flags'
  BY <1>11 DEF Miracast!WorkerEnds, Miracast!sessionVars, Miracast!sourceVars, Flags
<1>12. ASSUME Miracast!Poll PROVE Flags'
  BY <1>12 DEF Miracast!Poll, Miracast!controlVars, Miracast!sourceVars,
     Miracast!demuxerVars, Flags
<1>13. ASSUME Miracast!NothingAccepted PROVE Flags'
  BY <1>13 DEF Miracast!NothingAccepted, Miracast!controlVars,
     Miracast!sourceVars, Miracast!demuxerVars, Flags
<1>14. ASSUME Miracast!AnswerOptions PROVE Flags'
  BY <1>14 DEF Miracast!AnswerOptions, Miracast!Receives, Miracast!Sends,
     Miracast!readKeeps, Miracast!controlVars, Miracast!demuxerVars, Flags
<1>15. ASSUME Miracast!AnswerParameter PROVE Flags'
  BY <1>15 DEF Miracast!AnswerParameter, Miracast!Receives, Miracast!Sends,
     Miracast!readKeeps, Miracast!controlVars, Miracast!demuxerVars, Flags
<1>16. ASSUME Miracast!AnswerTrigger PROVE Flags'
  BY <1>16 DEF Miracast!AnswerTrigger, Miracast!Receives, Miracast!Sends,
     Miracast!readKeeps, Miracast!controlVars, Miracast!demuxerVars, Flags
<1>17. ASSUME Miracast!AnswerTeardown PROVE Flags'
  BY <1>17 DEF Miracast!AnswerTeardown, Miracast!Receives, Miracast!Sends,
     Miracast!readKeeps, Miracast!controlVars, Miracast!demuxerVars, Flags
<1>18. ASSUME Miracast!NegotiateAnswer PROVE Flags'
  BY <1>18 DEF Miracast!NegotiateAnswer, Miracast!Granted, Miracast!Refused,
     Miracast!Receives, Miracast!Sends,
     Miracast!readKeeps, Miracast!controlVars, Miracast!demuxerVars, Flags
<1>19. ASSUME Miracast!ReadEnds PROVE Flags'
  BY <1>19 DEF Miracast!ReadEnds, Miracast!readKeeps, Miracast!controlVars,
     Miracast!demuxerVars, Flags
<1>20. ASSUME Miracast!HandleMessage PROVE Flags'
  BY <1>20 DEF Miracast!HandleMessage, Miracast!Sends, Miracast!readKeeps,
     Miracast!controlVars, Miracast!demuxerVars, Flags
<1>21. ASSUME Miracast!Begin PROVE Flags'
  BY <1>21 DEF Miracast!Begin, Miracast!beginKeeps, Miracast!controlVars,
     Miracast!sourceVars, Miracast!demuxerVars, Flags
<1>22. ASSUME Miracast!Monitor PROVE Flags'
  BY <1>22 DEF Miracast!Monitor, Miracast!beginKeeps, Miracast!controlVars,
     Miracast!sourceVars, Miracast!demuxerVars, Flags
<1>23. ASSUME Miracast!Halt PROVE Flags'
  BY <1>23 DEF Miracast!Halt, Miracast!beginKeeps, Miracast!controlVars,
     Miracast!sourceVars, Flags
<1>24. ASSUME Miracast!JoinInLoop PROVE Flags'
  BY <1>24 DEF Miracast!JoinInLoop, Miracast!beginKeeps, Miracast!controlVars,
     Miracast!sourceVars, Miracast!demuxerVars, Miracast!Joins, Flags
<1>25. ASSUME Miracast!Reset PROVE Flags'
  BY <1>25 DEF Miracast!Reset, Miracast!beginKeeps, Miracast!controlVars,
     Miracast!sourceVars, Flags
<1>26. ASSUME Miracast!Close PROVE Flags'
  BY <1>26 DEF Miracast!Close, Miracast!controlVars, Flags
<1>27. ASSUME Miracast!AcceptSource PROVE Flags'
  BY <1>27 DEF Miracast!AcceptSource, Miracast!controlVars, Flags
<1>28. ASSUME Miracast!SourceAsks PROVE Flags'
  BY <1>28 DEF Miracast!SourceAsks, Miracast!sinkVars, Miracast!controlVars,
     Miracast!demuxerVars, Flags
<1>29. ASSUME Miracast!SourceReads PROVE Flags'
  BY <1>29 DEF Miracast!SourceReads, Miracast!sinkVars, Miracast!controlVars,
     Miracast!demuxerVars, Flags
<1>30. ASSUME Miracast!SourcePolls PROVE Flags'
  BY <1>30 DEF Miracast!SourcePolls, Miracast!sinkVars, Miracast!controlVars,
     Miracast!demuxerVars, Flags
<1>31. ASSUME Miracast!SourceLeaves PROVE Flags'
  BY <1>31 DEF Miracast!SourceLeaves, Miracast!sinkVars, Miracast!controlVars,
     Miracast!demuxerVars, Flags
<1>32. ASSUME Miracast!RtpFeeds PROVE Flags'
  BY <1>32 DEF Miracast!RtpFeeds, Miracast!mediaKeeps, Miracast!controlVars,
     Miracast!sourceVars, Miracast!demuxerVars, Flags
<1>33. ASSUME Miracast!RtpEnds PROVE Flags'
  BY <1>33 DEF Miracast!RtpEnds, Miracast!mediaKeeps, Miracast!controlVars,
     Miracast!sourceVars, Miracast!demuxerVars, Flags
<1>34. ASSUME Miracast!DecodeOpens PROVE Flags'
  BY <1>34 DEF Miracast!DecodeOpens, Miracast!mediaKeeps, Miracast!controlVars,
     Miracast!sourceVars, Miracast!demuxerVars, Flags
<1>35. ASSUME Miracast!DecodeEnds PROVE Flags'
  BY <1>35 DEF Miracast!DecodeEnds, Miracast!mediaKeeps, Miracast!controlVars,
     Miracast!sourceVars, Miracast!demuxerVars, Flags
<1>36. ASSUME Miracast!SourceBegins PROVE Flags'
  BY <1>36 DEF Miracast!SourceBegins, Miracast!controlVars, Miracast!sourceVars,
     Miracast!demuxerVars, Flags
<1>37. CASE UNCHANGED miracastV
  BY <1>37 DEF miracastV, Flags
<1> QED
  BY <1>1, <1>2, <1>3, <1>4, <1>5, <1>6, <1>7, <1>8, <1>9, <1>10, <1>11, <1>12,
     <1>13, <1>14, <1>15, <1>16, <1>17, <1>18, <1>19, <1>20, <1>21, <1>22, <1>23,
     <1>24, <1>25, <1>26, <1>27, <1>28, <1>29, <1>30, <1>31, <1>32, <1>33, <1>34,
     <1>35, <1>36, <1>37
    DEF Miracast!Next, Miracast!LoopStep, Miracast!StopStep

\* The places go together.
LEMMA MiracastPlacesKept ==
    ASSUME ThreadTypes, Flags, MainPlaces, MediaPlaces,
           Miracast!Next \/ UNCHANGED miracastV
    PROVE  MainPlaces' /\ MediaPlaces'
<1>1. ASSUME Miracast!Start PROVE MainPlaces' /\ MediaPlaces'
  BY <1>1 DEF Miracast!Start, Miracast!sessionVars, Miracast!sourceVars,
     Miracast!Joining, MainPlaces, MediaPlaces
<1>2. ASSUME Miracast!StartFails PROVE MainPlaces' /\ MediaPlaces'
  BY <1>2 DEF Miracast!StartFails, Miracast!sessionVars, Miracast!sourceVars,
     MainPlaces, MediaPlaces
<1>3. ASSUME Miracast!StopRunning PROVE MainPlaces' /\ MediaPlaces'
  BY <1>3 DEF Miracast!StopRunning, Miracast!stopKeeps, Miracast!sourceVars,
     MainPlaces, MediaPlaces
<1>4. ASSUME Miracast!StopSession PROVE MainPlaces' /\ MediaPlaces'
  BY <1>4 DEF Miracast!StopSession, Miracast!stopKeeps, Miracast!sourceVars,
     ThreadTypes, MainPlaces, MediaPlaces
<1>5. ASSUME Miracast!JoinInStop PROVE MainPlaces' /\ MediaPlaces'
  BY <1>5 DEF Miracast!JoinInStop, Miracast!stopKeeps, Miracast!sourceVars,
     Miracast!Joins, ThreadTypes, MainPlaces, MediaPlaces
<1>6. ASSUME Miracast!JoinRtsp PROVE MainPlaces' /\ MediaPlaces'
  BY <1>6 DEF Miracast!JoinRtsp, Miracast!stopKeeps, Miracast!sourceVars,
     Miracast!Joining, MainPlaces, MediaPlaces
<1>7. ASSUME Miracast!JoinWorker PROVE MainPlaces' /\ MediaPlaces'
  BY <1>7 DEF Miracast!JoinWorker, Miracast!stopKeeps, Miracast!sourceVars,
     MainPlaces, MediaPlaces
<1>8. ASSUME Miracast!JoinThrows PROVE MainPlaces' /\ MediaPlaces'
  BY <1>8 DEF Miracast!JoinThrows, Miracast!stopKeeps, Miracast!sourceVars,
     MainPlaces, MediaPlaces
<1>9. ASSUME Miracast!WorkerFails PROVE MainPlaces' /\ MediaPlaces'
  BY <1>9 DEF Miracast!WorkerFails, Miracast!sessionVars, Miracast!sourceVars,
     MainPlaces, MediaPlaces
<1>10. ASSUME Miracast!WorkerStarts PROVE MainPlaces' /\ MediaPlaces'
  BY <1>10 DEF Miracast!WorkerStarts, Miracast!controlVars, Miracast!sourceVars,
     Miracast!demuxerVars, Miracast!Joining, MainPlaces, MediaPlaces
<1>11. ASSUME Miracast!WorkerEnds PROVE MainPlaces' /\ MediaPlaces'
  BY <1>11 DEF Miracast!WorkerEnds, Miracast!sessionVars, Miracast!sourceVars,
     MainPlaces, MediaPlaces
<1>12. ASSUME Miracast!Poll PROVE MainPlaces' /\ MediaPlaces'
  BY <1>12 DEF Miracast!Poll, Miracast!controlVars, Miracast!sourceVars,
     Miracast!demuxerVars, Miracast!Joining, MainPlaces, MediaPlaces, Ending
<1>13. ASSUME Miracast!NothingAccepted PROVE MainPlaces' /\ MediaPlaces'
  BY <1>13 DEF Miracast!NothingAccepted, Miracast!controlVars,
     Miracast!sourceVars, Miracast!demuxerVars, Miracast!Joining, MainPlaces,
     MediaPlaces, Ending
<1>14. ASSUME Miracast!AnswerOptions PROVE MainPlaces' /\ MediaPlaces'
  BY <1>14 DEF Miracast!AnswerOptions, Miracast!Receives, Miracast!Sends,
     Miracast!readKeeps, Miracast!controlVars, Miracast!demuxerVars, MainPlaces,
     MediaPlaces
<1>15. ASSUME Miracast!AnswerParameter PROVE MainPlaces' /\ MediaPlaces'
  BY <1>15 DEF Miracast!AnswerParameter, Miracast!Receives, Miracast!Sends,
     Miracast!readKeeps, Miracast!controlVars, Miracast!demuxerVars, MainPlaces,
     MediaPlaces
<1>16. ASSUME Miracast!AnswerTrigger PROVE MainPlaces' /\ MediaPlaces'
  BY <1>16 DEF Miracast!AnswerTrigger, Miracast!Receives, Miracast!Sends,
     Miracast!readKeeps, Miracast!controlVars, Miracast!demuxerVars, MainPlaces,
     MediaPlaces
<1>17. ASSUME Miracast!AnswerTeardown PROVE MainPlaces' /\ MediaPlaces'
  BY <1>17 DEF Miracast!AnswerTeardown, Miracast!Receives, Miracast!Sends,
     Miracast!readKeeps, Miracast!controlVars, Miracast!demuxerVars,
     Miracast!Joining, MainPlaces, MediaPlaces, Ending
<1>18. ASSUME Miracast!NegotiateAnswer PROVE MainPlaces' /\ MediaPlaces'
  BY <1>18 DEF Miracast!NegotiateAnswer, Miracast!Granted, Miracast!Refused,
     Miracast!Receives, Miracast!Sends,
     Miracast!readKeeps, Miracast!controlVars, Miracast!demuxerVars,
     Miracast!Joining, MainPlaces, MediaPlaces, Ending
<1>19. ASSUME Miracast!ReadEnds PROVE MainPlaces' /\ MediaPlaces'
  BY <1>19 DEF Miracast!ReadEnds, Miracast!readKeeps, Miracast!controlVars,
     Miracast!demuxerVars, Miracast!Joining, MainPlaces, MediaPlaces, Ending
<1>20. ASSUME Miracast!HandleMessage PROVE MainPlaces' /\ MediaPlaces'
  BY <1>20 DEF Miracast!HandleMessage, Miracast!Sends, Miracast!readKeeps,
     Miracast!controlVars, Miracast!demuxerVars, MainPlaces, MediaPlaces, Ending
<1>21. ASSUME Miracast!Begin PROVE MainPlaces' /\ MediaPlaces'
  BY <1>21 DEF Miracast!Begin, Miracast!beginKeeps, Miracast!controlVars,
     Miracast!sourceVars, Miracast!demuxerVars, ThreadTypes, Miracast!Joining,
     MainPlaces, MediaPlaces, Ending
<1>22. ASSUME Miracast!Monitor PROVE MainPlaces' /\ MediaPlaces'
  BY <1>22 DEF Miracast!Monitor, Miracast!beginKeeps, Miracast!controlVars,
     Miracast!sourceVars, Miracast!demuxerVars, MainPlaces, MediaPlaces, Ending
<1>23. ASSUME Miracast!Halt PROVE MainPlaces' /\ MediaPlaces'
  BY <1>23 DEF Miracast!Halt, Miracast!beginKeeps, Miracast!controlVars,
     Miracast!sourceVars, Miracast!Joining, MainPlaces, MediaPlaces, Ending
<1>24. ASSUME Miracast!JoinInLoop PROVE MainPlaces' /\ MediaPlaces'
  BY <1>24 DEF Miracast!JoinInLoop, Miracast!beginKeeps, Miracast!controlVars,
     Miracast!sourceVars, Miracast!demuxerVars, Miracast!Joins, ThreadTypes,
     Miracast!Joining, MainPlaces, MediaPlaces, Ending
<1>25. ASSUME Miracast!Reset PROVE MainPlaces' /\ MediaPlaces'
  BY <1>25 DEF Miracast!Reset, Miracast!beginKeeps, Miracast!controlVars,
     Miracast!sourceVars, Miracast!Joining, MainPlaces, MediaPlaces
<1>26. ASSUME Miracast!Close PROVE MainPlaces' /\ MediaPlaces'
  BY <1>26 DEF Miracast!Close, Miracast!controlVars, Miracast!Joining, MainPlaces,
     MediaPlaces, Ending
<1>27. ASSUME Miracast!AcceptSource PROVE MainPlaces' /\ MediaPlaces'
  BY <1>27 DEF Miracast!AcceptSource, Miracast!controlVars, Miracast!Joining,
     MainPlaces, MediaPlaces, Ending
<1>28. ASSUME Miracast!SourceAsks PROVE MainPlaces' /\ MediaPlaces'
  BY <1>28 DEF Miracast!SourceAsks, Miracast!sinkVars, Miracast!controlVars,
     Miracast!demuxerVars, MainPlaces, MediaPlaces
<1>29. ASSUME Miracast!SourceReads PROVE MainPlaces' /\ MediaPlaces'
  BY <1>29 DEF Miracast!SourceReads, Miracast!sinkVars, Miracast!controlVars,
     Miracast!demuxerVars, MainPlaces, MediaPlaces
<1>30. ASSUME Miracast!SourcePolls PROVE MainPlaces' /\ MediaPlaces'
  BY <1>30 DEF Miracast!SourcePolls, Miracast!sinkVars, Miracast!controlVars,
     Miracast!demuxerVars, MainPlaces, MediaPlaces
<1>31. ASSUME Miracast!SourceLeaves PROVE MainPlaces' /\ MediaPlaces'
  BY <1>31 DEF Miracast!SourceLeaves, Miracast!sinkVars, Miracast!controlVars,
     Miracast!demuxerVars, MainPlaces, MediaPlaces
<1>32. ASSUME Miracast!RtpFeeds PROVE MainPlaces' /\ MediaPlaces'
  BY <1>32 DEF Miracast!RtpFeeds, Miracast!mediaKeeps, Miracast!controlVars,
     Miracast!sourceVars, Miracast!demuxerVars, MainPlaces, MediaPlaces
<1>33. ASSUME Miracast!RtpEnds PROVE MainPlaces' /\ MediaPlaces'
  BY <1>33 DEF Miracast!RtpEnds, Miracast!mediaKeeps, Miracast!controlVars,
     Miracast!sourceVars, Miracast!demuxerVars, MainPlaces, MediaPlaces
<1>34. ASSUME Miracast!DecodeOpens PROVE MainPlaces' /\ MediaPlaces'
  BY <1>34 DEF Miracast!DecodeOpens, Miracast!mediaKeeps, Miracast!controlVars,
     Miracast!sourceVars, Miracast!demuxerVars, ThreadTypes, MainPlaces,
     MediaPlaces
<1>35. ASSUME Miracast!DecodeEnds PROVE MainPlaces' /\ MediaPlaces'
  BY <1>35 DEF Miracast!DecodeEnds, Miracast!mediaKeeps, Miracast!controlVars,
     Miracast!sourceVars, Miracast!demuxerVars, MainPlaces, MediaPlaces
<1>36. ASSUME Miracast!SourceBegins PROVE MainPlaces' /\ MediaPlaces'
  BY <1>36 DEF Miracast!SourceBegins, Miracast!controlVars, Miracast!sourceVars,
     Miracast!demuxerVars, MainPlaces, MediaPlaces, Ending
<1>37. CASE UNCHANGED miracastV
  BY <1>37 DEF miracastV, MainPlaces, MediaPlaces
<1> QED
  BY <1>1, <1>2, <1>3, <1>4, <1>5, <1>6, <1>7, <1>8, <1>9, <1>10, <1>11, <1>12,
     <1>13, <1>14, <1>15, <1>16, <1>17, <1>18, <1>19, <1>20, <1>21, <1>22, <1>23,
     <1>24, <1>25, <1>26, <1>27, <1>28, <1>29, <1>30, <1>31, <1>32, <1>33, <1>34,
     <1>35, <1>36, <1>37
    DEF Miracast!Next, Miracast!LoopStep, Miracast!StopStep

(***************************************************************************)
(* The exchange is kept, action by action.                                 *)
(***************************************************************************)

\* A step that leaves messages, source and state alone keeps the exchange, if
\* it neither begins a handshake nor ends one.
LEMMA Elsewhere ==
    ASSUME Exchange, HandshakeLate, Flags',
           UNCHANGED <<toSink, toSource, src, sent, answered, polling, granted, refused, crossed,
                       wfd>>,
           rtsp' = "negotiate" => rtsp = "negotiate",
           rtsp' \in {"none", "poll", "select", "ended"} =>
               rtsp \in {"none", "poll", "select", "ended"},
           rtsp' \in {"begin", "rtp", "decode", "monitor", "handle"} =>
               rtsp \in {"begin", "rtp", "decode", "monitor", "handle"}
    PROVE  Exchange' /\ HandshakeLate'
<1>1. MessageTypes'
  BY DEF Exchange, MessageTypes
<1>2. OneAtATime'
  BY DEF Exchange, OneAtATime
<1>3. BeforeTrigger'
  BY DEF Exchange, BeforeTrigger
<1>4. TriggerLast'
  BY DEF Exchange, TriggerLast
<1>5. OptionsFirst'
  BY DEF Exchange, OptionsFirst
<1>6. IdleState'
  BY DEF Exchange, IdleState
<1>7. SetupState'
  BY DEF Exchange, SetupState, Denied
<1>8. SetupFirst'
  BY DEF Exchange, SetupFirst
<1>9. PlayState'
  BY DEF Exchange, PlayState, Denied
<1>10. OneAsked'
  BY DEF Exchange, OneAsked
<1>11. AskedWhat'
  BY DEF Exchange, AskedWhat, Waiting
<1>12. Quiet'
  BY DEF Exchange, Quiet
<1>13. Granting'
  BY DEF Exchange, Granting, Miracast!SessionGranted
<1>14. HandshakeLate'
  BY DEF Exchange, HandshakeLate, HandshakeLate, Denied
<1> QED
  BY <1>1, <1>2, <1>3, <1>4, <1>5, <1>6, <1>7, <1>8, <1>9, <1>10, <1>11, <1>12,
     <1>13,
     <1>14 DEF Exchange

\* A source that comes finds empty queues.
LEMMA AcceptSourceKeeps ==
    ASSUME Exchange, HandshakeLate, Flags', ThreadTypes, Miracast!AcceptSource
    PROVE  Exchange' /\ HandshakeLate'
<1>1. /\ toSink' = <<>> /\ toSource' = <<>> /\ Len(toSink') = 0 /\ Len(toSource') = 0
      /\ \A S : /\ None(toSink', S) /\ Once(toSink', S)
                /\ None(toSource', S) /\ Once(toSource', S)
      /\ \A a, b : Ahead(toSink', a, b)
  BY Empty DEF Miracast!AcceptSource, Miracast!controlVars, Exchange,
     MessageTypes, Shown, Told, Asks, Commands, Answers, Quiet
<1>2. MessageTypes'
  BY <1>1 DEF Exchange, Miracast!AcceptSource, Miracast!controlVars, Took, Put,
     Ok, Answers, Commands, Asks, Shown, Told, MessageTypes
<1>3. OneAtATime'
  BY <1>1 DEF Exchange, Miracast!AcceptSource, Miracast!controlVars, Took, Put,
     Ok, Answers, Commands, Asks, Shown, Told, OneAtATime, Quiet
<1>4. BeforeTrigger'
  BY <1>1 DEF Exchange, Miracast!AcceptSource, Miracast!controlVars, Took, Put,
     Ok, Answers, Commands, Asks, Shown, Told, BeforeTrigger
<1>5. TriggerLast'
  BY <1>1 DEF Exchange, Miracast!AcceptSource, Miracast!controlVars, Took, Put,
     Ok, Answers, Commands, Asks, Shown, Told, TriggerLast, Quiet
<1>6. OptionsFirst'
  BY <1>1 DEF Exchange, Miracast!AcceptSource, Miracast!controlVars, Took, Put,
     Ok, Answers, Commands, Asks, Shown, Told, OptionsFirst, Quiet
<1>7. IdleState'
  BY <1>1 DEF Exchange, Miracast!AcceptSource, Miracast!controlVars, Took, Put,
     Ok, Answers, Commands, Asks, Shown, Told, IdleState, Quiet
<1>8. SetupState'
  BY <1>1 DEF Exchange, Miracast!AcceptSource, Miracast!controlVars, Took, Put,
     Ok, Answers, Commands, Asks, Shown, Told, SetupState, Quiet, Denied
<1>9. SetupFirst'
  BY <1>1 DEF Exchange, Miracast!AcceptSource, Miracast!controlVars, Took, Put,
     Ok, Answers, Commands, Asks, Shown, Told, SetupFirst, Quiet
<1>10. PlayState'
  BY <1>1 DEF Exchange, Miracast!AcceptSource, Miracast!controlVars, Took, Put,
     Ok, Answers, Commands, Asks, Shown, Told, PlayState, Quiet, Denied
<1>11. OneAsked'
  BY <1>1 DEF Exchange, Miracast!AcceptSource, Miracast!controlVars, Took, Put,
     Ok, Answers, Commands, Asks, Shown, Told, OneAsked, Quiet
<1>12. AskedWhat'
  BY <1>1 DEF Exchange, Miracast!AcceptSource, Miracast!controlVars, Took, Put,
     Ok, Answers, Commands, Asks, Shown, Told, AskedWhat, Waiting, Quiet
<1>13. Quiet'
  BY <1>1 DEF Exchange, Miracast!AcceptSource, Miracast!controlVars, Took, Put,
     Ok, Answers, Commands, Asks, Shown, Told, Quiet
<1>14. Granting'
  BY <1>1 DEF Exchange, Miracast!AcceptSource, Miracast!controlVars, Took, Put,
     Ok, Answers, Commands, Asks, Shown, Told, Granting, Miracast!SessionGranted
<1>15. HandshakeLate'
  BY <1>1 DEF Exchange, Miracast!AcceptSource, Miracast!controlVars, Took, Put,
     Ok, Answers, Commands, Asks, Shown, Told, HandshakeLate, Quiet, Denied
<1> QED
  BY <1>2, <1>3, <1>4, <1>5, <1>6, <1>7, <1>8, <1>9, <1>10, <1>11, <1>12, <1>13,
     <1>14, <1>15 DEF Exchange

\* M1: an answer, and OPTIONS behind it if it is the first.
LEMMA AnswerOptionsKeeps ==
    ASSUME Exchange, HandshakeLate, Flags', ThreadTypes, Miracast!AnswerOptions
    PROVE  Exchange' /\ HandshakeLate'
<1>1. toSink' \in Seq(Shown) /\ Took(toSink, toSink', "OPTIONS") /\ Len(toSink) \in Nat
  BY Taken DEF Miracast!AnswerOptions, Miracast!Receives, Miracast!Sends,
     Miracast!readKeeps, Miracast!controlVars, Miracast!demuxerVars, Exchange,
     MessageTypes, Shown, Told, Asks, Commands, Answers
<1>2. ASSUME wfd = "Idle" PROVE
      /\ toSource' \in Seq(Told) /\ Len(toSource) \in Nat
         /\ Put(toSource, Append(toSource, "ok"), "ok")
         /\ Put(Append(toSource, "ok"), toSource', "OPTIONS")
  <2>1. toSource' = toSource \o <<"ok", "OPTIONS">>
    BY <1>2 DEF Miracast!AnswerOptions, Miracast!Sends
  <2>2. toSource \in Seq(Told) /\ "ok" \in Told /\ "OPTIONS" \in Told
    BY DEF Exchange, MessageTypes, Told
  <2> QED
    BY <2>1, <2>2, AddedTwo, Added
<1>3. ASSUME wfd # "Idle" PROVE
      toSource' \in Seq(Told) /\ Put(toSource, toSource', "ok") /\ Len(toSource) \in Nat
  BY <1>3, AddedOne DEF Miracast!AnswerOptions, Miracast!Receives, Miracast!Sends,
     Miracast!readKeeps, Miracast!controlVars, Miracast!demuxerVars, Exchange,
     MessageTypes, Shown, Told, Asks, Commands, Answers
<1>4. wfd = "Idle" => \A S : None(toSource, S) /\ Once(toSource, S)
  BY Vacant DEF Miracast!AnswerOptions, Miracast!Receives, Miracast!Sends,
     Miracast!readKeeps, Miracast!controlVars, Miracast!demuxerVars, Exchange,
     MessageTypes, Shown, Told, Asks, Commands, Answers, IdleState
<1>5. MessageTypes'
  BY <1>1, <1>2, <1>3, <1>4 DEF Exchange, Miracast!AnswerOptions,
     Miracast!readKeeps, Miracast!controlVars, Miracast!demuxerVars, Took, Put,
     Ok, Answers, Commands, Asks, Shown, Told, MessageTypes
<1>6. OneAtATime'
  BY <1>1, <1>2, <1>3, <1>4 DEF Exchange, Miracast!AnswerOptions,
     Miracast!readKeeps, Miracast!controlVars, Miracast!demuxerVars, Took, Put,
     Ok, Answers, Commands, Asks, Shown, Told, OneAtATime, IdleState
<1>7. BeforeTrigger'
  BY <1>1, <1>2, <1>3, <1>4 DEF Exchange, Miracast!AnswerOptions,
     Miracast!readKeeps, Miracast!controlVars, Miracast!demuxerVars, Took, Put,
     Ok, Answers, Commands, Asks, Shown, Told, BeforeTrigger, IdleState
<1>8. TriggerLast'
  <2>1. CASE wfd = "Idle"
    <3>1. rtsp = "negotiate" /\ sent < 2
      BY <2>1 DEF Exchange, IdleState, Miracast!AnswerOptions
    <3>2. /\ None(toSink, {"TRIGGER"}) /\ Ahead(toSink, "ok", "TRIGGER")
          /\ Once(toSink, {"TRIGGER"}) /\ Ahead(toSink, "no", "TRIGGER")
      BY <3>1 DEF Exchange, TriggerLast
    <3>3. /\ None(toSink', {"TRIGGER"}) /\ Ahead(toSink', "ok", "TRIGGER")
          /\ Once(toSink', {"TRIGGER"}) /\ Ahead(toSink', "no", "TRIGGER")
      BY <1>1, <3>2 DEF Took
    <3> QED
      BY <3>3 DEF TriggerLast
  <2>2. CASE wfd # "Idle"
    BY <1>1, <1>3, <2>2 DEF Exchange, TriggerLast, Took, Put, Commands,
       Miracast!AnswerOptions, Miracast!readKeeps
  <2> QED
    BY <2>1, <2>2
<1>9. OptionsFirst'
  BY <1>1, <1>2, <1>3, <1>4 DEF Exchange, Miracast!AnswerOptions,
     Miracast!readKeeps, Miracast!controlVars, Miracast!demuxerVars, Took, Put,
     Ok, Answers, Commands, Asks, Shown, Told, OptionsFirst, IdleState
<1>10. IdleState'
  BY <1>1, <1>2, <1>3, <1>4 DEF Exchange, Miracast!AnswerOptions,
     Miracast!readKeeps, Miracast!controlVars, Miracast!demuxerVars, Took, Put,
     Ok, Answers, Commands, Asks, Shown, Told, IdleState, OneAsked
<1>11. SetupState'
  BY <1>1, <1>2, <1>3, <1>4 DEF Exchange, Miracast!AnswerOptions,
     Miracast!readKeeps, Miracast!controlVars, Miracast!demuxerVars, Took, Put,
     Ok, Answers, Commands, Asks, Shown, Told, SetupState, Denied
<1>12. SetupFirst'
  BY <1>1, <1>2, <1>3, <1>4 DEF Exchange, Miracast!AnswerOptions,
     Miracast!readKeeps, Miracast!controlVars, Miracast!demuxerVars, Took, Put,
     Ok, Answers, Commands, Asks, Shown, Told, SetupFirst
<1>13. PlayState'
  BY <1>1, <1>2, <1>3, <1>4 DEF Exchange, Miracast!AnswerOptions,
     Miracast!readKeeps, Miracast!controlVars, Miracast!demuxerVars, Took, Put,
     Ok, Answers, Commands, Asks, Shown, Told, PlayState, Denied
<1>14. OneAsked'
  BY <1>1, <1>2, <1>3, <1>4 DEF Exchange, Miracast!AnswerOptions,
     Miracast!readKeeps, Miracast!controlVars, Miracast!demuxerVars, Took, Put,
     Ok, Answers, Commands, Asks, Shown, Told, OneAsked, IdleState
<1>15. AskedWhat'
  BY <1>1, <1>2, <1>3, <1>4 DEF Exchange, Miracast!AnswerOptions,
     Miracast!readKeeps, Miracast!controlVars, Miracast!demuxerVars, Took, Put,
     Ok, Answers, Commands, Asks, Shown, Told, AskedWhat, Waiting, OneAsked,
     IdleState
<1>16. Quiet'
  BY <1>1, <1>2, <1>3, <1>4 DEF Exchange, Miracast!AnswerOptions,
     Miracast!readKeeps, Miracast!controlVars, Miracast!demuxerVars, Took, Put,
     Ok, Answers, Commands, Asks, Shown, Told, Quiet
<1>17. Granting'
  BY <1>1, <1>2, <1>3, <1>4 DEF Exchange, Miracast!AnswerOptions,
     Miracast!readKeeps, Miracast!controlVars, Miracast!demuxerVars, Took, Put,
     Ok, Answers, Commands, Asks, Shown, Told, Granting, Miracast!SessionGranted
<1>18. HandshakeLate'
  BY <1>1, <1>2, <1>3, <1>4 DEF Exchange, Miracast!AnswerOptions,
     Miracast!readKeeps, Miracast!controlVars, Miracast!demuxerVars, Took, Put,
     Ok, Answers, Commands, Asks, Shown, Told, HandshakeLate, OneAsked, AskedWhat,
     Waiting, MessageTypes, Miracast!Requests, Denied
<1> QED
  BY <1>5, <1>6, <1>7, <1>8, <1>9, <1>10, <1>11, <1>12, <1>13, <1>14, <1>15, <1>16,
     <1>17, <1>18 DEF Exchange

\* M3 and M4, or a keep-alive: an answer.
LEMMA AnswerParameterKeeps ==
    ASSUME Exchange, HandshakeLate, Flags', ThreadTypes, Miracast!AnswerParameter
    PROVE  Exchange' /\ HandshakeLate'
<1>1. \E m \in {"GET_PARAMETER", "SET_PARAMETER"} :
          toSink' \in Seq(Shown) /\ Took(toSink, toSink', m) /\ Len(toSink) \in Nat
  <2>1. PICK m \in {"GET_PARAMETER", "SET_PARAMETER"} : Miracast!Receives(m)
    BY DEF Miracast!AnswerParameter
  <2>2. toSink \in Seq(Shown)
    BY DEF Exchange, MessageTypes
  <2> QED
    BY <2>1, <2>2, Taken DEF Miracast!Receives
<1>2. toSource' \in Seq(Told) /\ Put(toSource, toSource', "ok") /\ Len(toSource) \in Nat
  BY AddedOne DEF Miracast!AnswerParameter, Miracast!Receives, Miracast!Sends,
     Miracast!readKeeps, Miracast!controlVars, Miracast!demuxerVars, Exchange,
     MessageTypes, Shown, Told, Asks, Commands, Answers
<1>3. MessageTypes'
  BY <1>1, <1>2 DEF Exchange, Miracast!AnswerParameter, Miracast!readKeeps,
     Miracast!controlVars, Miracast!demuxerVars, Took, Put, Ok, Answers, Commands,
     Asks, Shown, Told, MessageTypes
<1>4. OneAtATime'
  BY <1>1, <1>2 DEF Exchange, Miracast!AnswerParameter, Miracast!readKeeps,
     Miracast!controlVars, Miracast!demuxerVars, Took, Put, Ok, Answers, Commands,
     Asks, Shown, Told, OneAtATime
<1>5. BeforeTrigger'
  BY <1>1, <1>2 DEF Exchange, Miracast!AnswerParameter, Miracast!readKeeps,
     Miracast!controlVars, Miracast!demuxerVars, Took, Put, Ok, Answers, Commands,
     Asks, Shown, Told, BeforeTrigger
<1>6. TriggerLast'
  BY <1>1, <1>2 DEF Exchange, Miracast!AnswerParameter, Miracast!readKeeps,
     Miracast!controlVars, Miracast!demuxerVars, Took, Put, Ok, Answers, Commands,
     Asks, Shown, Told, TriggerLast, OneAtATime
<1>7. OptionsFirst'
  BY <1>1, <1>2 DEF Exchange, Miracast!AnswerParameter, Miracast!readKeeps,
     Miracast!controlVars, Miracast!demuxerVars, Took, Put, Ok, Answers, Commands,
     Asks, Shown, Told, OptionsFirst
<1>8. IdleState'
  BY <1>1, <1>2 DEF Exchange, Miracast!AnswerParameter, Miracast!readKeeps,
     Miracast!controlVars, Miracast!demuxerVars, Took, Put, Ok, Answers, Commands,
     Asks, Shown, Told, IdleState
<1>9. SetupState'
  BY <1>1, <1>2 DEF Exchange, Miracast!AnswerParameter, Miracast!readKeeps,
     Miracast!controlVars, Miracast!demuxerVars, Took, Put, Ok, Answers, Commands,
     Asks, Shown, Told, SetupState, Denied
<1>10. SetupFirst'
  BY <1>1, <1>2 DEF Exchange, Miracast!AnswerParameter, Miracast!readKeeps,
     Miracast!controlVars, Miracast!demuxerVars, Took, Put, Ok, Answers, Commands,
     Asks, Shown, Told, SetupFirst
<1>11. PlayState'
  BY <1>1, <1>2 DEF Exchange, Miracast!AnswerParameter, Miracast!readKeeps,
     Miracast!controlVars, Miracast!demuxerVars, Took, Put, Ok, Answers, Commands,
     Asks, Shown, Told, PlayState, Denied
<1>12. OneAsked'
  BY <1>1, <1>2 DEF Exchange, Miracast!AnswerParameter, Miracast!readKeeps,
     Miracast!controlVars, Miracast!demuxerVars, Took, Put, Ok, Answers, Commands,
     Asks, Shown, Told, OneAsked
<1>13. AskedWhat'
  BY <1>1, <1>2 DEF Exchange, Miracast!AnswerParameter, Miracast!readKeeps,
     Miracast!controlVars, Miracast!demuxerVars, Took, Put, Ok, Answers, Commands,
     Asks, Shown, Told, AskedWhat, Waiting, OneAsked
<1>14. Quiet'
  BY <1>1, <1>2 DEF Exchange, Miracast!AnswerParameter, Miracast!readKeeps,
     Miracast!controlVars, Miracast!demuxerVars, Took, Put, Ok, Answers, Commands,
     Asks, Shown, Told, Quiet
<1>15. Granting'
  BY <1>1, <1>2 DEF Exchange, Miracast!AnswerParameter, Miracast!readKeeps,
     Miracast!controlVars, Miracast!demuxerVars, Took, Put, Ok, Answers, Commands,
     Asks, Shown, Told, Granting, Miracast!SessionGranted
<1>16. HandshakeLate'
  BY <1>1, <1>2 DEF Exchange, Miracast!AnswerParameter, Miracast!readKeeps,
     Miracast!controlVars, Miracast!demuxerVars, Took, Put, Ok, Answers, Commands,
     Asks, Shown, Told, HandshakeLate, OneAsked, AskedWhat, Waiting, MessageTypes,
     Miracast!Requests, Denied
<1> QED
  BY <1>3, <1>4, <1>5, <1>6, <1>7, <1>8, <1>9, <1>10, <1>11, <1>12, <1>13, <1>14,
     <1>15, <1>16 DEF Exchange

\* M5: an answer with SETUP behind it.
LEMMA AnswerTriggerKeeps ==
    ASSUME Exchange, HandshakeLate, Flags', ThreadTypes, Miracast!AnswerTrigger
    PROVE  Exchange' /\ HandshakeLate'
<1>1. toSink' \in Seq(Shown) /\ Took(toSink, toSink', "TRIGGER") /\ Len(toSink) \in Nat
  BY Taken DEF Miracast!AnswerTrigger, Miracast!Receives, Miracast!Sends,
     Miracast!readKeeps, Miracast!controlVars, Miracast!demuxerVars, Exchange,
     MessageTypes, Shown, Told, Asks, Commands, Answers
<1>2. None(toSource, Commands) =>
          None(toSource, {"OPTIONS"}) /\ None(toSource, {"OPTIONS", "PLAY"})
  BY Fewer DEF Miracast!AnswerTrigger, Miracast!Receives, Miracast!Sends,
     Miracast!readKeeps, Miracast!controlVars, Miracast!demuxerVars, Exchange,
     MessageTypes, Shown, Told, Asks, Commands, Answers
<1>3. /\ toSource' \in Seq(Told) /\ Len(toSource) \in Nat
         /\ Put(toSource, Append(toSource, "ok"), "ok")
         /\ Put(Append(toSource, "ok"), toSource', "SETUP")
  <2>1. toSource' = toSource \o <<"ok", "SETUP">>
    BY DEF Miracast!AnswerTrigger, Miracast!Sends
  <2>2. toSource \in Seq(Told) /\ "ok" \in Told /\ "SETUP" \in Told
    BY DEF Exchange, MessageTypes, Told
  <2> QED
    BY <2>1, <2>2, AddedTwo, Added
<1>4. MessageTypes'
  BY <1>1, <1>2, <1>3 DEF Exchange, Miracast!AnswerTrigger, Miracast!readKeeps,
     Miracast!controlVars, Miracast!demuxerVars, Took, Put, Ok, Answers, Commands,
     Asks, Shown, Told, MessageTypes
<1>5. OneAtATime'
  <2>1. None(toSink, {"ok"}) /\ None(toSink, {"no"})
    BY <1>1 DEF Exchange, TriggerLast, Took, Miracast!AnswerTrigger
  <2>2. None(toSink, Answers)
    BY <2>1 DEF None, Answers
  <2>3. None(toSink', Answers) /\ Once(toSink', Answers)
    BY <1>1, <2>2, Vacant DEF Took, Exchange, OneAtATime, Miracast!AnswerTrigger
  <2>4. None(toSource, Commands) /\ Once(toSource', Commands)
    BY <1>1, <1>3 DEF Exchange, TriggerLast, OneAtATime, Took, Put, Commands,
       Miracast!AnswerTrigger
  <2> QED
    BY <2>3, <2>4 DEF OneAtATime
<1>6. BeforeTrigger'
  BY <1>1, <1>2, <1>3 DEF Exchange, Miracast!AnswerTrigger, Miracast!readKeeps,
     Miracast!controlVars, Miracast!demuxerVars, Took, Put, Ok, Answers, Commands,
     Asks, Shown, Told, BeforeTrigger, TriggerLast
<1>7. TriggerLast'
  BY <1>1, <1>2, <1>3 DEF Exchange, Miracast!AnswerTrigger, Miracast!readKeeps,
     Miracast!controlVars, Miracast!demuxerVars, Took, Put, Ok, Answers, Commands,
     Asks, Shown, Told, TriggerLast
<1>8. OptionsFirst'
  BY <1>1, <1>2, <1>3 DEF Exchange, Miracast!AnswerTrigger, Miracast!readKeeps,
     Miracast!controlVars, Miracast!demuxerVars, Took, Put, Ok, Answers, Commands,
     Asks, Shown, Told, OptionsFirst, TriggerLast
<1>9. IdleState'
  BY <1>1, <1>2, <1>3 DEF Exchange, Miracast!AnswerTrigger, Miracast!readKeeps,
     Miracast!controlVars, Miracast!demuxerVars, Took, Put, Ok, Answers, Commands,
     Asks, Shown, Told, IdleState
<1>10. SetupState'
  <2>1. sent = 4 => answered > 2
    BY DEF Exchange, AskedWhat, MessageTypes
  <2> QED
    BY <1>1, <1>2, <1>3, <2>1 DEF Exchange, Took, Put, Commands, Ok, SetupState,
       TriggerLast, Miracast!AnswerTrigger, Miracast!readKeeps, Denied
<1>11. SetupFirst'
  <2>1. CASE src = "in"
    <3>1. None(toSource, Ok) /\ None(toSource, Commands) /\ sent = 4
      BY <1>1, <2>1 DEF Exchange, OneAsked, TriggerLast, Took, Asks,
         Miracast!AnswerTrigger
    <3>2. Len(toSource) = 0
      BY <1>3, <3>1 DEF None, Exchange, MessageTypes, Told, Ok, Commands
    <3>3. answered = 3 /\ "SETUP" \notin granted
      BY <1>1, <2>1, <3>1 DEF Exchange, TriggerLast, Took,
         Miracast!AnswerTrigger, SetupFirst
    <3> QED
      BY <1>3, <3>2, <3>3 DEF Exchange, SetupFirst, Put,
         Miracast!AnswerTrigger, Miracast!readKeeps
  <2>2. CASE src # "in"
    BY <2>2 DEF SetupFirst, Miracast!AnswerTrigger
  <2> QED
    BY <2>1, <2>2
<1>12. PlayState'
  BY <1>1, <1>2, <1>3 DEF Exchange, Miracast!AnswerTrigger, Miracast!readKeeps,
     Miracast!controlVars, Miracast!demuxerVars, Took, Put, Ok, Answers, Commands,
     Asks, Shown, Told, PlayState, Denied
<1>13. OneAsked'
  BY <1>1, <1>2, <1>3 DEF Exchange, Miracast!AnswerTrigger, Miracast!readKeeps,
     Miracast!controlVars, Miracast!demuxerVars, Took, Put, Ok, Answers, Commands,
     Asks, Shown, Told, OneAsked
<1>14. AskedWhat'
  BY <1>1, <1>2, <1>3 DEF Exchange, Miracast!AnswerTrigger, Miracast!readKeeps,
     Miracast!controlVars, Miracast!demuxerVars, Took, Put, Ok, Answers, Commands,
     Asks, Shown, Told, AskedWhat, Waiting, OneAsked
<1>15. Quiet'
  BY <1>1, <1>2, <1>3 DEF Exchange, Miracast!AnswerTrigger, Miracast!readKeeps,
     Miracast!controlVars, Miracast!demuxerVars, Took, Put, Ok, Answers, Commands,
     Asks, Shown, Told, Quiet
<1>16. Granting'
  BY <1>1, <1>2, <1>3 DEF Exchange, Miracast!AnswerTrigger, Miracast!readKeeps,
     Miracast!controlVars, Miracast!demuxerVars, Took, Put, Ok, Answers, Commands,
     Asks, Shown, Told, Granting, Miracast!SessionGranted
<1>17. HandshakeLate'
  BY <1>1, <1>2, <1>3 DEF Exchange, Miracast!AnswerTrigger, Miracast!readKeeps,
     Miracast!controlVars, Miracast!demuxerVars, Took, Put, Ok, Answers, Commands,
     Asks, Shown, Told, HandshakeLate, Denied
<1> QED
  BY <1>4, <1>5, <1>6, <1>7, <1>8, <1>9, <1>10, <1>11, <1>12, <1>13, <1>14, <1>15,
     <1>16, <1>17 DEF Exchange

\* TEARDOWN: an answer, and the handshake is over.
LEMMA AnswerTeardownKeeps ==
    ASSUME Exchange, HandshakeLate, Flags', ThreadTypes, Miracast!AnswerTeardown
    PROVE  Exchange' /\ HandshakeLate'
<1>1. toSink' \in Seq(Shown) /\ Took(toSink, toSink', "TEARDOWN") /\ Len(toSink) \in Nat
  BY Taken DEF Miracast!AnswerTeardown, Miracast!Receives, Miracast!Sends,
     Miracast!readKeeps, Miracast!controlVars, Miracast!demuxerVars, Exchange,
     MessageTypes, Shown, Told, Asks, Commands, Answers
<1>2. toSource' \in Seq(Told) /\ Put(toSource, toSource', "ok") /\ Len(toSource) \in Nat
  BY AddedOne DEF Miracast!AnswerTeardown, Miracast!Receives, Miracast!Sends,
     Miracast!readKeeps, Miracast!controlVars, Miracast!demuxerVars, Exchange,
     MessageTypes, Shown, Told, Asks, Commands, Answers
<1>3. MessageTypes'
  BY <1>1, <1>2 DEF Exchange, Miracast!AnswerTeardown, Miracast!readKeeps,
     Miracast!controlVars, Miracast!demuxerVars, Took, Put, Ok, Answers, Commands,
     Asks, Shown, Told, MessageTypes
<1>4. OneAtATime'
  BY <1>1, <1>2 DEF Exchange, Miracast!AnswerTeardown, Miracast!readKeeps,
     Miracast!controlVars, Miracast!demuxerVars, Took, Put, Ok, Answers, Commands,
     Asks, Shown, Told, OneAtATime
<1>5. BeforeTrigger'
  BY <1>1, <1>2 DEF Exchange, Miracast!AnswerTeardown, Miracast!readKeeps,
     Miracast!controlVars, Miracast!demuxerVars, Took, Put, Ok, Answers, Commands,
     Asks, Shown, Told, BeforeTrigger
<1>6. TriggerLast'
  BY <1>1, <1>2 DEF Exchange, Miracast!AnswerTeardown, Miracast!readKeeps,
     Miracast!controlVars, Miracast!demuxerVars, Took, Put, Ok, Answers, Commands,
     Asks, Shown, Told, TriggerLast
<1>7. OptionsFirst'
  BY <1>1, <1>2 DEF Exchange, Miracast!AnswerTeardown, Miracast!readKeeps,
     Miracast!controlVars, Miracast!demuxerVars, Took, Put, Ok, Answers, Commands,
     Asks, Shown, Told, OptionsFirst
<1>8. IdleState'
  BY <1>1, <1>2 DEF Exchange, Miracast!AnswerTeardown, Miracast!readKeeps,
     Miracast!controlVars, Miracast!demuxerVars, Took, Put, Ok, Answers, Commands,
     Asks, Shown, Told, IdleState
<1>9. SetupState'
  BY <1>1, <1>2 DEF Exchange, Miracast!AnswerTeardown, Miracast!readKeeps,
     Miracast!controlVars, Miracast!demuxerVars, Took, Put, Ok, Answers, Commands,
     Asks, Shown, Told, SetupState, Denied
<1>10. SetupFirst'
  BY <1>1, <1>2 DEF Exchange, Miracast!AnswerTeardown, Miracast!readKeeps,
     Miracast!controlVars, Miracast!demuxerVars, Took, Put, Ok, Answers, Commands,
     Asks, Shown, Told, SetupFirst
<1>11. PlayState'
  BY <1>1, <1>2 DEF Exchange, Miracast!AnswerTeardown, Miracast!readKeeps,
     Miracast!controlVars, Miracast!demuxerVars, Took, Put, Ok, Answers, Commands,
     Asks, Shown, Told, PlayState, Denied
<1>12. OneAsked'
  BY <1>1, <1>2 DEF Exchange, Miracast!AnswerTeardown, Miracast!readKeeps,
     Miracast!controlVars, Miracast!demuxerVars, Took, Put, Ok, Answers, Commands,
     Asks, Shown, Told, OneAsked
<1>13. AskedWhat'
  BY <1>1, <1>2 DEF Exchange, Miracast!AnswerTeardown, Miracast!readKeeps,
     Miracast!controlVars, Miracast!demuxerVars, Took, Put, Ok, Answers, Commands,
     Asks, Shown, Told, AskedWhat, Waiting, OneAsked
<1>14. Quiet'
  BY <1>1, <1>2 DEF Exchange, Miracast!AnswerTeardown, Miracast!readKeeps,
     Miracast!controlVars, Miracast!demuxerVars, Took, Put, Ok, Answers, Commands,
     Asks, Shown, Told, Quiet
<1>15. Granting'
  BY <1>1, <1>2 DEF Exchange, Miracast!AnswerTeardown, Miracast!readKeeps,
     Miracast!controlVars, Miracast!demuxerVars, Took, Put, Ok, Answers, Commands,
     Asks, Shown, Told, Granting, Miracast!SessionGranted
<1>16. HandshakeLate'
  BY <1>1, <1>2 DEF Exchange, Miracast!AnswerTeardown, Miracast!readKeeps,
     Miracast!controlVars, Miracast!demuxerVars, Took, Put, Ok, Answers, Commands,
     Asks, Shown, Told, HandshakeLate, Denied
<1> QED
  BY <1>3, <1>4, <1>5, <1>6, <1>7, <1>8, <1>9, <1>10, <1>11, <1>12, <1>13, <1>14,
     <1>15, <1>16 DEF Exchange

\* A 200: by the order of the messages it is the one that the state waits for.
LEMMA GrantedKeeps ==
    ASSUME Exchange, HandshakeLate, Flags', rtsp = "negotiate", Miracast!Granted,
           UNCHANGED <<src, Miracast!readKeeps>>
    PROVE  Exchange' /\ HandshakeLate'
<1>1. toSink' \in Seq(Shown) /\ Took(toSink, toSink', "ok") /\ Len(toSink) \in Nat
  BY Taken DEF Miracast!Granted, Miracast!Receives, Miracast!Sends,
     Miracast!readKeeps, Miracast!controlVars, Miracast!demuxerVars, Exchange,
     MessageTypes, Shown, Told, Asks, Commands, Answers
<1>2. ASSUME wfd = "M6_Sent" PROVE
      toSource' \in Seq(Told) /\ Put(toSource, toSource', "PLAY") /\ Len(toSource) \in Nat
  <2>1. toSource' = toSource \o <<"PLAY">>
    BY <1>2 DEF Miracast!Granted, Miracast!Sends
  <2>2. toSource \in Seq(Told) /\ "PLAY" \in Told
    BY DEF Exchange, MessageTypes, Told
  <2> QED
    BY <2>1, <2>2, AddedOne
<1>3. None(toSource, Commands) =>
          None(toSource, {"OPTIONS", "SETUP"}) /\ None(toSource, {"PLAY"})
  BY Fewer DEF Miracast!Granted, Miracast!Receives, Miracast!Sends,
     Miracast!readKeeps, Miracast!controlVars, Miracast!demuxerVars, Exchange,
     MessageTypes, Shown, Told, Asks, Commands, Answers
<1>4. wfd # "M6_Sent" => UNCHANGED toSource
  BY DEF Miracast!Granted, Miracast!Receives, Miracast!Sends,
     Miracast!readKeeps, Miracast!controlVars, Miracast!demuxerVars, Exchange,
     MessageTypes, Shown, Told, Asks, Commands, Answers
<1>5. MessageTypes'
  BY <1>1, <1>2, <1>3, <1>4 DEF Exchange, Miracast!Granted,
     Miracast!readKeeps, Miracast!controlVars, Miracast!demuxerVars, Took, Put,
     Ok, Answers, Commands, Asks, Shown, Told, MessageTypes
<1>6. OneAtATime'
  BY <1>1, <1>2, <1>3, <1>4 DEF Exchange, Miracast!Granted,
     Miracast!readKeeps, Miracast!controlVars, Miracast!demuxerVars, Took, Put,
     Ok, Answers, Commands, Asks, Shown, Told, OneAtATime
<1>7. BeforeTrigger'
  BY <1>1, <1>2, <1>3, <1>4 DEF Exchange, Miracast!Granted,
     Miracast!readKeeps, Miracast!controlVars, Miracast!demuxerVars, Took, Put,
     Ok, Answers, Commands, Asks, Shown, Told, BeforeTrigger
<1>8. TriggerLast'
  BY <1>1, <1>2, <1>3, <1>4 DEF Exchange, Miracast!Granted,
     Miracast!readKeeps, Miracast!controlVars, Miracast!demuxerVars, Took, Put,
     Ok, Answers, Commands, Asks, Shown, Told, TriggerLast, OneAtATime
<1>9. OptionsFirst'
  BY <1>1, <1>2, <1>3, <1>4 DEF Exchange, Miracast!Granted,
     Miracast!readKeeps, Miracast!controlVars, Miracast!demuxerVars, Took, Put,
     Ok, Answers, Commands, Asks, Shown, Told, OptionsFirst
<1>10. IdleState'
  BY <1>1, <1>2, <1>3, <1>4 DEF Exchange, Miracast!Granted,
     Miracast!readKeeps, Miracast!controlVars, Miracast!demuxerVars, Took, Put,
     Ok, Answers, Commands, Asks, Shown, Told, IdleState
<1>11. SetupState'
  BY <1>1, <1>2, <1>3, <1>4 DEF Exchange, Miracast!Granted,
     Miracast!readKeeps, Miracast!controlVars, Miracast!demuxerVars, Took, Put,
     Ok, Answers, Commands, Asks, Shown, Told, SetupState, OneAtATime, Denied
<1>12. SetupFirst'
  BY <1>1, <1>2, <1>3, <1>4 DEF Exchange, Miracast!Granted,
     Miracast!readKeeps, Miracast!controlVars, Miracast!demuxerVars, Took, Put,
     Ok, Answers, Commands, Asks, Shown, Told, SetupFirst
<1>13. PlayState'
  <2>1. CASE wfd = "M6_Sent"
    <3>1. answered > 2 /\ "SETUP" \in granted
      BY <1>1, <2>1 DEF Exchange, SetupState, Took, Ok
    <3>2. None(toSource, Commands) /\ None(toSink', Answers)
      BY <1>1 DEF Exchange, OneAtATime, Took, Answers
    <3>3. None(toSource', {"OPTIONS", "SETUP"})
      BY <1>2, <1>3, <2>1, <3>2 DEF Put
    <3>4. None(toSink', Ok) /\ None(toSink', {"no"})
      BY <3>2, Fewer DEF Answers, Ok
    <3> QED
      BY <3>1, <3>3, <3>4 DEF PlayState, Miracast!readKeeps
  <2>2. CASE wfd # "M6_Sent"
    BY <2>2 DEF PlayState, Miracast!Granted
  <2> QED
    BY <2>1, <2>2
<1>14. OneAsked'
  BY <1>1, <1>2, <1>3, <1>4 DEF Exchange, Miracast!Granted,
     Miracast!readKeeps, Miracast!controlVars, Miracast!demuxerVars, Took, Put,
     Ok, Answers, Commands, Asks, Shown, Told, OneAsked
<1>15. AskedWhat'
  BY <1>1, <1>2, <1>3, <1>4 DEF Exchange, Miracast!Granted,
     Miracast!readKeeps, Miracast!controlVars, Miracast!demuxerVars, Took, Put,
     Ok, Answers, Commands, Asks, Shown, Told, AskedWhat, Waiting
<1>16. Quiet'
  BY <1>1, <1>2, <1>3, <1>4 DEF Exchange, Miracast!Granted,
     Miracast!readKeeps, Miracast!controlVars, Miracast!demuxerVars, Took, Put,
     Ok, Answers, Commands, Asks, Shown, Told, Quiet
<1>17. Granting'
  BY <1>1, <1>2, <1>3, <1>4 DEF Exchange, Miracast!Granted,
     Miracast!readKeeps, Miracast!controlVars, Miracast!demuxerVars, Took, Put,
     Ok, Answers, Commands, Asks, Shown, Told, Granting, Miracast!SessionGranted,
     PlayState, SetupState, Denied
<1>18. HandshakeLate'
  BY <1>1, <1>2, <1>3, <1>4 DEF Exchange, Miracast!Granted,
     Miracast!readKeeps, Miracast!controlVars, Miracast!demuxerVars, Took, Put,
     Ok, Answers, Commands, Asks, Shown, Told, HandshakeLate, PlayState,
     SetupState, OneAtATime, Denied
<1> QED
  BY <1>5, <1>6, <1>7, <1>8, <1>9, <1>10, <1>11, <1>12, <1>13, <1>14, <1>15, <1>16,
     <1>17, <1>18 DEF Exchange

\* A refusal: the queue of the source's messages loses it, and the state goes on
\* waiting.
LEMMA RefusedKeeps ==
    ASSUME Exchange, HandshakeLate, Flags', rtsp = "negotiate", Miracast!Refused,
           UNCHANGED <<src, Miracast!readKeeps>>
    PROVE  Exchange' /\ HandshakeLate'
<1>1. toSink' \in Seq(Shown) /\ Took(toSink, toSink', "no")
  BY Taken DEF Miracast!Refused, Miracast!Receives, Exchange, MessageTypes
<1>2. UNCHANGED <<rtsp, wfd, src, toSource, sent, answered, polling, granted, refused,
                  crossed>>
  BY DEF Miracast!Refused, Miracast!readKeeps
<1>3. MessageTypes'
  BY <1>1, <1>2 DEF Exchange, Took, Answers, Ok, Asks, MessageTypes
<1>4. OneAtATime'
  BY <1>1, <1>2 DEF Exchange, Took, Answers, Ok, Asks, OneAtATime
<1>5. BeforeTrigger'
  BY <1>1, <1>2 DEF Exchange, Took, Answers, Ok, Asks, BeforeTrigger
<1>6. TriggerLast'
  BY <1>1, <1>2 DEF Exchange, Took, Answers, Ok, Asks, TriggerLast
<1>7. OptionsFirst'
  BY <1>1, <1>2 DEF Exchange, Took, Answers, Ok, Asks, OptionsFirst
<1>8. IdleState'
  BY <1>1, <1>2 DEF Exchange, Took, Answers, Ok, Asks, IdleState
<1>9. SetupState'
  BY <1>1, <1>2 DEF Exchange, Took, Answers, Ok, Asks, SetupState, Denied
<1>10. SetupFirst'
  BY <1>1, <1>2 DEF Exchange, Took, Answers, Ok, Asks, SetupFirst
<1>11. PlayState'
  BY <1>1, <1>2 DEF Exchange, Took, Answers, Ok, Asks, PlayState, Denied
<1>12. OneAsked'
  BY <1>1, <1>2 DEF Exchange, Took, Answers, Ok, Asks, OneAsked
<1>13. AskedWhat'
  BY <1>1, <1>2 DEF Exchange, Took, Answers, Ok, Asks, AskedWhat, Waiting, OneAsked
<1>14. Quiet'
  BY <1>1, <1>2 DEF Exchange, Took, Answers, Ok, Asks, Quiet
<1>15. Granting'
  BY <1>1, <1>2 DEF Exchange, Took, Answers, Ok, Asks, Granting, Miracast!SessionGranted
<1>16. HandshakeLate'
  BY <1>1, <1>2 DEF Exchange, Took, Answers, Ok, Asks, HandshakeLate, SetupState, PlayState, Denied
<1> QED
  BY <1>3, <1>4, <1>5, <1>6, <1>7, <1>8, <1>9, <1>10, <1>11, <1>12, <1>13, <1>14,
     <1>15, <1>16 DEF Exchange

\* An answer.
LEMMA NegotiateAnswerKeeps ==
    ASSUME Exchange, HandshakeLate, Flags', ThreadTypes, Miracast!NegotiateAnswer
    PROVE  Exchange' /\ HandshakeLate'
<1>1. rtsp = "negotiate" /\ UNCHANGED <<src, Miracast!readKeeps>>
  BY DEF Miracast!NegotiateAnswer
<1>2. CASE Miracast!Granted
  BY <1>1, <1>2, GrantedKeeps
<1>3. CASE Miracast!Refused
  BY <1>1, <1>3, RefusedKeeps
<1> QED
  BY <1>2, <1>3 DEF Miracast!NegotiateAnswer

\* The end of the connection.
LEMMA ReadEndsKeeps ==
    ASSUME Exchange, HandshakeLate, Flags', ThreadTypes, Miracast!ReadEnds
    PROVE  Exchange' /\ HandshakeLate'
<1>1. MessageTypes'
  BY DEF Exchange, Miracast!ReadEnds, Miracast!readKeeps, Miracast!controlVars,
     Miracast!demuxerVars, Took, Put, Ok, Answers, Commands, Asks, Shown, Told,
     MessageTypes
<1>2. OneAtATime'
  BY DEF Exchange, Miracast!ReadEnds, Miracast!readKeeps, Miracast!controlVars,
     Miracast!demuxerVars, Took, Put, Ok, Answers, Commands, Asks, Shown, Told,
     OneAtATime
<1>3. BeforeTrigger'
  BY DEF Exchange, Miracast!ReadEnds, Miracast!readKeeps, Miracast!controlVars,
     Miracast!demuxerVars, Took, Put, Ok, Answers, Commands, Asks, Shown, Told,
     BeforeTrigger
<1>4. TriggerLast'
  BY DEF Exchange, Miracast!ReadEnds, Miracast!readKeeps, Miracast!controlVars,
     Miracast!demuxerVars, Took, Put, Ok, Answers, Commands, Asks, Shown, Told,
     TriggerLast
<1>5. OptionsFirst'
  BY DEF Exchange, Miracast!ReadEnds, Miracast!readKeeps, Miracast!controlVars,
     Miracast!demuxerVars, Took, Put, Ok, Answers, Commands, Asks, Shown, Told,
     OptionsFirst
<1>6. IdleState'
  BY DEF Exchange, Miracast!ReadEnds, Miracast!readKeeps, Miracast!controlVars,
     Miracast!demuxerVars, Took, Put, Ok, Answers, Commands, Asks, Shown, Told,
     IdleState
<1>7. SetupState'
  BY DEF Exchange, Miracast!ReadEnds, Miracast!readKeeps, Miracast!controlVars,
     Miracast!demuxerVars, Took, Put, Ok, Answers, Commands, Asks, Shown, Told,
     SetupState, Denied
<1>8. SetupFirst'
  BY DEF Exchange, Miracast!ReadEnds, Miracast!readKeeps, Miracast!controlVars,
     Miracast!demuxerVars, Took, Put, Ok, Answers, Commands, Asks, Shown, Told,
     SetupFirst
<1>9. PlayState'
  BY DEF Exchange, Miracast!ReadEnds, Miracast!readKeeps, Miracast!controlVars,
     Miracast!demuxerVars, Took, Put, Ok, Answers, Commands, Asks, Shown, Told,
     PlayState, Denied
<1>10. OneAsked'
  BY DEF Exchange, Miracast!ReadEnds, Miracast!readKeeps, Miracast!controlVars,
     Miracast!demuxerVars, Took, Put, Ok, Answers, Commands, Asks, Shown, Told,
     OneAsked
<1>11. AskedWhat'
  BY DEF Exchange, Miracast!ReadEnds, Miracast!readKeeps, Miracast!controlVars,
     Miracast!demuxerVars, Took, Put, Ok, Answers, Commands, Asks, Shown, Told,
     AskedWhat, Waiting
<1>12. Quiet'
  BY DEF Exchange, Miracast!ReadEnds, Miracast!readKeeps, Miracast!controlVars,
     Miracast!demuxerVars, Took, Put, Ok, Answers, Commands, Asks, Shown, Told,
     Quiet
<1>13. Granting'
  BY DEF Exchange, Miracast!ReadEnds, Miracast!readKeeps, Miracast!controlVars,
     Miracast!demuxerVars, Took, Put, Ok, Answers, Commands, Asks, Shown, Told,
     Granting, Miracast!SessionGranted
<1>14. HandshakeLate'
  BY DEF Exchange, Miracast!ReadEnds, Miracast!readKeeps, Miracast!controlVars,
     Miracast!demuxerVars, Took, Put, Ok, Answers, Commands, Asks, Shown, Told,
     HandshakeLate, Denied
<1> QED
  BY <1>1, <1>2, <1>3, <1>4, <1>5, <1>6, <1>7, <1>8, <1>9, <1>10, <1>11, <1>12,
     <1>13,
     <1>14 DEF Exchange

\* A message while streaming.
LEMMA HandleMessageKeeps ==
    ASSUME Exchange, HandshakeLate, Flags', ThreadTypes, Miracast!HandleMessage
    PROVE  Exchange' /\ HandshakeLate'
<1>1. toSink' \in Seq(Shown) /\ Took(toSink, toSink', Head(toSink)) /\ Len(toSink) \in Nat
  BY Taken DEF Miracast!HandleMessage, Miracast!Sends, Miracast!readKeeps,
     Miracast!controlVars, Miracast!demuxerVars, Exchange, MessageTypes, Shown,
     Told, Asks, Commands
<1>2. Head(toSink) \in Shown
  BY Taken DEF Miracast!HandleMessage, Miracast!Sends, Miracast!readKeeps,
     Miracast!controlVars, Miracast!demuxerVars, Exchange, MessageTypes, Shown,
     Told, Asks, Commands
<1>3. ASSUME Head(toSink) \notin Answers PROVE
      toSource' \in Seq(Told) /\ Put(toSource, toSource', "ok") /\ Len(toSource) \in Nat
  BY <1>3, AddedOne DEF Miracast!HandleMessage, Miracast!Sends,
     Miracast!readKeeps, Miracast!controlVars, Miracast!demuxerVars, Exchange,
     MessageTypes, Shown, Told, Asks, Commands, Answers
<1>4. MessageTypes'
  BY <1>1, <1>2, <1>3 DEF Exchange, Miracast!HandleMessage, Miracast!readKeeps,
     Miracast!controlVars, Miracast!demuxerVars, Took, Put, Ok, Answers, Commands,
     Asks, Shown, Told, MessageTypes
<1>5. OneAtATime'
  BY <1>1, <1>2, <1>3 DEF Exchange, Miracast!HandleMessage, Miracast!readKeeps,
     Miracast!controlVars, Miracast!demuxerVars, Took, Put, Ok, Answers, Commands,
     Asks, Shown, Told, OneAtATime
<1>6. BeforeTrigger'
  BY <1>1, <1>2, <1>3 DEF Exchange, Miracast!HandleMessage, Miracast!readKeeps,
     Miracast!controlVars, Miracast!demuxerVars, Took, Put, Ok, Answers, Commands,
     Asks, Shown, Told, BeforeTrigger
<1>7. TriggerLast'
  BY <1>1, <1>2, <1>3 DEF Exchange, Miracast!HandleMessage, Miracast!readKeeps,
     Miracast!controlVars, Miracast!demuxerVars, Took, Put, Ok, Answers, Commands,
     Asks, Shown, Told, TriggerLast
<1>8. OptionsFirst'
  BY <1>1, <1>2, <1>3 DEF Exchange, Miracast!HandleMessage, Miracast!readKeeps,
     Miracast!controlVars, Miracast!demuxerVars, Took, Put, Ok, Answers, Commands,
     Asks, Shown, Told, OptionsFirst
<1>9. IdleState'
  BY <1>1, <1>2, <1>3 DEF Exchange, Miracast!HandleMessage, Miracast!readKeeps,
     Miracast!controlVars, Miracast!demuxerVars, Took, Put, Ok, Answers, Commands,
     Asks, Shown, Told, IdleState
<1>10. SetupState'
  BY <1>1, <1>2, <1>3 DEF Exchange, Miracast!HandleMessage, Miracast!readKeeps,
     Miracast!controlVars, Miracast!demuxerVars, Took, Put, Ok, Answers, Commands,
     Asks, Shown, Told, SetupState, Denied
<1>11. SetupFirst'
  BY <1>1, <1>2, <1>3 DEF Exchange, Miracast!HandleMessage, Miracast!readKeeps,
     Miracast!controlVars, Miracast!demuxerVars, Took, Put, Ok, Answers, Commands,
     Asks, Shown, Told, SetupFirst
<1>12. PlayState'
  BY <1>1, <1>2, <1>3 DEF Exchange, Miracast!HandleMessage, Miracast!readKeeps,
     Miracast!controlVars, Miracast!demuxerVars, Took, Put, Ok, Answers, Commands,
     Asks, Shown, Told, PlayState, Denied
<1>13. OneAsked'
  BY <1>1, <1>2, <1>3 DEF Exchange, Miracast!HandleMessage, Miracast!readKeeps,
     Miracast!controlVars, Miracast!demuxerVars, Took, Put, Ok, Answers, Commands,
     Asks, Shown, Told, OneAsked
<1>14. AskedWhat'
  BY <1>1, <1>2, <1>3 DEF Exchange, Miracast!HandleMessage, Miracast!readKeeps,
     Miracast!controlVars, Miracast!demuxerVars, Took, Put, Ok, Answers, Commands,
     Asks, Shown, Told, AskedWhat, Waiting, OneAsked
<1>15. Quiet'
  BY <1>1, <1>2, <1>3 DEF Exchange, Miracast!HandleMessage, Miracast!readKeeps,
     Miracast!controlVars, Miracast!demuxerVars, Took, Put, Ok, Answers, Commands,
     Asks, Shown, Told, Quiet
<1>16. Granting'
  BY <1>1, <1>2, <1>3 DEF Exchange, Miracast!HandleMessage, Miracast!readKeeps,
     Miracast!controlVars, Miracast!demuxerVars, Took, Put, Ok, Answers, Commands,
     Asks, Shown, Told, Granting, Miracast!SessionGranted
<1>17. HandshakeLate'
  BY <1>1, <1>2, <1>3 DEF Exchange, Miracast!HandleMessage, Miracast!readKeeps,
     Miracast!controlVars, Miracast!demuxerVars, Took, Put, Ok, Answers, Commands,
     Asks, Shown, Told, HandshakeLate, Denied
<1> QED
  BY <1>4, <1>5, <1>6, <1>7, <1>8, <1>9, <1>10, <1>11, <1>12, <1>13, <1>14, <1>15,
     <1>16, <1>17 DEF Exchange

\* The session is closed.
LEMMA CloseKeeps ==
    ASSUME Exchange, HandshakeLate, Flags', ThreadTypes, Miracast!Close
    PROVE  Exchange' /\ HandshakeLate'
<1>1. /\ toSink' = <<>> /\ toSource' = <<>> /\ Len(toSink') = 0 /\ Len(toSource') = 0
      /\ \A S : /\ None(toSink', S) /\ Once(toSink', S)
                /\ None(toSource', S) /\ Once(toSource', S)
      /\ \A a, b : Ahead(toSink', a, b)
  BY Empty DEF Miracast!Close, Miracast!controlVars, Exchange, MessageTypes,
     Shown, Told, Asks, Commands
<1>2. MessageTypes'
  BY <1>1 DEF Exchange, Miracast!Close, Miracast!controlVars, Took, Put, Ok,
     Answers, Commands, Asks, Shown, Told, MessageTypes
<1>3. OneAtATime'
  BY <1>1 DEF Exchange, Miracast!Close, Miracast!controlVars, Took, Put, Ok,
     Answers, Commands, Asks, Shown, Told, OneAtATime
<1>4. BeforeTrigger'
  BY <1>1 DEF Exchange, Miracast!Close, Miracast!controlVars, Took, Put, Ok,
     Answers, Commands, Asks, Shown, Told, BeforeTrigger
<1>5. TriggerLast'
  BY <1>1 DEF Exchange, Miracast!Close, Miracast!controlVars, Took, Put, Ok,
     Answers, Commands, Asks, Shown, Told, TriggerLast
<1>6. OptionsFirst'
  BY <1>1 DEF Exchange, Miracast!Close, Miracast!controlVars, Took, Put, Ok,
     Answers, Commands, Asks, Shown, Told, OptionsFirst
<1>7. IdleState'
  BY <1>1 DEF Exchange, Miracast!Close, Miracast!controlVars, Took, Put, Ok,
     Answers, Commands, Asks, Shown, Told, IdleState
<1>8. SetupState'
  BY <1>1 DEF Exchange, Miracast!Close, Miracast!controlVars, Took, Put, Ok,
     Answers, Commands, Asks, Shown, Told, SetupState, Denied
<1>9. SetupFirst'
  BY <1>1 DEF Exchange, Miracast!Close, Miracast!controlVars, Took, Put, Ok,
     Answers, Commands, Asks, Shown, Told, SetupFirst
<1>10. PlayState'
  BY <1>1 DEF Exchange, Miracast!Close, Miracast!controlVars, Took, Put, Ok,
     Answers, Commands, Asks, Shown, Told, PlayState, Denied
<1>11. OneAsked'
  BY <1>1 DEF Exchange, Miracast!Close, Miracast!controlVars, Took, Put, Ok,
     Answers, Commands, Asks, Shown, Told, OneAsked
<1>12. AskedWhat'
  BY <1>1 DEF Exchange, Miracast!Close, Miracast!controlVars, Took, Put, Ok,
     Answers, Commands, Asks, Shown, Told, AskedWhat, Waiting
<1>13. Quiet'
  BY <1>1 DEF Exchange, Miracast!Close, Miracast!controlVars, Took, Put, Ok,
     Answers, Commands, Asks, Shown, Told, Quiet
<1>14. Granting'
  BY <1>1 DEF Exchange, Miracast!Close, Miracast!controlVars, Took, Put, Ok,
     Answers, Commands, Asks, Shown, Told, Granting, Miracast!SessionGranted
<1>15. HandshakeLate'
  BY <1>1 DEF Exchange, Miracast!Close, Miracast!controlVars, Took, Put, Ok,
     Commands, Asks, Shown, Told, HandshakeLate, Denied
<1> QED
  BY <1>2, <1>3, <1>4, <1>5, <1>6, <1>7, <1>8, <1>9, <1>10, <1>11, <1>12, <1>13,
     <1>14, <1>15 DEF Exchange

\* The source asks its next request.
LEMMA SourceAsksKeeps ==
    ASSUME Exchange, HandshakeLate, Flags', ThreadTypes, Miracast!SourceAsks
    PROVE  Exchange' /\ HandshakeLate'
<1>1. /\ Miracast!Requests[sent + 1] \in Asks /\ Miracast!Requests[sent + 1] \in Shown
      /\ Miracast!Requests[sent + 1] = "TRIGGER" <=> sent = 3
  BY DEF Miracast!SourceAsks, Miracast!sinkVars, Miracast!controlVars,
     Miracast!demuxerVars, Exchange, MessageTypes, Shown, Told, Asks, Commands,
     Answers, Miracast!Requests
<1>2. /\ toSink' \in Seq(Shown) /\ Len(toSink) \in Nat
      /\ Put(toSink, toSink', Miracast!Requests[sent + 1])
  BY <1>1, Added DEF Miracast!SourceAsks, Miracast!sinkVars, Miracast!controlVars,
     Miracast!demuxerVars, Exchange, MessageTypes, Shown, Told, Asks, Commands,
     Answers
<1>3. None(toSource, {"OPTIONS"}) /\ None(toSource, {"SETUP", "PLAY"}) =>
          None(toSource, Commands)
  BY Both DEF Miracast!SourceAsks, Miracast!sinkVars, Miracast!controlVars,
     Miracast!demuxerVars, Exchange, MessageTypes, Shown, Told, Asks, Commands,
     Answers
<1>4. None(toSink, Asks) =>
          None(toSink, {"TRIGGER"}) /\ None(toSink, Asks \ {Miracast!Requests[sent + 1]})
  BY Fewer DEF Miracast!SourceAsks, Miracast!sinkVars, Miracast!controlVars,
     Miracast!demuxerVars, Exchange, MessageTypes, Shown, Told, Asks, Commands,
     Answers
<1>5. MessageTypes'
  BY <1>1, <1>2, <1>3, <1>4 DEF Exchange, Miracast!SourceAsks, Miracast!sinkVars,
     Miracast!controlVars, Miracast!demuxerVars, Took, Put, Ok, Answers, Commands,
     Asks, Shown, Told, MessageTypes
<1>6. OneAtATime'
  BY <1>1, <1>2, <1>3, <1>4 DEF Exchange, Miracast!SourceAsks, Miracast!sinkVars,
     Miracast!controlVars, Miracast!demuxerVars, Took, Put, Ok, Answers, Commands,
     Asks, Shown, Told, OneAtATime
<1>7. BeforeTrigger'
  BY <1>1, <1>2, <1>3, <1>4 DEF Exchange, Miracast!SourceAsks, Miracast!sinkVars,
     Miracast!controlVars, Miracast!demuxerVars, Took, Put, Ok, Answers, Commands,
     Asks, Shown, Told, BeforeTrigger, MessageTypes
<1>8. TriggerLast'
  BY <1>1, <1>2, <1>3, <1>4 DEF Exchange, Miracast!SourceAsks, Miracast!sinkVars,
     Miracast!controlVars, Miracast!demuxerVars, Took, Put, Ok, Answers, Commands,
     Asks, Shown, Told, TriggerLast, BeforeTrigger, OneAtATime, OptionsFirst,
     AskedWhat, Waiting, SetupState, PlayState, MessageTypes, Denied
<1>9. OptionsFirst'
  BY <1>1, <1>2, <1>3, <1>4 DEF Exchange, Miracast!SourceAsks, Miracast!sinkVars,
     Miracast!controlVars, Miracast!demuxerVars, Took, Put, Ok, Answers, Commands,
     Asks, Shown, Told, OptionsFirst
<1>10. IdleState'
  BY <1>1, <1>2, <1>3, <1>4 DEF Exchange, Miracast!SourceAsks, Miracast!sinkVars,
     Miracast!controlVars, Miracast!demuxerVars, Took, Put, Ok, Answers, Commands,
     Asks, Shown, Told, IdleState, MessageTypes, AskedWhat, Waiting
<1>11. SetupState'
  BY <1>1, <1>2, <1>3, <1>4 DEF Exchange, Miracast!SourceAsks, Miracast!sinkVars,
     Miracast!controlVars, Miracast!demuxerVars, Took, Put, Ok, Answers, Commands,
     Asks, Shown, Told, SetupState, Denied
<1>12. SetupFirst'
  BY <1>1, <1>2, <1>3, <1>4 DEF Exchange, Miracast!SourceAsks, Miracast!sinkVars,
     Miracast!controlVars, Miracast!demuxerVars, Took, Put, Ok, Answers, Commands,
     Asks, Shown, Told, SetupFirst
<1>13. PlayState'
  BY <1>1, <1>2, <1>3, <1>4 DEF Exchange, Miracast!SourceAsks, Miracast!sinkVars,
     Miracast!controlVars, Miracast!demuxerVars, Took, Put, Ok, Answers, Commands,
     Asks, Shown, Told, PlayState, Denied
<1>14. OneAsked'
  BY <1>1, <1>2, <1>3, <1>4 DEF Exchange, Miracast!SourceAsks, Miracast!sinkVars,
     Miracast!controlVars, Miracast!demuxerVars, Took, Put, Ok, Answers, Commands,
     Asks, Shown, Told, OneAsked, AskedWhat, Waiting
<1>15. AskedWhat'
  BY <1>1, <1>2, <1>3, <1>4 DEF Exchange, Miracast!SourceAsks, Miracast!sinkVars,
     Miracast!controlVars, Miracast!demuxerVars, Took, Put, Ok, Answers, Commands,
     Asks, Shown, Told, AskedWhat, Waiting
<1>16. Quiet'
  BY <1>1, <1>2, <1>3, <1>4 DEF Exchange, Miracast!SourceAsks, Miracast!sinkVars,
     Miracast!controlVars, Miracast!demuxerVars, Took, Put, Ok, Answers, Commands,
     Asks, Shown, Told, Quiet
<1>17. Granting'
  BY <1>1, <1>2, <1>3, <1>4 DEF Exchange, Miracast!SourceAsks, Miracast!sinkVars,
     Miracast!controlVars, Miracast!demuxerVars, Took, Put, Ok, Answers, Commands,
     Asks, Shown, Told, Granting, Miracast!SessionGranted
<1>18. HandshakeLate'
  BY <1>1, <1>2, <1>3, <1>4 DEF Exchange, Miracast!SourceAsks, Miracast!sinkVars,
     Miracast!controlVars, Miracast!demuxerVars, Took, Put, Ok, Answers, Commands,
     Asks, Shown, Told, HandshakeLate, MessageTypes, Denied
<1> QED
  BY <1>5, <1>6, <1>7, <1>8, <1>9, <1>10, <1>11, <1>12, <1>13, <1>14, <1>15, <1>16,
     <1>17, <1>18 DEF Exchange

\* The source reads an answer.
LEMMA AnswerRead ==
    ASSUME Exchange, HandshakeLate, Flags', src = "in",
           UNCHANGED <<src, sent, rtsp, wfd, toSink, granted, refused, crossed>>,
           toSource' \in Seq(Told), Took(toSource, toSource', "ok"),
           polling' = FALSE, answered' = IF polling THEN answered ELSE answered + 1
    PROVE  Exchange' /\ HandshakeLate'
<1>1. Waiting /\ None(toSink, Asks) /\ None(toSource', Ok)
  BY DEF Exchange, AskedWhat, OneAsked, Took, Ok
<1>2. /\ answered' = sent /\ answered <= answered' /\ answered \in Nat /\ sent \in 0..4
      /\ answered = 0 => answered' = 1 \/ polling
  BY <1>1 DEF Exchange, Waiting, MessageTypes, AskedWhat
<1>3. MessageTypes'
  BY <1>1, <1>2 DEF Exchange, Took, Put, Ok, Answers, Commands, Asks, MessageTypes
<1>4. OneAtATime'
  BY <1>1, <1>2 DEF Exchange, Took, Put, Ok, Answers, Commands, Asks, OneAtATime
<1>5. BeforeTrigger'
  BY <1>1, <1>2 DEF Exchange, Took, Put, Ok, Answers, Commands, Asks, BeforeTrigger
<1>6. TriggerLast'
  <2>1. None(toSink, {"TRIGGER"})
    BY <1>1, Fewer DEF Asks
  <2> QED
    BY <2>1 DEF Exchange, TriggerLast
<1>7. OptionsFirst'
  <2>1. CASE None(toSource, {"OPTIONS"})
    BY <2>1 DEF Exchange, OptionsFirst, Took
  <2>2. CASE ~None(toSource, {"OPTIONS"})
    BY <2>2 DEF Exchange, OptionsFirst, Took
  <2> QED
    BY <2>1, <2>2
<1>8. IdleState'
  BY <1>1, <1>2 DEF Exchange, Took, Put, Ok, Answers, Commands, Asks, IdleState
<1>9. SetupState'
  BY <1>2 DEF Exchange, SetupState, Took, Denied
<1>10. SetupFirst'
  <2>1. "SETUP" \in granted /\ rtsp = "negotiate" => answered' = 4
    BY <1>2 DEF Exchange, SetupFirst
  <2>2. CASE None(toSource, {"SETUP"})
    BY <2>1, <2>2 DEF Exchange, SetupFirst, Took
  <2>3. CASE ~None(toSource, {"SETUP"})
    <3>1. ~None(toSource, {"SETUP", "PLAY"})
      BY <2>3, Fewer
    <3>2. rtsp = "negotiate" => sent = 4
      BY <3>1 DEF Exchange, BeforeTrigger, MessageTypes
    <3> QED
      BY <1>2, <2>1, <2>3, <3>2 DEF Exchange, SetupFirst, Took
  <2> QED
    BY <2>2, <2>3
<1>11. PlayState'
  BY <1>2 DEF Exchange, PlayState, Took, Denied
<1>12. OneAsked'
  BY <1>1, <1>2 DEF Exchange, Took, Put, Ok, Answers, Commands, Asks, OneAsked
<1>13. AskedWhat'
  BY <1>1, <1>2 DEF Exchange, AskedWhat, Waiting
<1>14. Quiet'
  BY <1>1, <1>2 DEF Exchange, Took, Put, Ok, Answers, Commands, Asks, Quiet
<1>15. Granting'
  BY <1>1, <1>2 DEF Exchange, Took, Put, Ok, Answers, Commands, Asks, Granting,
     Miracast!SessionGranted
<1>16. HandshakeLate'
  BY <1>1, <1>2 DEF Exchange, HandshakeLate, Took, Put, Ok, Answers, Commands,
     Asks, HandshakeLate, Denied
<1> QED
  BY <1>3, <1>4, <1>5, <1>6, <1>7, <1>8, <1>9, <1>10, <1>11, <1>12, <1>13, <1>14,
     <1>15, <1>16 DEF Exchange

\* The source reads a request of the sink and grants or refuses it.
LEMMA CommandRead ==
    ASSUME Exchange, HandshakeLate, Flags', src = "in",
           UNCHANGED <<src, sent, rtsp, wfd, polling, answered, crossed>>,
           NEW m \in Commands, toSource' \in Seq(Told), Took(toSource, toSource', m),
           NEW a \in Answers, toSink' \in Seq(Shown), Put(toSink, toSink', a),
           granted' = (IF a = "ok" THEN granted \cup {m} ELSE granted),
           refused' = (IF a = "no" THEN refused \cup {m} ELSE refused)
    PROVE  Exchange' /\ HandshakeLate'
<1>1. rtsp = "negotiate" => None(toSource', Commands) /\ None(toSink, Answers)
  BY DEF Exchange, OneAtATime, Took
<1>2. None(toSource', Commands) =>
          /\ None(toSource', {"OPTIONS"}) /\ None(toSource', {"PLAY"})
          /\ None(toSource', {"OPTIONS", "PLAY"}) /\ None(toSource', {"OPTIONS", "SETUP"})
  BY Fewer DEF Commands
<1>3. MessageTypes'
  BY <1>1, <1>2 DEF Exchange, Took, Put, Ok, Answers, Commands, Asks, MessageTypes
<1>4. OneAtATime'
  BY <1>1, <1>2 DEF Exchange, Took, Put, Ok, Answers, Commands, Asks, OneAtATime
<1>5. BeforeTrigger'
  BY <1>1, <1>2 DEF Exchange, Took, Put, Ok, Answers, Commands, Asks, BeforeTrigger
<1>6. TriggerLast'
  BY <1>1, <1>2 DEF Exchange, Took, Put, Ok, Answers, Commands, Asks, TriggerLast
<1>7. OptionsFirst'
  BY <1>1, <1>2 DEF Exchange, Took, Put, Ok, Answers, Commands, Asks, OptionsFirst
<1>8. IdleState'
  BY <1>1, <1>2 DEF Exchange, Took, Put, Ok, Answers, Commands, Asks, IdleState
<1>9. SetupState'
  BY <1>1, <1>2 DEF Exchange, Took, Put, Ok, Answers, Commands, Asks, SetupState,
     Denied
<1>10. SetupFirst'
  <2>1. rtsp = "negotiate" => None(toSource', {"SETUP"})
    BY <1>1, Fewer DEF Commands
  <2>2. rtsp = "negotiate" /\ m = "SETUP" => answered = 4
    BY DEF Exchange, SetupFirst, Took, Commands
  <2> QED
    BY <2>1, <2>2 DEF Exchange, SetupFirst
<1>11. PlayState'
  BY <1>1, <1>2 DEF Exchange, Took, Put, Ok, Answers, Commands, Asks, PlayState,
     Denied
<1>12. OneAsked'
  BY <1>1, <1>2 DEF Exchange, Took, Put, Ok, Answers, Commands, Asks, OneAsked
<1>13. AskedWhat'
  BY <1>1, <1>2 DEF Exchange, Took, Put, Ok, Answers, Commands, Asks, AskedWhat,
     Waiting
<1>14. Quiet'
  BY <1>1, <1>2 DEF Exchange, Took, Put, Ok, Answers, Commands, Asks, Quiet
<1>15. Granting'
  BY <1>1, <1>2 DEF Exchange, Took, Put, Ok, Answers, Commands, Asks, Granting,
     Miracast!SessionGranted
<1>16. HandshakeLate'
  BY <1>1, <1>2 DEF Exchange, HandshakeLate, Took, Put, Ok, Answers, Commands,
     Asks, HandshakeLate, Denied
<1> QED
  BY <1>3, <1>4, <1>5, <1>6, <1>7, <1>8, <1>9, <1>10, <1>11, <1>12, <1>13, <1>14,
     <1>15, <1>16 DEF Exchange

\* The source reads.
LEMMA SourceReadsKeeps ==
    ASSUME Exchange, HandshakeLate, Flags', ThreadTypes, Miracast!SourceReads
    PROVE  Exchange' /\ HandshakeLate'
<1>1. /\ toSource' \in Seq(Told) /\ Took(toSource, toSource', Head(toSource))
      /\ Head(toSource) \in Told
  BY Taken DEF Miracast!SourceReads, Exchange, MessageTypes
<1>2. src = "in" /\ UNCHANGED <<src, sent, crossed, rtsp, wfd>>
  BY DEF Miracast!SourceReads, Miracast!sinkVars
<1>3. CASE Head(toSource) = "ok"
  BY <1>1, <1>2, <1>3, AnswerRead DEF Miracast!SourceReads
<1>4. CASE Head(toSource) # "ok"
  <2>1. UNCHANGED <<polling, answered>>
    BY <1>4 DEF Miracast!SourceReads
  <2>2. PICK a \in Answers :
          /\ toSink' = Append(toSink, a)
          /\ granted' = (IF a = "ok" THEN granted \cup {Head(toSource)} ELSE granted)
          /\ refused' = (IF a = "no" THEN refused \cup {Head(toSource)} ELSE refused)
    BY <1>4 DEF Miracast!SourceReads, Answers
  <2>3. toSink \in Seq(Shown) /\ a \in Shown
    BY DEF Exchange, MessageTypes, Shown, Answers
  <2>4. toSink' \in Seq(Shown) /\ Put(toSink, toSink', a)
    BY <2>2, <2>3, Added
  <2>5. Head(toSource) \in Commands
    BY <1>1, <1>4 DEF Told, Commands
  <2> QED
    BY <1>1, <1>2, <2>1, <2>2, <2>4, <2>5, CommandRead
<1> QED
  BY <1>3, <1>4

\* The source polls.
LEMMA SourcePollsKeeps ==
    ASSUME Exchange, HandshakeLate, Flags', ThreadTypes, Miracast!SourcePolls
    PROVE  Exchange' /\ HandshakeLate'
<1>1. /\ toSink' \in Seq(Shown) /\ Len(toSink) \in Nat
      /\ Put(toSink, toSink', "GET_PARAMETER")
  BY Added DEF Miracast!SourcePolls, Miracast!sinkVars, Miracast!controlVars,
     Miracast!demuxerVars, Exchange, MessageTypes, Shown, Told, Asks, Commands,
     Answers
<1>2. MessageTypes'
  BY <1>1 DEF Exchange, Miracast!SourcePolls, Miracast!sinkVars,
     Miracast!controlVars, Miracast!demuxerVars, Took, Put, Ok, Answers, Commands,
     Asks, Shown, Told, MessageTypes
<1>3. OneAtATime'
  BY <1>1 DEF Exchange, Miracast!SourcePolls, Miracast!sinkVars,
     Miracast!controlVars, Miracast!demuxerVars, Took, Put, Ok, Answers, Commands,
     Asks, Shown, Told, OneAtATime
<1>4. BeforeTrigger'
  BY <1>1 DEF Exchange, Miracast!SourcePolls, Miracast!sinkVars,
     Miracast!controlVars, Miracast!demuxerVars, Took, Put, Ok, Answers, Commands,
     Asks, Shown, Told, BeforeTrigger
<1>5. TriggerLast'
  BY <1>1 DEF Exchange, Miracast!SourcePolls, Miracast!sinkVars,
     Miracast!controlVars, Miracast!demuxerVars, Took, Put, Ok, Answers, Commands,
     Asks, Shown, Told, TriggerLast
<1>6. OptionsFirst'
  BY <1>1 DEF Exchange, Miracast!SourcePolls, Miracast!sinkVars,
     Miracast!controlVars, Miracast!demuxerVars, Took, Put, Ok, Answers, Commands,
     Asks, Shown, Told, OptionsFirst, BeforeTrigger, MessageTypes
<1>7. IdleState'
  BY <1>1 DEF Exchange, Miracast!SourcePolls, Miracast!sinkVars,
     Miracast!controlVars, Miracast!demuxerVars, Took, Put, Ok, Answers, Commands,
     Asks, Shown, Told, IdleState, BeforeTrigger
<1>8. SetupState'
  BY <1>1 DEF Exchange, Miracast!SourcePolls, Miracast!sinkVars,
     Miracast!controlVars, Miracast!demuxerVars, Took, Put, Ok, Answers, Commands,
     Asks, Shown, Told, SetupState, Denied
<1>9. SetupFirst'
  BY <1>1 DEF Exchange, Miracast!SourcePolls, Miracast!sinkVars,
     Miracast!controlVars, Miracast!demuxerVars, Took, Put, Ok, Answers, Commands,
     Asks, Shown, Told, SetupFirst
<1>10. PlayState'
  BY <1>1 DEF Exchange, Miracast!SourcePolls, Miracast!sinkVars,
     Miracast!controlVars, Miracast!demuxerVars, Took, Put, Ok, Answers, Commands,
     Asks, Shown, Told, PlayState, Denied
<1>11. OneAsked'
  BY <1>1 DEF Exchange, Miracast!SourcePolls, Miracast!sinkVars,
     Miracast!controlVars, Miracast!demuxerVars, Took, Put, Ok, Answers, Commands,
     Asks, Shown, Told, OneAsked, AskedWhat, Waiting, MessageTypes
<1>12. AskedWhat'
  BY <1>1 DEF Exchange, Miracast!SourcePolls, Miracast!sinkVars,
     Miracast!controlVars, Miracast!demuxerVars, Took, Put, Ok, Answers, Commands,
     Asks, Shown, Told, AskedWhat, Waiting, OneAsked, MessageTypes
<1>13. Quiet'
  BY <1>1 DEF Exchange, Miracast!SourcePolls, Miracast!sinkVars,
     Miracast!controlVars, Miracast!demuxerVars, Took, Put, Ok, Answers, Commands,
     Asks, Shown, Told, Quiet
<1>14. Granting'
  BY <1>1 DEF Exchange, Miracast!SourcePolls, Miracast!sinkVars,
     Miracast!controlVars, Miracast!demuxerVars, Took, Put, Ok, Answers, Commands,
     Asks, Shown, Told, Granting, Miracast!SessionGranted
<1>15. HandshakeLate'
  BY <1>1 DEF Exchange, Miracast!SourcePolls, Miracast!sinkVars,
     Miracast!controlVars, Miracast!demuxerVars, Took, Put, Ok, Answers, Commands,
     Asks, Shown, Told, HandshakeLate, Denied
<1> QED
  BY <1>2, <1>3, <1>4, <1>5, <1>6, <1>7, <1>8, <1>9, <1>10, <1>11, <1>12, <1>13,
     <1>14, <1>15 DEF Exchange

\* The source tears down or goes away.
LEMMA SourceLeavesKeeps ==
    ASSUME Exchange, HandshakeLate, Flags', ThreadTypes, Miracast!SourceLeaves
    PROVE  Exchange' /\ HandshakeLate'
<1>1. ASSUME src' = "leaving" PROVE
      toSink' \in Seq(Shown) /\ Put(toSink, toSink', "TEARDOWN") /\ Len(toSink) \in Nat
  <2>1. toSink' = Append(toSink, "TEARDOWN")
    BY <1>1 DEF Miracast!SourceLeaves
  <2>2. toSink \in Seq(Shown) /\ "TEARDOWN" \in Shown
    BY DEF Exchange, MessageTypes, Shown
  <2> QED
    BY <2>1, <2>2, Added
<1>2. MessageTypes'
  BY <1>1 DEF Exchange, Miracast!SourceLeaves, Miracast!sinkVars,
     Miracast!controlVars, Miracast!demuxerVars, Took, Put, Ok, Answers, Commands,
     Asks, Shown, Told, MessageTypes
<1>3. OneAtATime'
  BY <1>1 DEF Exchange, Miracast!SourceLeaves, Miracast!sinkVars,
     Miracast!controlVars, Miracast!demuxerVars, Took, Put, Ok, Answers, Commands,
     Asks, Shown, Told, OneAtATime
<1>4. BeforeTrigger'
  BY <1>1 DEF Exchange, Miracast!SourceLeaves, Miracast!sinkVars,
     Miracast!controlVars, Miracast!demuxerVars, Took, Put, Ok, Answers, Commands,
     Asks, Shown, Told, BeforeTrigger
<1>5. TriggerLast'
  BY <1>1 DEF Exchange, Miracast!SourceLeaves, Miracast!sinkVars,
     Miracast!controlVars, Miracast!demuxerVars, Took, Put, Ok, Answers, Commands,
     Asks, Shown, Told, TriggerLast
<1>6. OptionsFirst'
  BY <1>1 DEF Exchange, Miracast!SourceLeaves, Miracast!sinkVars,
     Miracast!controlVars, Miracast!demuxerVars, Took, Put, Ok, Answers, Commands,
     Asks, Shown, Told, OptionsFirst
<1>7. IdleState'
  BY <1>1 DEF Exchange, Miracast!SourceLeaves, Miracast!sinkVars,
     Miracast!controlVars, Miracast!demuxerVars, Took, Put, Ok, Answers, Commands,
     Asks, Shown, Told, IdleState
<1>8. SetupState'
  BY <1>1 DEF Exchange, Miracast!SourceLeaves, Miracast!sinkVars,
     Miracast!controlVars, Miracast!demuxerVars, Took, Put, Ok, Answers, Commands,
     Asks, Shown, Told, SetupState, Denied
<1>9. SetupFirst'
  BY <1>1 DEF Exchange, Miracast!SourceLeaves, Miracast!sinkVars,
     Miracast!controlVars, Miracast!demuxerVars, Took, Put, Ok, Answers, Commands,
     Asks, Shown, Told, SetupFirst
<1>10. PlayState'
  BY <1>1 DEF Exchange, Miracast!SourceLeaves, Miracast!sinkVars,
     Miracast!controlVars, Miracast!demuxerVars, Took, Put, Ok, Answers, Commands,
     Asks, Shown, Told, PlayState, Denied
<1>11. OneAsked'
  BY <1>1 DEF Exchange, Miracast!SourceLeaves, Miracast!sinkVars,
     Miracast!controlVars, Miracast!demuxerVars, Took, Put, Ok, Answers, Commands,
     Asks, Shown, Told, OneAsked
<1>12. AskedWhat'
  BY <1>1 DEF Exchange, Miracast!SourceLeaves, Miracast!sinkVars,
     Miracast!controlVars, Miracast!demuxerVars, Took, Put, Ok, Answers, Commands,
     Asks, Shown, Told, AskedWhat, Waiting
<1>13. Quiet'
  BY <1>1 DEF Exchange, Miracast!SourceLeaves, Miracast!sinkVars,
     Miracast!controlVars, Miracast!demuxerVars, Took, Put, Ok, Answers, Commands,
     Asks, Shown, Told, Quiet
<1>14. Granting'
  BY <1>1 DEF Exchange, Miracast!SourceLeaves, Miracast!sinkVars,
     Miracast!controlVars, Miracast!demuxerVars, Took, Put, Ok, Answers, Commands,
     Asks, Shown, Told, Granting, Miracast!SessionGranted
<1>15. HandshakeLate'
  BY <1>1 DEF Exchange, Miracast!SourceLeaves, Miracast!sinkVars,
     Miracast!controlVars, Miracast!demuxerVars, Took, Put, Ok, Answers, Commands,
     Asks, Shown, Told, HandshakeLate, Denied
<1> QED
  BY <1>2, <1>3, <1>4, <1>5, <1>6, <1>7, <1>8, <1>9, <1>10, <1>11, <1>12, <1>13,
     <1>14, <1>15 DEF Exchange

\* Every step keeps the exchange.
LEMMA ExchangeKept ==
    ASSUME ThreadTypes, MainPlaces, Exchange, HandshakeLate, Flags',
           Miracast!Next \/ UNCHANGED miracastV
    PROVE  Exchange' /\ HandshakeLate'
<1>1. ASSUME Miracast!Start PROVE Exchange' /\ HandshakeLate'
  BY <1>1, Elsewhere DEF Miracast!Start, Miracast!sessionVars, Miracast!sourceVars
<1>2. ASSUME Miracast!StartFails PROVE Exchange' /\ HandshakeLate'
  BY <1>2, Elsewhere DEF Miracast!StartFails, Miracast!sessionVars,
     Miracast!sourceVars
<1>3. ASSUME Miracast!StopRunning PROVE Exchange' /\ HandshakeLate'
  BY <1>3, Elsewhere DEF Miracast!StopRunning, Miracast!stopKeeps,
     Miracast!sourceVars
<1>4. ASSUME Miracast!StopSession PROVE Exchange' /\ HandshakeLate'
  BY <1>4, Elsewhere DEF Miracast!StopSession, Miracast!stopKeeps,
     Miracast!sourceVars
<1>5. ASSUME Miracast!JoinInStop PROVE Exchange' /\ HandshakeLate'
  BY <1>5, Elsewhere DEF Miracast!JoinInStop, Miracast!stopKeeps,
     Miracast!sourceVars, Miracast!Joins
<1>6. ASSUME Miracast!JoinRtsp PROVE Exchange' /\ HandshakeLate'
  BY <1>6, Elsewhere DEF Miracast!JoinRtsp, Miracast!stopKeeps, Miracast!sourceVars
<1>7. ASSUME Miracast!JoinWorker PROVE Exchange' /\ HandshakeLate'
  BY <1>7, Elsewhere DEF Miracast!JoinWorker, Miracast!stopKeeps,
     Miracast!sourceVars
<1>8. ASSUME Miracast!JoinThrows PROVE Exchange' /\ HandshakeLate'
  BY <1>8, Elsewhere DEF Miracast!JoinThrows, Miracast!stopKeeps,
     Miracast!sourceVars
<1>9. ASSUME Miracast!WorkerFails PROVE Exchange' /\ HandshakeLate'
  BY <1>9, Elsewhere DEF Miracast!WorkerFails, Miracast!sessionVars,
     Miracast!sourceVars
<1>10. ASSUME Miracast!WorkerStarts PROVE Exchange' /\ HandshakeLate'
  BY <1>10, Elsewhere DEF Miracast!WorkerStarts, Miracast!controlVars,
     Miracast!sourceVars, Miracast!demuxerVars, MainPlaces
<1>11. ASSUME Miracast!WorkerEnds PROVE Exchange' /\ HandshakeLate'
  BY <1>11, Elsewhere DEF Miracast!WorkerEnds, Miracast!sessionVars,
     Miracast!sourceVars
<1>12. ASSUME Miracast!Poll PROVE Exchange' /\ HandshakeLate'
  BY <1>12, Elsewhere DEF Miracast!Poll, Miracast!controlVars,
     Miracast!sourceVars, Miracast!demuxerVars
<1>13. ASSUME Miracast!NothingAccepted PROVE Exchange' /\ HandshakeLate'
  BY <1>13, Elsewhere DEF Miracast!NothingAccepted, Miracast!controlVars,
     Miracast!sourceVars, Miracast!demuxerVars
<1>14. ASSUME Miracast!AnswerOptions PROVE Exchange' /\ HandshakeLate'
  BY <1>14, AnswerOptionsKeeps
<1>15. ASSUME Miracast!AnswerParameter PROVE Exchange' /\ HandshakeLate'
  BY <1>15, AnswerParameterKeeps
<1>16. ASSUME Miracast!AnswerTrigger PROVE Exchange' /\ HandshakeLate'
  BY <1>16, AnswerTriggerKeeps
<1>17. ASSUME Miracast!AnswerTeardown PROVE Exchange' /\ HandshakeLate'
  BY <1>17, AnswerTeardownKeeps
<1>18. ASSUME Miracast!NegotiateAnswer PROVE Exchange' /\ HandshakeLate'
  BY <1>18, NegotiateAnswerKeeps
<1>19. ASSUME Miracast!ReadEnds PROVE Exchange' /\ HandshakeLate'
  BY <1>19, ReadEndsKeeps
<1>20. ASSUME Miracast!HandleMessage PROVE Exchange' /\ HandshakeLate'
  BY <1>20, HandleMessageKeeps
<1>21. ASSUME Miracast!Begin PROVE Exchange' /\ HandshakeLate'
  BY <1>21, Elsewhere DEF Miracast!Begin, Miracast!beginKeeps,
     Miracast!controlVars, Miracast!sourceVars, Miracast!demuxerVars
<1>22. ASSUME Miracast!Monitor PROVE Exchange' /\ HandshakeLate'
  BY <1>22, Elsewhere DEF Miracast!Monitor, Miracast!beginKeeps,
     Miracast!controlVars, Miracast!sourceVars, Miracast!demuxerVars
<1>23. ASSUME Miracast!Halt PROVE Exchange' /\ HandshakeLate'
  BY <1>23, Elsewhere DEF Miracast!Halt, Miracast!beginKeeps,
     Miracast!controlVars, Miracast!sourceVars
<1>24. ASSUME Miracast!JoinInLoop PROVE Exchange' /\ HandshakeLate'
  BY <1>24, Elsewhere DEF Miracast!JoinInLoop, Miracast!beginKeeps,
     Miracast!controlVars, Miracast!sourceVars, Miracast!demuxerVars,
     Miracast!Joins
<1>25. ASSUME Miracast!Reset PROVE Exchange' /\ HandshakeLate'
  BY <1>25, Elsewhere DEF Miracast!Reset, Miracast!beginKeeps,
     Miracast!controlVars, Miracast!sourceVars
<1>26. ASSUME Miracast!Close PROVE Exchange' /\ HandshakeLate'
  BY <1>26, CloseKeeps
<1>27. ASSUME Miracast!AcceptSource PROVE Exchange' /\ HandshakeLate'
  BY <1>27, AcceptSourceKeeps
<1>28. ASSUME Miracast!SourceAsks PROVE Exchange' /\ HandshakeLate'
  BY <1>28, SourceAsksKeeps
<1>29. ASSUME Miracast!SourceReads PROVE Exchange' /\ HandshakeLate'
  BY <1>29, SourceReadsKeeps
<1>30. ASSUME Miracast!SourcePolls PROVE Exchange' /\ HandshakeLate'
  BY <1>30, SourcePollsKeeps
<1>31. ASSUME Miracast!SourceLeaves PROVE Exchange' /\ HandshakeLate'
  BY <1>31, SourceLeavesKeeps
<1>32. ASSUME Miracast!RtpFeeds PROVE Exchange' /\ HandshakeLate'
  BY <1>32, Elsewhere DEF Miracast!RtpFeeds, Miracast!mediaKeeps,
     Miracast!controlVars, Miracast!sourceVars, Miracast!demuxerVars
<1>33. ASSUME Miracast!RtpEnds PROVE Exchange' /\ HandshakeLate'
  BY <1>33, Elsewhere DEF Miracast!RtpEnds, Miracast!mediaKeeps,
     Miracast!controlVars, Miracast!sourceVars, Miracast!demuxerVars
<1>34. ASSUME Miracast!DecodeOpens PROVE Exchange' /\ HandshakeLate'
  BY <1>34, Elsewhere DEF Miracast!DecodeOpens, Miracast!mediaKeeps,
     Miracast!controlVars, Miracast!sourceVars, Miracast!demuxerVars
<1>35. ASSUME Miracast!DecodeEnds PROVE Exchange' /\ HandshakeLate'
  BY <1>35, Elsewhere DEF Miracast!DecodeEnds, Miracast!mediaKeeps,
     Miracast!controlVars, Miracast!sourceVars, Miracast!demuxerVars
<1>36. ASSUME Miracast!SourceBegins PROVE Exchange' /\ HandshakeLate'
  BY <1>36, Elsewhere DEF Miracast!SourceBegins, Miracast!controlVars,
     Miracast!sourceVars, Miracast!demuxerVars
<1>37. CASE UNCHANGED miracastV
  BY <1>37, Elsewhere DEF miracastV
<1> QED
  BY <1>1, <1>2, <1>3, <1>4, <1>5, <1>6, <1>7, <1>8, <1>9, <1>10, <1>11, <1>12,
     <1>13, <1>14, <1>15, <1>16, <1>17, <1>18, <1>19, <1>20, <1>21, <1>22, <1>23,
     <1>24, <1>25, <1>26, <1>27, <1>28, <1>29, <1>30, <1>31, <1>32, <1>33, <1>34,
     <1>35, <1>36, <1>37
    DEF Miracast!Next, Miracast!LoopStep, Miracast!StopStep

(***************************************************************************)
(* The theorems.                                                           *)
(***************************************************************************)

\* Every behaviour of MCReceivers keeps the invariant.
LEMMA MiracastAlways == ReceiversSpec => []MiracastInv
<1>1. ReceiversInit => MiracastInv
  <2> SUFFICES ASSUME Miracast!Init PROVE MiracastInv
    BY DEF ReceiversInit
  <2>1. ThreadTypes /\ Flags
    BY DEF Miracast!Init, ThreadTypes, Flags, Miracast!States
  <2>2. MainPlaces /\ MediaPlaces
    BY DEF Miracast!Init, MainPlaces, MediaPlaces
  <2>3. Exchange
    <3>1. /\ rtsp = "none" /\ src = "away" /\ sent = 0 /\ answered = 0 /\ granted = {}
          /\ toSink = <<>> /\ toSource = <<>> /\ wfd = "Idle"
      BY DEF Miracast!Init
    <3>2. MessageTypes
      BY <3>1, Empty DEF Miracast!Init, MessageTypes, Commands
    <3>3. OneAtATime /\ BeforeTrigger /\ TriggerLast /\ OptionsFirst
      BY <3>1 DEF OneAtATime, BeforeTrigger, TriggerLast, OptionsFirst
    <3>4. IdleState /\ SetupState /\ SetupFirst /\ PlayState
      BY <3>1 DEF IdleState, SetupState, SetupFirst, PlayState, Denied
    <3>5. OneAsked /\ AskedWhat /\ Quiet
      BY <3>1 DEF OneAsked, AskedWhat, Quiet
    <3>6. Granting
      BY <3>1 DEF Granting, Miracast!SessionGranted
    <3> QED
      BY <2>1, <3>2, <3>3, <3>4, <3>5, <3>6 DEF Exchange
  <2>4. HandshakeLate
    BY DEF Miracast!Init, HandshakeLate, Denied
  <2> QED
    BY <2>1, <2>2, <2>3, <2>4 DEF MiracastInv
<1>2. MiracastInv /\ [ReceiversNext]_receiverVars => MiracastInv'
  <2> SUFFICES ASSUME MiracastInv, Miracast!Next \/ UNCHANGED miracastV
               PROVE  MiracastInv'
    BY DEF ReceiversNext, receiverVars
  <2>1. ThreadTypes /\ MessageTypes /\ Flags /\ MainPlaces /\ MediaPlaces
    BY DEF MiracastInv, Exchange
  <2>2. ThreadTypes' /\ Flags'
    BY <2>1, MiracastTypesKept, FlagsKept
  <2>3. MainPlaces' /\ MediaPlaces'
    BY <2>1, MiracastPlacesKept
  <2>4. Exchange' /\ HandshakeLate'
    BY <2>1, <2>2, ExchangeKept DEF MiracastInv
  <2> QED
    BY <2>2, <2>3, <2>4 DEF MiracastInv
<1> QED
  BY <1>1, <1>2, PTL DEF ReceiversSpec

\* In the invariant's states three parts of MiracastSafe hold.
LEMMA MiracastPartly ==
    ASSUME MiracastInv
    PROVE  Miracast!SessionGranted /\ Miracast!DemuxerFresh /\ Miracast!StoppedClean
<1>1. Miracast!SessionGranted
  BY DEF MiracastInv, Exchange, Granting
<1>2. Miracast!DemuxerFresh
  BY DEF MiracastInv, Miracast!DemuxerFresh, MediaPlaces, Ending, Miracast!Joining
<1>3. Miracast!StoppedClean
  BY DEF MiracastInv, Miracast!StoppedClean, MainPlaces, MediaPlaces,
     Miracast!Joining
<1> QED
  BY <1>1, <1>2, <1>3

\* And the fourth: two empty queues in a handshake mean that the source does
\* not wait, and that it has not come to its last request, has refused one of
\* the sink's or has crossed one.
LEMMA HandshakeGoesOn == ASSUME MiracastInv PROVE Miracast!HandshakeMoves
<1> SUFFICES ASSUME rtsp = "negotiate", src = "in", toSink = <<>>, toSource = <<>>
             PROVE  (sent = answered /\ sent < 4 /\ ~polling) \/ Denied \/ crossed
  BY DEF Miracast!HandshakeMoves, Miracast!Still, Miracast!SourcesTurn, Denied
<1>1. \A S : None(toSink, S) /\ None(toSource, S)
  BY Empty
<1>2. sent = answered /\ ~polling
  BY <1>1 DEF MiracastInv, Exchange, AskedWhat, Waiting
<1>3. sent = 4 => Denied \/ crossed
  BY <1>1 DEF MiracastInv, HandshakeLate, Denied
<1> QED
  BY <1>2, <1>3 DEF MiracastInv, Exchange, MessageTypes

\* Miracast with a source that grants, refuses, polls and stays silent as it
\* likes: PLAY and streaming follow what the source granted, the handshake
\* gets stuck only by a refusal of SETUP or PLAY or by a request while one of
\* them is under way, the decode thread has a demuxer of its own session, and
\* stop() leaves nothing.
THEOREM MiracastReceived == ReceiversSpec => []MiracastSafe
<1>1. MiracastInv => MiracastSafe
  BY MiracastPartly, HandshakeGoesOn DEF MiracastSafe
<1> QED
  BY <1>1, MiracastAlways, PTL

(***************************************************************************)
(* Cast: stop(), the accept loop and one handler after another.            *)
(***************************************************************************)

\* The types, those of the flags apart.
CastTypes ==
    /\ castMain \in {"off", "failed", "run", "closeListen", "closeClient", "joinAccept",
                 "joinClient", "joinWebrtc", "mdns", "cleanup", "stopped"}
    /\ mdns \in {"none", "bonjour", "run", "told", "ended"}
    /\ accepting \in {"none", "check", "accept", "join", "ended"}
    /\ fresh \in Cast!Someone /\ thread \in Cast!Someone
    /\ hpc \in [Senders -> {"out", "enter", "peek", "tls", "read", "unlist", "close",
                            "notify", "done", "joined"}]
    /\ castOpen \subseteq Senders
    /\ clientSock \in Cast!Someone /\ clientSsl \in Cast!Someone
    /\ session \in Cast!Someone
    /\ webrtc \in {"none", "run", "ended"}
    /\ offered \in Cast!Someone /\ served \in Cast!Someone

CastFlags ==
    /\ castRunning \in BOOLEAN /\ contexts \in BOOLEAN /\ listening \in BOOLEAN
    /\ mirroring \in BOOLEAN

\* Both are TypeOK.
LEMMA CastTypesTogether == Cast!TypeOK <=> CastTypes /\ CastFlags
  BY DEF Cast!TypeOK, CastTypes, CastFlags

\* Where start() and stop() are, and what is there then: every place of stop()
\* behind a join knows that the thread it joined is gone, and until the last
\* one the contexts live.
CastPlaces ==
    /\ castMain \in {"off", "failed"} => accepting = "none" /\ webrtc = "none"
    /\ accepting = "none" => castMain \in {"off", "failed"}
    /\ accepting = "none" => thread = Nobody
    /\ castMain \in {"closeClient", "joinAccept", "joinClient", "joinWebrtc", "mdns",
                     "cleanup", "stopped"} => ~listening
    /\ castMain \in {"joinClient", "joinWebrtc", "mdns", "cleanup", "stopped"} =>
         accepting = "ended"
    /\ castMain \in {"joinWebrtc", "mdns", "cleanup", "stopped"} => thread = Nobody
    /\ castMain \in {"mdns", "cleanup", "stopped"} => webrtc = "none"
    /\ castMain \in {"cleanup", "stopped"} => mdns = "none"
    /\ castMain \notin {"off", "failed", "stopped"} => contexts
    /\ fresh # Nobody <=> accepting = "join"

\* The sender that the accept loop hands over has not begun, the joinable
\* thread has not been joined, and a handler that has begun is that thread.
OneAccepted ==
    /\ fresh # Nobody => hpc[fresh] = "out"
    /\ thread # Nobody => hpc[thread] \notin {"out", "joined"}
    /\ \A c \in Senders : hpc[c] \notin {"out", "joined"} => thread = c

\* A socket that is open is the one that waits to be handed over, or its
\* handler still runs.
OpenOwned ==
    \A c \in castOpen :
        c = fresh \/ hpc[c] \in {"enter", "peek", "tls", "read", "unlist", "close"}

\* client_ssl is that of a handler that reads.
SslOwned == clientSsl # Nobody => hpc[clientSsl] \in {"read", "unlist"}

\* All of it.
CastInv ==
    /\ CastTypes /\ CastFlags /\ CastPlaces
    /\ OneAccepted /\ OpenOwned /\ SslOwned /\ Cast!StatusTrue

\* Every step keeps the types.
LEMMA CastTypesKept ==
    ASSUME CastTypes, Cast!Next \/ UNCHANGED castV
    PROVE  CastTypes'
<1>1. ASSUME Cast!Start PROVE CastTypes'
  BY <1>1 DEF Cast!Start, Cast!acceptVars, Cast!clientVars, Cast!appVars, CastTypes,
     Cast!Someone
<1>2. ASSUME Cast!StartFails PROVE CastTypes'
  BY <1>2 DEF Cast!StartFails, Cast!acceptVars, Cast!clientVars, Cast!appVars,
     CastTypes, Cast!Someone
<1>3. ASSUME Cast!StopBegins PROVE CastTypes'
  BY <1>3 DEF Cast!StopBegins, Cast!acceptVars, Cast!clientVars, Cast!appVars,
     CastTypes, Cast!Someone
<1>4. ASSUME Cast!StopListening PROVE CastTypes'
  BY <1>4 DEF Cast!StopListening, Cast!acceptVars, Cast!clientVars, Cast!appVars,
     CastTypes, Cast!Someone
<1>5. ASSUME Cast!StopClient PROVE CastTypes'
  BY <1>5 DEF Cast!StopClient, Cast!acceptVars, Cast!appVars, CastTypes,
     Cast!Someone
<1>6. ASSUME Cast!JoinAccept PROVE CastTypes'
  BY <1>6 DEF Cast!JoinAccept, Cast!acceptVars, Cast!clientVars, Cast!appVars,
     CastTypes, Cast!Someone
<1>7. ASSUME Cast!JoinClient PROVE CastTypes'
  BY <1>7 DEF Cast!JoinClient, Cast!ClientJoined, Cast!appVars, CastTypes,
     Cast!Someone
<1>8. ASSUME Cast!JoinWebrtc PROVE CastTypes'
  BY <1>8 DEF Cast!JoinWebrtc, Cast!acceptVars, Cast!clientVars, CastTypes,
     Cast!Someone
<1>9. ASSUME Cast!StopMdns PROVE CastTypes'
  BY <1>9 DEF Cast!StopMdns, Cast!acceptVars, Cast!clientVars, Cast!appVars,
     CastTypes, Cast!Someone
<1>10. ASSUME Cast!Cleanup PROVE CastTypes'
  BY <1>10 DEF Cast!Cleanup, Cast!acceptVars, Cast!appVars, CastTypes, Cast!Someone
<1>11. ASSUME Cast!Check PROVE CastTypes'
  BY <1>11 DEF Cast!Check, Cast!acceptKeeps, Cast!appVars, CastTypes, Cast!Someone
<1>12. ASSUME Cast!AcceptFails PROVE CastTypes'
  BY <1>12 DEF Cast!AcceptFails, Cast!acceptKeeps, Cast!appVars, CastTypes,
     Cast!Someone
<1>13. ASSUME Cast!StartClient PROVE CastTypes'
  BY <1>13 DEF Cast!StartClient, Cast!HandOver, Cast!acceptKeeps, Cast!appVars,
     CastTypes, Cast!Someone
<1>14. ASSUME Cast!WebrtcEnds PROVE CastTypes'
  BY <1>14 DEF Cast!WebrtcEnds, Cast!messageKeeps, Cast!clientVars,
     Cast!handlerKeeps, Cast!acceptVars, CastTypes, Cast!Someone
<1>15. ASSUME Cast!MdnsEnds PROVE CastTypes'
  BY <1>15 DEF Cast!MdnsEnds, Cast!acceptVars, Cast!clientVars, Cast!appVars,
     CastTypes, Cast!Someone
<1>16. ASSUME NEW c \in Senders, Cast!AcceptClient(c) PROVE CastTypes'
  BY <1>16 DEF Cast!AcceptClient, Cast!acceptKeeps, Cast!appVars, CastTypes,
     Cast!Someone
<1>17. ASSUME NEW c \in Senders, Cast!Register(c) PROVE CastTypes'
  BY <1>17 DEF Cast!Register, Cast!Moves, Cast!handlerKeeps, Cast!acceptVars,
     Cast!appVars, CastTypes, Cast!Someone
<1>18. ASSUME NEW c \in Senders, Cast!GivesUp(c) PROVE CastTypes'
  BY <1>18 DEF Cast!GivesUp, Cast!Moves, Cast!handlerKeeps, Cast!acceptVars,
     Cast!appVars, CastTypes, Cast!Someone
<1>19. ASSUME NEW c \in Senders, Cast!LoopEnds(c) PROVE CastTypes'
  BY <1>19 DEF Cast!LoopEnds, Cast!Moves, Cast!handlerKeeps, Cast!acceptVars,
     Cast!appVars, CastTypes, Cast!Someone
<1>20. ASSUME NEW c \in Senders, Cast!Unregister(c) PROVE CastTypes'
  BY <1>20 DEF Cast!Unregister, Cast!Moves, Cast!handlerKeeps, Cast!acceptVars,
     Cast!appVars, CastTypes, Cast!Someone
<1>21. ASSUME NEW c \in Senders, Cast!CloseClient(c) PROVE CastTypes'
  BY <1>21 DEF Cast!CloseClient, Cast!Moves, Cast!handlerKeeps, Cast!acceptVars,
     Cast!appVars, CastTypes, Cast!Someone
<1>22. ASSUME NEW c \in Senders, Cast!Notify(c) PROVE CastTypes'
  BY <1>22 DEF Cast!Notify, Cast!Moves, Cast!handlerKeeps, Cast!acceptVars,
     Cast!appVars, CastTypes, Cast!Someone
<1>23. ASSUME NEW c \in Senders, Cast!PeekSucceeds(c) PROVE CastTypes'
  BY <1>23 DEF Cast!PeekSucceeds, Cast!Moves, Cast!handlerKeeps, Cast!acceptVars,
     Cast!appVars, CastTypes, Cast!Someone
<1>24. ASSUME NEW c \in Senders, Cast!TlsSucceeds(c) PROVE CastTypes'
  BY <1>24 DEF Cast!TlsSucceeds, Cast!Moves, Cast!handlerKeeps, Cast!acceptVars,
     Cast!appVars, CastTypes, Cast!Someone
<1>25. ASSUME NEW c \in Senders, Cast!Launch(c) PROVE CastTypes'
  BY <1>25 DEF Cast!Launch, Cast!messageKeeps, Cast!clientVars, Cast!handlerKeeps,
     Cast!acceptVars, CastTypes, Cast!Someone
<1>26. ASSUME NEW c \in Senders, Cast!StopApplication(c) PROVE CastTypes'
  BY <1>26 DEF Cast!StopApplication, Cast!messageKeeps, Cast!clientVars,
     Cast!handlerKeeps, Cast!acceptVars, CastTypes, Cast!Someone
<1>27. ASSUME NEW c \in Senders, Cast!Offer(c) PROVE CastTypes'
  BY <1>27 DEF Cast!Offer, Cast!messageKeeps, Cast!clientVars, Cast!handlerKeeps,
     Cast!acceptVars, CastTypes, Cast!Someone
<1>28. CASE UNCHANGED castV
  BY <1>28 DEF castV, CastTypes, Cast!Someone
<1> QED
  BY <1>1, <1>2, <1>3, <1>4, <1>5, <1>6, <1>7, <1>8, <1>9, <1>10, <1>11, <1>12,
     <1>13, <1>14, <1>15, <1>16, <1>17, <1>18, <1>19, <1>20, <1>21, <1>22, <1>23,
     <1>24, <1>25, <1>26, <1>27, <1>28
    DEF Cast!Next, Cast!StopStep, Cast!AcceptStep, Cast!HandlerStep, Cast!PeerStep,
       Cast!HandshakeFails

\* And those of the flags.
LEMMA CastFlagsKept ==
    ASSUME CastFlags, Cast!Next \/ UNCHANGED castV
    PROVE  CastFlags'
<1>1. ASSUME Cast!Start PROVE CastFlags'
  BY <1>1 DEF Cast!Start, Cast!acceptVars, Cast!clientVars, Cast!appVars, CastFlags
<1>2. ASSUME Cast!StartFails PROVE CastFlags'
  BY <1>2 DEF Cast!StartFails, Cast!acceptVars, Cast!clientVars, Cast!appVars,
     CastFlags
<1>3. ASSUME Cast!StopBegins PROVE CastFlags'
  BY <1>3 DEF Cast!StopBegins, Cast!acceptVars, Cast!clientVars, Cast!appVars,
     CastFlags
<1>4. ASSUME Cast!StopListening PROVE CastFlags'
  BY <1>4 DEF Cast!StopListening, Cast!acceptVars, Cast!clientVars, Cast!appVars,
     CastFlags
<1>5. ASSUME Cast!StopClient PROVE CastFlags'
  BY <1>5 DEF Cast!StopClient, Cast!acceptVars, Cast!appVars, CastFlags
<1>6. ASSUME Cast!JoinAccept PROVE CastFlags'
  BY <1>6 DEF Cast!JoinAccept, Cast!acceptVars, Cast!clientVars, Cast!appVars,
     CastFlags
<1>7. ASSUME Cast!JoinClient PROVE CastFlags'
  BY <1>7 DEF Cast!JoinClient, Cast!ClientJoined, Cast!appVars, CastFlags
<1>8. ASSUME Cast!JoinWebrtc PROVE CastFlags'
  BY <1>8 DEF Cast!JoinWebrtc, Cast!acceptVars, Cast!clientVars, CastFlags
<1>9. ASSUME Cast!StopMdns PROVE CastFlags'
  BY <1>9 DEF Cast!StopMdns, Cast!acceptVars, Cast!clientVars, Cast!appVars,
     CastFlags
<1>10. ASSUME Cast!Cleanup PROVE CastFlags'
  BY <1>10 DEF Cast!Cleanup, Cast!acceptVars, Cast!appVars, CastFlags
<1>11. ASSUME Cast!Check PROVE CastFlags'
  BY <1>11 DEF Cast!Check, Cast!acceptKeeps, Cast!appVars, CastFlags
<1>12. ASSUME Cast!AcceptFails PROVE CastFlags'
  BY <1>12 DEF Cast!AcceptFails, Cast!acceptKeeps, Cast!appVars, CastFlags
<1>13. ASSUME Cast!StartClient PROVE CastFlags'
  BY <1>13 DEF Cast!StartClient, Cast!HandOver, Cast!acceptKeeps, Cast!appVars,
     CastFlags
<1>14. ASSUME Cast!WebrtcEnds PROVE CastFlags'
  BY <1>14 DEF Cast!WebrtcEnds, Cast!messageKeeps, Cast!clientVars,
     Cast!handlerKeeps, Cast!acceptVars, CastFlags
<1>15. ASSUME Cast!MdnsEnds PROVE CastFlags'
  BY <1>15 DEF Cast!MdnsEnds, Cast!acceptVars, Cast!clientVars, Cast!appVars,
     CastFlags
<1>16. ASSUME NEW c \in Senders, Cast!AcceptClient(c) PROVE CastFlags'
  BY <1>16 DEF Cast!AcceptClient, Cast!acceptKeeps, Cast!appVars, CastFlags
<1>17. ASSUME NEW c \in Senders, Cast!Register(c) PROVE CastFlags'
  BY <1>17 DEF Cast!Register, Cast!Moves, Cast!handlerKeeps, Cast!acceptVars,
     Cast!appVars, CastFlags
<1>18. ASSUME NEW c \in Senders, Cast!GivesUp(c) PROVE CastFlags'
  BY <1>18 DEF Cast!GivesUp, Cast!Moves, Cast!handlerKeeps, Cast!acceptVars,
     Cast!appVars, CastFlags
<1>19. ASSUME NEW c \in Senders, Cast!LoopEnds(c) PROVE CastFlags'
  BY <1>19 DEF Cast!LoopEnds, Cast!Moves, Cast!handlerKeeps, Cast!acceptVars,
     Cast!appVars, CastFlags
<1>20. ASSUME NEW c \in Senders, Cast!Unregister(c) PROVE CastFlags'
  BY <1>20 DEF Cast!Unregister, Cast!Moves, Cast!handlerKeeps, Cast!acceptVars,
     Cast!appVars, CastFlags
<1>21. ASSUME NEW c \in Senders, Cast!CloseClient(c) PROVE CastFlags'
  BY <1>21 DEF Cast!CloseClient, Cast!Moves, Cast!handlerKeeps, Cast!acceptVars,
     Cast!appVars, CastFlags
<1>22. ASSUME NEW c \in Senders, Cast!Notify(c) PROVE CastFlags'
  BY <1>22 DEF Cast!Notify, Cast!Moves, Cast!handlerKeeps, Cast!acceptVars,
     Cast!appVars, CastFlags
<1>23. ASSUME NEW c \in Senders, Cast!PeekSucceeds(c) PROVE CastFlags'
  BY <1>23 DEF Cast!PeekSucceeds, Cast!Moves, Cast!handlerKeeps, Cast!acceptVars,
     Cast!appVars, CastFlags
<1>24. ASSUME NEW c \in Senders, Cast!TlsSucceeds(c) PROVE CastFlags'
  BY <1>24 DEF Cast!TlsSucceeds, Cast!Moves, Cast!handlerKeeps, Cast!acceptVars,
     Cast!appVars, CastFlags
<1>25. ASSUME NEW c \in Senders, Cast!Launch(c) PROVE CastFlags'
  BY <1>25 DEF Cast!Launch, Cast!messageKeeps, Cast!clientVars, Cast!handlerKeeps,
     Cast!acceptVars, CastFlags
<1>26. ASSUME NEW c \in Senders, Cast!StopApplication(c) PROVE CastFlags'
  BY <1>26 DEF Cast!StopApplication, Cast!messageKeeps, Cast!clientVars,
     Cast!handlerKeeps, Cast!acceptVars, CastFlags
<1>27. ASSUME NEW c \in Senders, Cast!Offer(c) PROVE CastFlags'
  BY <1>27 DEF Cast!Offer, Cast!messageKeeps, Cast!clientVars, Cast!handlerKeeps,
     Cast!acceptVars, CastFlags
<1>28. CASE UNCHANGED castV
  BY <1>28 DEF castV, CastFlags
<1> QED
  BY <1>1, <1>2, <1>3, <1>4, <1>5, <1>6, <1>7, <1>8, <1>9, <1>10, <1>11, <1>12,
     <1>13, <1>14, <1>15, <1>16, <1>17, <1>18, <1>19, <1>20, <1>21, <1>22, <1>23,
     <1>24, <1>25, <1>26, <1>27, <1>28
    DEF Cast!Next, Cast!StopStep, Cast!AcceptStep, Cast!HandlerStep, Cast!PeerStep,
       Cast!HandshakeFails

\* stop() and the threads it joins.
LEMMA CastPlacesKept ==
    ASSUME CastTypes, CastFlags, CastPlaces, OneAccepted,
           Cast!Next \/ UNCHANGED castV
    PROVE  CastPlaces'
<1> USE NobodyAssumption
<1>1. ASSUME Cast!Start PROVE CastPlaces'
  BY <1>1 DEF Cast!Start, Cast!acceptVars, Cast!clientVars, Cast!appVars,
     CastPlaces, Cast!Someone
<1>2. ASSUME Cast!StartFails PROVE CastPlaces'
  BY <1>2 DEF Cast!StartFails, Cast!acceptVars, Cast!clientVars, Cast!appVars,
     CastPlaces, Cast!Someone
<1>3. ASSUME Cast!StopBegins PROVE CastPlaces'
  BY <1>3 DEF Cast!StopBegins, Cast!acceptVars, Cast!clientVars, Cast!appVars,
     CastPlaces, Cast!Someone
<1>4. ASSUME Cast!StopListening PROVE CastPlaces'
  BY <1>4 DEF Cast!StopListening, Cast!acceptVars, Cast!clientVars, Cast!appVars,
     CastPlaces, Cast!Someone
<1>5. ASSUME Cast!StopClient PROVE CastPlaces'
  BY <1>5 DEF Cast!StopClient, Cast!acceptVars, Cast!appVars, CastPlaces,
     Cast!Someone
<1>6. ASSUME Cast!JoinAccept PROVE CastPlaces'
  BY <1>6 DEF Cast!JoinAccept, Cast!acceptVars, Cast!clientVars, Cast!appVars,
     CastPlaces, Cast!Someone
<1>7. ASSUME Cast!JoinClient PROVE CastPlaces'
  BY <1>7 DEF Cast!JoinClient, Cast!ClientJoined, Cast!appVars, CastPlaces,
     Cast!Someone
<1>8. ASSUME Cast!JoinWebrtc PROVE CastPlaces'
  BY <1>8 DEF Cast!JoinWebrtc, Cast!acceptVars, Cast!clientVars, CastPlaces,
     Cast!Someone
<1>9. ASSUME Cast!StopMdns PROVE CastPlaces'
  BY <1>9 DEF Cast!StopMdns, Cast!acceptVars, Cast!clientVars, Cast!appVars,
     CastPlaces, Cast!Someone
<1>10. ASSUME Cast!Cleanup PROVE CastPlaces'
  BY <1>10 DEF Cast!Cleanup, Cast!acceptVars, Cast!appVars, CastPlaces, Cast!Someone
<1>11. ASSUME Cast!Check PROVE CastPlaces'
  BY <1>11 DEF Cast!Check, Cast!acceptKeeps, Cast!appVars, CastPlaces, Cast!Someone
<1>12. ASSUME Cast!AcceptFails PROVE CastPlaces'
  BY <1>12 DEF Cast!AcceptFails, Cast!acceptKeeps, Cast!appVars, CastPlaces,
     Cast!Someone
<1>13. ASSUME Cast!StartClient PROVE CastPlaces'
  BY <1>13 DEF Cast!StartClient, Cast!HandOver, Cast!acceptKeeps, Cast!appVars,
     CastPlaces, Cast!Someone
<1>14. ASSUME Cast!WebrtcEnds PROVE CastPlaces'
  BY <1>14 DEF Cast!WebrtcEnds, Cast!messageKeeps, Cast!clientVars,
     Cast!handlerKeeps, Cast!acceptVars, CastPlaces, Cast!Someone
<1>15. ASSUME Cast!MdnsEnds PROVE CastPlaces'
  BY <1>15 DEF Cast!MdnsEnds, Cast!acceptVars, Cast!clientVars, Cast!appVars,
     CastPlaces, Cast!Someone
<1>16. ASSUME NEW c \in Senders, Cast!AcceptClient(c) PROVE CastPlaces'
  BY <1>16 DEF Cast!AcceptClient, Cast!acceptKeeps, Cast!appVars, CastPlaces,
     Cast!Someone
<1>17. ASSUME NEW c \in Senders, Cast!Register(c) PROVE CastPlaces'
  BY <1>17 DEF Cast!Register, Cast!Moves, Cast!handlerKeeps, Cast!acceptVars,
     Cast!appVars, CastPlaces, Cast!Someone
<1>18. ASSUME NEW c \in Senders, Cast!GivesUp(c) PROVE CastPlaces'
  BY <1>18 DEF Cast!GivesUp, Cast!Moves, Cast!handlerKeeps, Cast!acceptVars,
     Cast!appVars, CastPlaces, Cast!Someone
<1>19. ASSUME NEW c \in Senders, Cast!LoopEnds(c) PROVE CastPlaces'
  BY <1>19 DEF Cast!LoopEnds, Cast!Moves, Cast!handlerKeeps, Cast!acceptVars,
     Cast!appVars, CastPlaces, Cast!Someone
<1>20. ASSUME NEW c \in Senders, Cast!Unregister(c) PROVE CastPlaces'
  BY <1>20 DEF Cast!Unregister, Cast!Moves, Cast!handlerKeeps, Cast!acceptVars,
     Cast!appVars, CastPlaces, Cast!Someone
<1>21. ASSUME NEW c \in Senders, Cast!CloseClient(c) PROVE CastPlaces'
  BY <1>21 DEF Cast!CloseClient, Cast!Moves, Cast!handlerKeeps, Cast!acceptVars,
     Cast!appVars, CastPlaces, Cast!Someone
<1>22. ASSUME NEW c \in Senders, Cast!Notify(c) PROVE CastPlaces'
  BY <1>22 DEF Cast!Notify, Cast!Moves, Cast!handlerKeeps, Cast!acceptVars,
     Cast!appVars, CastPlaces, Cast!Someone
<1>23. ASSUME NEW c \in Senders, Cast!PeekSucceeds(c) PROVE CastPlaces'
  BY <1>23 DEF Cast!PeekSucceeds, Cast!Moves, Cast!handlerKeeps, Cast!acceptVars,
     Cast!appVars, CastPlaces, Cast!Someone
<1>24. ASSUME NEW c \in Senders, Cast!TlsSucceeds(c) PROVE CastPlaces'
  BY <1>24 DEF Cast!TlsSucceeds, Cast!Moves, Cast!handlerKeeps, Cast!acceptVars,
     Cast!appVars, CastPlaces, Cast!Someone
<1>25. ASSUME NEW c \in Senders, Cast!Launch(c) PROVE CastPlaces'
  BY <1>25 DEF Cast!Launch, Cast!messageKeeps, Cast!clientVars, Cast!handlerKeeps,
     Cast!acceptVars, CastPlaces, Cast!Someone
<1>26. ASSUME NEW c \in Senders, Cast!StopApplication(c) PROVE CastPlaces'
  BY <1>26 DEF Cast!StopApplication, Cast!messageKeeps, Cast!clientVars,
     Cast!handlerKeeps, Cast!acceptVars, CastPlaces, Cast!Someone
<1>27. ASSUME NEW c \in Senders, Cast!Offer(c) PROVE CastPlaces'
  BY <1>27 DEF Cast!Offer, Cast!messageKeeps, Cast!clientVars, Cast!handlerKeeps,
     Cast!acceptVars, CastPlaces, Cast!Someone, OneAccepted
<1>28. CASE UNCHANGED castV
  BY <1>28 DEF castV, CastPlaces, Cast!Someone
<1> QED
  BY <1>1, <1>2, <1>3, <1>4, <1>5, <1>6, <1>7, <1>8, <1>9, <1>10, <1>11, <1>12,
     <1>13, <1>14, <1>15, <1>16, <1>17, <1>18, <1>19, <1>20, <1>21, <1>22, <1>23,
     <1>24, <1>25, <1>26, <1>27, <1>28
    DEF Cast!Next, Cast!StopStep, Cast!AcceptStep, Cast!HandlerStep, Cast!PeerStep,
       Cast!HandshakeFails

\* A handler begins only when the one before was joined.
LEMMA AcceptedKept ==
    ASSUME CastTypes, CastPlaces, OneAccepted, Cast!Next \/ UNCHANGED castV
    PROVE  OneAccepted'
<1> USE NobodyAssumption
<1>1. ASSUME Cast!Start PROVE OneAccepted'
  BY <1>1 DEF Cast!Start, Cast!acceptVars, Cast!clientVars, Cast!appVars,
     Cast!Someone, OneAccepted
<1>2. ASSUME Cast!StartFails PROVE OneAccepted'
  BY <1>2 DEF Cast!StartFails, Cast!acceptVars, Cast!clientVars, Cast!appVars,
     Cast!Someone, OneAccepted
<1>3. ASSUME Cast!StopBegins PROVE OneAccepted'
  BY <1>3 DEF Cast!StopBegins, Cast!acceptVars, Cast!clientVars, Cast!appVars,
     Cast!Someone, OneAccepted
<1>4. ASSUME Cast!StopListening PROVE OneAccepted'
  BY <1>4 DEF Cast!StopListening, Cast!acceptVars, Cast!clientVars, Cast!appVars,
     Cast!Someone, OneAccepted
<1>5. ASSUME Cast!StopClient PROVE OneAccepted'
  BY <1>5 DEF Cast!StopClient, Cast!acceptVars, Cast!appVars, Cast!Someone,
     OneAccepted
<1>6. ASSUME Cast!JoinAccept PROVE OneAccepted'
  BY <1>6 DEF Cast!JoinAccept, Cast!acceptVars, Cast!clientVars, Cast!appVars,
     Cast!Someone, OneAccepted
<1>7. ASSUME Cast!JoinClient PROVE OneAccepted'
  BY <1>7 DEF Cast!JoinClient, Cast!ClientJoined, Cast!appVars, CastTypes,
     Cast!Someone, OneAccepted
<1>8. ASSUME Cast!JoinWebrtc PROVE OneAccepted'
  BY <1>8 DEF Cast!JoinWebrtc, Cast!acceptVars, Cast!clientVars, Cast!Someone,
     OneAccepted
<1>9. ASSUME Cast!StopMdns PROVE OneAccepted'
  BY <1>9 DEF Cast!StopMdns, Cast!acceptVars, Cast!clientVars, Cast!appVars,
     Cast!Someone, OneAccepted
<1>10. ASSUME Cast!Cleanup PROVE OneAccepted'
  BY <1>10 DEF Cast!Cleanup, Cast!acceptVars, Cast!appVars, Cast!Someone,
     OneAccepted
<1>11. ASSUME Cast!Check PROVE OneAccepted'
  BY <1>11 DEF Cast!Check, Cast!acceptKeeps, Cast!appVars, Cast!Someone, OneAccepted
<1>12. ASSUME Cast!AcceptFails PROVE OneAccepted'
  BY <1>12 DEF Cast!AcceptFails, Cast!acceptKeeps, Cast!appVars, Cast!Someone,
     OneAccepted
<1>13. ASSUME Cast!StartClient PROVE OneAccepted'
  BY <1>13 DEF Cast!StartClient, Cast!HandOver, Cast!acceptKeeps, Cast!appVars,
     CastTypes, Cast!Someone, OneAccepted
<1>14. ASSUME Cast!WebrtcEnds PROVE OneAccepted'
  BY <1>14 DEF Cast!WebrtcEnds, Cast!messageKeeps, Cast!clientVars,
     Cast!handlerKeeps, Cast!acceptVars, Cast!Someone, OneAccepted
<1>15. ASSUME Cast!MdnsEnds PROVE OneAccepted'
  BY <1>15 DEF Cast!MdnsEnds, Cast!acceptVars, Cast!clientVars, Cast!appVars,
     Cast!Someone, OneAccepted
<1>16. ASSUME NEW c \in Senders, Cast!AcceptClient(c) PROVE OneAccepted'
  BY <1>16 DEF Cast!AcceptClient, Cast!acceptKeeps, Cast!appVars, Cast!Someone,
     OneAccepted
<1>17. ASSUME NEW c \in Senders, Cast!Register(c) PROVE OneAccepted'
  BY <1>17 DEF Cast!Register, Cast!Moves, Cast!handlerKeeps, Cast!acceptVars,
     Cast!appVars, Cast!Someone, OneAccepted
<1>18. ASSUME NEW c \in Senders, Cast!GivesUp(c) PROVE OneAccepted'
  BY <1>18 DEF Cast!GivesUp, Cast!Moves, Cast!handlerKeeps, Cast!acceptVars,
     Cast!appVars, Cast!Someone, OneAccepted
<1>19. ASSUME NEW c \in Senders, Cast!LoopEnds(c) PROVE OneAccepted'
  BY <1>19 DEF Cast!LoopEnds, Cast!Moves, Cast!handlerKeeps, Cast!acceptVars,
     Cast!appVars, Cast!Someone, OneAccepted
<1>20. ASSUME NEW c \in Senders, Cast!Unregister(c) PROVE OneAccepted'
  BY <1>20 DEF Cast!Unregister, Cast!Moves, Cast!handlerKeeps, Cast!acceptVars,
     Cast!appVars, Cast!Someone, OneAccepted
<1>21. ASSUME NEW c \in Senders, Cast!CloseClient(c) PROVE OneAccepted'
  BY <1>21 DEF Cast!CloseClient, Cast!Moves, Cast!handlerKeeps, Cast!acceptVars,
     Cast!appVars, Cast!Someone, OneAccepted
<1>22. ASSUME NEW c \in Senders, Cast!Notify(c) PROVE OneAccepted'
  BY <1>22 DEF Cast!Notify, Cast!Moves, Cast!handlerKeeps, Cast!acceptVars,
     Cast!appVars, Cast!Someone, OneAccepted
<1>23. ASSUME NEW c \in Senders, Cast!PeekSucceeds(c) PROVE OneAccepted'
  BY <1>23 DEF Cast!PeekSucceeds, Cast!Moves, Cast!handlerKeeps, Cast!acceptVars,
     Cast!appVars, Cast!Someone, OneAccepted
<1>24. ASSUME NEW c \in Senders, Cast!TlsSucceeds(c) PROVE OneAccepted'
  BY <1>24 DEF Cast!TlsSucceeds, Cast!Moves, Cast!handlerKeeps, Cast!acceptVars,
     Cast!appVars, Cast!Someone, OneAccepted
<1>25. ASSUME NEW c \in Senders, Cast!Launch(c) PROVE OneAccepted'
  BY <1>25 DEF Cast!Launch, Cast!messageKeeps, Cast!clientVars, Cast!handlerKeeps,
     Cast!acceptVars, Cast!Someone, OneAccepted
<1>26. ASSUME NEW c \in Senders, Cast!StopApplication(c) PROVE OneAccepted'
  BY <1>26 DEF Cast!StopApplication, Cast!messageKeeps, Cast!clientVars,
     Cast!handlerKeeps, Cast!acceptVars, Cast!Someone, OneAccepted
<1>27. ASSUME NEW c \in Senders, Cast!Offer(c) PROVE OneAccepted'
  BY <1>27 DEF Cast!Offer, Cast!messageKeeps, Cast!clientVars, Cast!handlerKeeps,
     Cast!acceptVars, Cast!Someone, OneAccepted
<1>28. CASE UNCHANGED castV
  BY <1>28 DEF castV, Cast!Someone, OneAccepted
<1> QED
  BY <1>1, <1>2, <1>3, <1>4, <1>5, <1>6, <1>7, <1>8, <1>9, <1>10, <1>11, <1>12,
     <1>13, <1>14, <1>15, <1>16, <1>17, <1>18, <1>19, <1>20, <1>21, <1>22, <1>23,
     <1>24, <1>25, <1>26, <1>27, <1>28
    DEF Cast!Next, Cast!StopStep, Cast!AcceptStep, Cast!HandlerStep, Cast!PeerStep,
       Cast!HandshakeFails

\* Who is to close a socket.
LEMMA OpenKept ==
    ASSUME CastTypes, CastPlaces, OneAccepted, OpenOwned,
           Cast!Next \/ UNCHANGED castV
    PROVE  OpenOwned'
<1> USE NobodyAssumption
<1>1. ASSUME Cast!Start PROVE OpenOwned'
  BY <1>1 DEF Cast!Start, Cast!acceptVars, Cast!clientVars, Cast!appVars,
     Cast!Someone, OpenOwned
<1>2. ASSUME Cast!StartFails PROVE OpenOwned'
  BY <1>2 DEF Cast!StartFails, Cast!acceptVars, Cast!clientVars, Cast!appVars,
     Cast!Someone, OpenOwned
<1>3. ASSUME Cast!StopBegins PROVE OpenOwned'
  BY <1>3 DEF Cast!StopBegins, Cast!acceptVars, Cast!clientVars, Cast!appVars,
     Cast!Someone, OpenOwned
<1>4. ASSUME Cast!StopListening PROVE OpenOwned'
  BY <1>4 DEF Cast!StopListening, Cast!acceptVars, Cast!clientVars, Cast!appVars,
     Cast!Someone, OpenOwned
<1>5. ASSUME Cast!StopClient PROVE OpenOwned'
  BY <1>5 DEF Cast!StopClient, Cast!acceptVars, Cast!appVars, Cast!Someone,
     OpenOwned
<1>6. ASSUME Cast!JoinAccept PROVE OpenOwned'
  BY <1>6 DEF Cast!JoinAccept, Cast!acceptVars, Cast!clientVars, Cast!appVars,
     Cast!Someone, OpenOwned
<1>7. ASSUME Cast!JoinClient PROVE OpenOwned'
  BY <1>7 DEF Cast!JoinClient, Cast!ClientJoined, Cast!appVars, CastTypes,
     Cast!Someone, OpenOwned
<1>8. ASSUME Cast!JoinWebrtc PROVE OpenOwned'
  BY <1>8 DEF Cast!JoinWebrtc, Cast!acceptVars, Cast!clientVars, Cast!Someone,
     OpenOwned
<1>9. ASSUME Cast!StopMdns PROVE OpenOwned'
  BY <1>9 DEF Cast!StopMdns, Cast!acceptVars, Cast!clientVars, Cast!appVars,
     Cast!Someone, OpenOwned
<1>10. ASSUME Cast!Cleanup PROVE OpenOwned'
  BY <1>10 DEF Cast!Cleanup, Cast!acceptVars, Cast!appVars, Cast!Someone, OpenOwned
<1>11. ASSUME Cast!Check PROVE OpenOwned'
  BY <1>11 DEF Cast!Check, Cast!acceptKeeps, Cast!appVars, Cast!Someone, OpenOwned
<1>12. ASSUME Cast!AcceptFails PROVE OpenOwned'
  BY <1>12 DEF Cast!AcceptFails, Cast!acceptKeeps, Cast!appVars, Cast!Someone,
     OpenOwned
<1>13. ASSUME Cast!StartClient PROVE OpenOwned'
  BY <1>13 DEF Cast!StartClient, Cast!HandOver, Cast!acceptKeeps, Cast!appVars,
     CastTypes, Cast!Someone, OpenOwned
<1>14. ASSUME Cast!WebrtcEnds PROVE OpenOwned'
  BY <1>14 DEF Cast!WebrtcEnds, Cast!messageKeeps, Cast!clientVars,
     Cast!handlerKeeps, Cast!acceptVars, Cast!Someone, OpenOwned
<1>15. ASSUME Cast!MdnsEnds PROVE OpenOwned'
  BY <1>15 DEF Cast!MdnsEnds, Cast!acceptVars, Cast!clientVars, Cast!appVars,
     Cast!Someone, OpenOwned
<1>16. ASSUME NEW c \in Senders, Cast!AcceptClient(c) PROVE OpenOwned'
  BY <1>16 DEF Cast!AcceptClient, Cast!acceptKeeps, Cast!appVars, CastPlaces,
     CastTypes, Cast!Someone, OpenOwned
<1>17. ASSUME NEW c \in Senders, Cast!Register(c) PROVE OpenOwned'
  BY <1>17 DEF Cast!Register, Cast!Moves, Cast!handlerKeeps, Cast!acceptVars,
     Cast!appVars, Cast!Someone, OpenOwned
<1>18. ASSUME NEW c \in Senders, Cast!GivesUp(c) PROVE OpenOwned'
  BY <1>18 DEF Cast!GivesUp, Cast!Moves, Cast!handlerKeeps, Cast!acceptVars,
     Cast!appVars, Cast!Someone, OpenOwned
<1>19. ASSUME NEW c \in Senders, Cast!LoopEnds(c) PROVE OpenOwned'
  BY <1>19 DEF Cast!LoopEnds, Cast!Moves, Cast!handlerKeeps, Cast!acceptVars,
     Cast!appVars, Cast!Someone, OpenOwned
<1>20. ASSUME NEW c \in Senders, Cast!Unregister(c) PROVE OpenOwned'
  BY <1>20 DEF Cast!Unregister, Cast!Moves, Cast!handlerKeeps, Cast!acceptVars,
     Cast!appVars, Cast!Someone, OpenOwned
<1>21. ASSUME NEW c \in Senders, Cast!CloseClient(c) PROVE OpenOwned'
  BY <1>21 DEF Cast!CloseClient, Cast!Moves, Cast!handlerKeeps, Cast!acceptVars,
     Cast!appVars, Cast!Someone, OpenOwned
<1>22. ASSUME NEW c \in Senders, Cast!Notify(c) PROVE OpenOwned'
  BY <1>22 DEF Cast!Notify, Cast!Moves, Cast!handlerKeeps, Cast!acceptVars,
     Cast!appVars, Cast!Someone, OpenOwned
<1>23. ASSUME NEW c \in Senders, Cast!PeekSucceeds(c) PROVE OpenOwned'
  BY <1>23 DEF Cast!PeekSucceeds, Cast!Moves, Cast!handlerKeeps, Cast!acceptVars,
     Cast!appVars, Cast!Someone, OpenOwned
<1>24. ASSUME NEW c \in Senders, Cast!TlsSucceeds(c) PROVE OpenOwned'
  BY <1>24 DEF Cast!TlsSucceeds, Cast!Moves, Cast!handlerKeeps, Cast!acceptVars,
     Cast!appVars, Cast!Someone, OpenOwned
<1>25. ASSUME NEW c \in Senders, Cast!Launch(c) PROVE OpenOwned'
  BY <1>25 DEF Cast!Launch, Cast!messageKeeps, Cast!clientVars, Cast!handlerKeeps,
     Cast!acceptVars, Cast!Someone, OpenOwned
<1>26. ASSUME NEW c \in Senders, Cast!StopApplication(c) PROVE OpenOwned'
  BY <1>26 DEF Cast!StopApplication, Cast!messageKeeps, Cast!clientVars,
     Cast!handlerKeeps, Cast!acceptVars, Cast!Someone, OpenOwned
<1>27. ASSUME NEW c \in Senders, Cast!Offer(c) PROVE OpenOwned'
  BY <1>27 DEF Cast!Offer, Cast!messageKeeps, Cast!clientVars, Cast!handlerKeeps,
     Cast!acceptVars, Cast!Someone, OpenOwned
<1>28. CASE UNCHANGED castV
  BY <1>28 DEF castV, Cast!Someone, OpenOwned
<1> QED
  BY <1>1, <1>2, <1>3, <1>4, <1>5, <1>6, <1>7, <1>8, <1>9, <1>10, <1>11, <1>12,
     <1>13, <1>14, <1>15, <1>16, <1>17, <1>18, <1>19, <1>20, <1>21, <1>22, <1>23,
     <1>24, <1>25, <1>26, <1>27, <1>28
    DEF Cast!Next, Cast!StopStep, Cast!AcceptStep, Cast!HandlerStep, Cast!PeerStep,
       Cast!HandshakeFails

\* Who is to reset client_ssl.
LEMMA SslKept ==
    ASSUME CastTypes, CastPlaces, OneAccepted, SslOwned,
           Cast!Next \/ UNCHANGED castV
    PROVE  SslOwned'
<1> USE NobodyAssumption
<1>1. ASSUME Cast!Start PROVE SslOwned'
  BY <1>1 DEF Cast!Start, Cast!acceptVars, Cast!clientVars, Cast!appVars,
     Cast!Someone, SslOwned
<1>2. ASSUME Cast!StartFails PROVE SslOwned'
  BY <1>2 DEF Cast!StartFails, Cast!acceptVars, Cast!clientVars, Cast!appVars,
     Cast!Someone, SslOwned
<1>3. ASSUME Cast!StopBegins PROVE SslOwned'
  BY <1>3 DEF Cast!StopBegins, Cast!acceptVars, Cast!clientVars, Cast!appVars,
     Cast!Someone, SslOwned
<1>4. ASSUME Cast!StopListening PROVE SslOwned'
  BY <1>4 DEF Cast!StopListening, Cast!acceptVars, Cast!clientVars, Cast!appVars,
     Cast!Someone, SslOwned
<1>5. ASSUME Cast!StopClient PROVE SslOwned'
  BY <1>5 DEF Cast!StopClient, Cast!acceptVars, Cast!appVars, Cast!Someone, SslOwned
<1>6. ASSUME Cast!JoinAccept PROVE SslOwned'
  BY <1>6 DEF Cast!JoinAccept, Cast!acceptVars, Cast!clientVars, Cast!appVars,
     Cast!Someone, SslOwned
<1>7. ASSUME Cast!JoinClient PROVE SslOwned'
  BY <1>7 DEF Cast!JoinClient, Cast!ClientJoined, Cast!appVars, CastTypes,
     Cast!Someone, SslOwned
<1>8. ASSUME Cast!JoinWebrtc PROVE SslOwned'
  BY <1>8 DEF Cast!JoinWebrtc, Cast!acceptVars, Cast!clientVars, Cast!Someone,
     SslOwned
<1>9. ASSUME Cast!StopMdns PROVE SslOwned'
  BY <1>9 DEF Cast!StopMdns, Cast!acceptVars, Cast!clientVars, Cast!appVars,
     Cast!Someone, SslOwned
<1>10. ASSUME Cast!Cleanup PROVE SslOwned'
  BY <1>10 DEF Cast!Cleanup, Cast!acceptVars, Cast!appVars, Cast!Someone, SslOwned
<1>11. ASSUME Cast!Check PROVE SslOwned'
  BY <1>11 DEF Cast!Check, Cast!acceptKeeps, Cast!appVars, Cast!Someone, SslOwned
<1>12. ASSUME Cast!AcceptFails PROVE SslOwned'
  BY <1>12 DEF Cast!AcceptFails, Cast!acceptKeeps, Cast!appVars, Cast!Someone,
     SslOwned
<1>13. ASSUME Cast!StartClient PROVE SslOwned'
  BY <1>13 DEF Cast!StartClient, Cast!HandOver, Cast!acceptKeeps, Cast!appVars,
     CastTypes, Cast!Someone, OneAccepted, SslOwned
<1>14. ASSUME Cast!WebrtcEnds PROVE SslOwned'
  BY <1>14 DEF Cast!WebrtcEnds, Cast!messageKeeps, Cast!clientVars,
     Cast!handlerKeeps, Cast!acceptVars, Cast!Someone, SslOwned
<1>15. ASSUME Cast!MdnsEnds PROVE SslOwned'
  BY <1>15 DEF Cast!MdnsEnds, Cast!acceptVars, Cast!clientVars, Cast!appVars,
     Cast!Someone, SslOwned
<1>16. ASSUME NEW c \in Senders, Cast!AcceptClient(c) PROVE SslOwned'
  BY <1>16 DEF Cast!AcceptClient, Cast!acceptKeeps, Cast!appVars, Cast!Someone,
     SslOwned
<1>17. ASSUME NEW c \in Senders, Cast!Register(c) PROVE SslOwned'
  BY <1>17 DEF Cast!Register, Cast!Moves, Cast!handlerKeeps, Cast!acceptVars,
     Cast!appVars, Cast!Someone, SslOwned
<1>18. ASSUME NEW c \in Senders, Cast!GivesUp(c) PROVE SslOwned'
  BY <1>18 DEF Cast!GivesUp, Cast!Moves, Cast!handlerKeeps, Cast!acceptVars,
     Cast!appVars, Cast!Someone, SslOwned
<1>19. ASSUME NEW c \in Senders, Cast!LoopEnds(c) PROVE SslOwned'
  BY <1>19 DEF Cast!LoopEnds, Cast!Moves, Cast!handlerKeeps, Cast!acceptVars,
     Cast!appVars, Cast!Someone, SslOwned
<1>20. ASSUME NEW c \in Senders, Cast!Unregister(c) PROVE SslOwned'
  BY <1>20 DEF Cast!Unregister, Cast!Moves, Cast!handlerKeeps, Cast!acceptVars,
     Cast!appVars, Cast!Someone, SslOwned
<1>21. ASSUME NEW c \in Senders, Cast!CloseClient(c) PROVE SslOwned'
  BY <1>21 DEF Cast!CloseClient, Cast!Moves, Cast!handlerKeeps, Cast!acceptVars,
     Cast!appVars, Cast!Someone, SslOwned
<1>22. ASSUME NEW c \in Senders, Cast!Notify(c) PROVE SslOwned'
  BY <1>22 DEF Cast!Notify, Cast!Moves, Cast!handlerKeeps, Cast!acceptVars,
     Cast!appVars, Cast!Someone, SslOwned
<1>23. ASSUME NEW c \in Senders, Cast!PeekSucceeds(c) PROVE SslOwned'
  BY <1>23 DEF Cast!PeekSucceeds, Cast!Moves, Cast!handlerKeeps, Cast!acceptVars,
     Cast!appVars, Cast!Someone, SslOwned
<1>24. ASSUME NEW c \in Senders, Cast!TlsSucceeds(c) PROVE SslOwned'
  BY <1>24 DEF Cast!TlsSucceeds, Cast!Moves, Cast!handlerKeeps, Cast!acceptVars,
     Cast!appVars, CastTypes, Cast!Someone, SslOwned
<1>25. ASSUME NEW c \in Senders, Cast!Launch(c) PROVE SslOwned'
  BY <1>25 DEF Cast!Launch, Cast!messageKeeps, Cast!clientVars, Cast!handlerKeeps,
     Cast!acceptVars, Cast!Someone, SslOwned
<1>26. ASSUME NEW c \in Senders, Cast!StopApplication(c) PROVE SslOwned'
  BY <1>26 DEF Cast!StopApplication, Cast!messageKeeps, Cast!clientVars,
     Cast!handlerKeeps, Cast!acceptVars, Cast!Someone, SslOwned
<1>27. ASSUME NEW c \in Senders, Cast!Offer(c) PROVE SslOwned'
  BY <1>27 DEF Cast!Offer, Cast!messageKeeps, Cast!clientVars, Cast!handlerKeeps,
     Cast!acceptVars, Cast!Someone, SslOwned
<1>28. CASE UNCHANGED castV
  BY <1>28 DEF castV, Cast!Someone, SslOwned
<1> QED
  BY <1>1, <1>2, <1>3, <1>4, <1>5, <1>6, <1>7, <1>8, <1>9, <1>10, <1>11, <1>12,
     <1>13, <1>14, <1>15, <1>16, <1>17, <1>18, <1>19, <1>20, <1>21, <1>22, <1>23,
     <1>24, <1>25, <1>26, <1>27, <1>28
    DEF Cast!Next, Cast!StopStep, Cast!AcceptStep, Cast!HandlerStep, Cast!PeerStep,
       Cast!HandshakeFails

\* The handler that ends resets the status.
LEMMA StatusKept ==
    ASSUME CastTypes, CastPlaces, OneAccepted, Cast!StatusTrue,
           Cast!Next \/ UNCHANGED castV
    PROVE  Cast!StatusTrue'
<1> USE NobodyAssumption
<1>1. ASSUME Cast!Start PROVE Cast!StatusTrue'
  BY <1>1 DEF Cast!Start, Cast!acceptVars, Cast!clientVars, Cast!appVars,
     Cast!Someone, Cast!StatusTrue
<1>2. ASSUME Cast!StartFails PROVE Cast!StatusTrue'
  BY <1>2 DEF Cast!StartFails, Cast!acceptVars, Cast!clientVars, Cast!appVars,
     Cast!Someone, Cast!StatusTrue
<1>3. ASSUME Cast!StopBegins PROVE Cast!StatusTrue'
  BY <1>3 DEF Cast!StopBegins, Cast!acceptVars, Cast!clientVars, Cast!appVars,
     Cast!Someone, Cast!StatusTrue
<1>4. ASSUME Cast!StopListening PROVE Cast!StatusTrue'
  BY <1>4 DEF Cast!StopListening, Cast!acceptVars, Cast!clientVars, Cast!appVars,
     Cast!Someone, Cast!StatusTrue
<1>5. ASSUME Cast!StopClient PROVE Cast!StatusTrue'
  BY <1>5 DEF Cast!StopClient, Cast!acceptVars, Cast!appVars, Cast!Someone,
     Cast!StatusTrue
<1>6. ASSUME Cast!JoinAccept PROVE Cast!StatusTrue'
  BY <1>6 DEF Cast!JoinAccept, Cast!acceptVars, Cast!clientVars, Cast!appVars,
     Cast!Someone, Cast!StatusTrue
<1>7. ASSUME Cast!JoinClient PROVE Cast!StatusTrue'
  BY <1>7 DEF Cast!JoinClient, Cast!ClientJoined, Cast!appVars, CastTypes,
     Cast!Someone, Cast!StatusTrue
<1>8. ASSUME Cast!JoinWebrtc PROVE Cast!StatusTrue'
  BY <1>8 DEF Cast!JoinWebrtc, Cast!acceptVars, Cast!clientVars, Cast!Someone,
     Cast!StatusTrue
<1>9. ASSUME Cast!StopMdns PROVE Cast!StatusTrue'
  BY <1>9 DEF Cast!StopMdns, Cast!acceptVars, Cast!clientVars, Cast!appVars,
     Cast!Someone, Cast!StatusTrue
<1>10. ASSUME Cast!Cleanup PROVE Cast!StatusTrue'
  BY <1>10 DEF Cast!Cleanup, Cast!acceptVars, Cast!appVars, Cast!Someone,
     Cast!StatusTrue
<1>11. ASSUME Cast!Check PROVE Cast!StatusTrue'
  BY <1>11 DEF Cast!Check, Cast!acceptKeeps, Cast!appVars, Cast!Someone,
     Cast!StatusTrue
<1>12. ASSUME Cast!AcceptFails PROVE Cast!StatusTrue'
  BY <1>12 DEF Cast!AcceptFails, Cast!acceptKeeps, Cast!appVars, Cast!Someone,
     Cast!StatusTrue
<1>13. ASSUME Cast!StartClient PROVE Cast!StatusTrue'
  BY <1>13 DEF Cast!StartClient, Cast!HandOver, Cast!acceptKeeps, Cast!appVars,
     CastTypes, Cast!Someone, OneAccepted, Cast!StatusTrue
<1>14. ASSUME Cast!WebrtcEnds PROVE Cast!StatusTrue'
  BY <1>14 DEF Cast!WebrtcEnds, Cast!messageKeeps, Cast!clientVars,
     Cast!handlerKeeps, Cast!acceptVars, Cast!Someone, Cast!StatusTrue
<1>15. ASSUME Cast!MdnsEnds PROVE Cast!StatusTrue'
  BY <1>15 DEF Cast!MdnsEnds, Cast!acceptVars, Cast!clientVars, Cast!appVars,
     Cast!Someone, Cast!StatusTrue
<1>16. ASSUME NEW c \in Senders, Cast!AcceptClient(c) PROVE Cast!StatusTrue'
  BY <1>16 DEF Cast!AcceptClient, Cast!acceptKeeps, Cast!appVars, Cast!Someone,
     Cast!StatusTrue
<1>17. ASSUME NEW c \in Senders, Cast!Register(c) PROVE Cast!StatusTrue'
  BY <1>17 DEF Cast!Register, Cast!Moves, Cast!handlerKeeps, Cast!acceptVars,
     Cast!appVars, Cast!Someone, Cast!StatusTrue
<1>18. ASSUME NEW c \in Senders, Cast!GivesUp(c) PROVE Cast!StatusTrue'
  BY <1>18 DEF Cast!GivesUp, Cast!Moves, Cast!handlerKeeps, Cast!acceptVars,
     Cast!appVars, Cast!Someone, Cast!StatusTrue
<1>19. ASSUME NEW c \in Senders, Cast!LoopEnds(c) PROVE Cast!StatusTrue'
  BY <1>19 DEF Cast!LoopEnds, Cast!Moves, Cast!handlerKeeps, Cast!acceptVars,
     Cast!appVars, Cast!Someone, Cast!StatusTrue
<1>20. ASSUME NEW c \in Senders, Cast!Unregister(c) PROVE Cast!StatusTrue'
  BY <1>20 DEF Cast!Unregister, Cast!Moves, Cast!handlerKeeps, Cast!acceptVars,
     Cast!appVars, Cast!Someone, Cast!StatusTrue
<1>21. ASSUME NEW c \in Senders, Cast!CloseClient(c) PROVE Cast!StatusTrue'
  BY <1>21 DEF Cast!CloseClient, Cast!Moves, Cast!handlerKeeps, Cast!acceptVars,
     Cast!appVars, Cast!Someone, Cast!StatusTrue
<1>22. ASSUME NEW c \in Senders, Cast!Notify(c) PROVE Cast!StatusTrue'
  BY <1>22 DEF Cast!Notify, Cast!Moves, Cast!handlerKeeps, Cast!acceptVars,
     Cast!appVars, Cast!Someone, Cast!StatusTrue
<1>23. ASSUME NEW c \in Senders, Cast!PeekSucceeds(c) PROVE Cast!StatusTrue'
  BY <1>23 DEF Cast!PeekSucceeds, Cast!Moves, Cast!handlerKeeps, Cast!acceptVars,
     Cast!appVars, Cast!Someone, Cast!StatusTrue
<1>24. ASSUME NEW c \in Senders, Cast!TlsSucceeds(c) PROVE Cast!StatusTrue'
  BY <1>24 DEF Cast!TlsSucceeds, Cast!Moves, Cast!handlerKeeps, Cast!acceptVars,
     Cast!appVars, Cast!Someone, Cast!StatusTrue
<1>25. ASSUME NEW c \in Senders, Cast!Launch(c) PROVE Cast!StatusTrue'
  BY <1>25 DEF Cast!Launch, Cast!messageKeeps, Cast!clientVars, Cast!handlerKeeps,
     Cast!acceptVars, Cast!Someone, Cast!StatusTrue
<1>26. ASSUME NEW c \in Senders, Cast!StopApplication(c) PROVE Cast!StatusTrue'
  BY <1>26 DEF Cast!StopApplication, Cast!messageKeeps, Cast!clientVars,
     Cast!handlerKeeps, Cast!acceptVars, Cast!Someone, Cast!StatusTrue
<1>27. ASSUME NEW c \in Senders, Cast!Offer(c) PROVE Cast!StatusTrue'
  BY <1>27 DEF Cast!Offer, Cast!messageKeeps, Cast!clientVars, Cast!handlerKeeps,
     Cast!acceptVars, Cast!Someone, Cast!StatusTrue
<1>28. CASE UNCHANGED castV
  BY <1>28 DEF castV, Cast!Someone, Cast!StatusTrue
<1> QED
  BY <1>1, <1>2, <1>3, <1>4, <1>5, <1>6, <1>7, <1>8, <1>9, <1>10, <1>11, <1>12,
     <1>13, <1>14, <1>15, <1>16, <1>17, <1>18, <1>19, <1>20, <1>21, <1>22, <1>23,
     <1>24, <1>25, <1>26, <1>27, <1>28
    DEF Cast!Next, Cast!StopStep, Cast!AcceptStep, Cast!HandlerStep, Cast!PeerStep,
       Cast!HandshakeFails

\* The invariant's states are safe.
LEMMA CastHolds ==
    ASSUME CastInv
    PROVE  CastSafe
<1> USE NobodyAssumption
<1>1. Cast!OneHandler
  BY DEF CastInv, OneAccepted, SslOwned, Cast!OneHandler
<1>2. Cast!ContextsOutlive
  BY DEF CastInv, CastTypes, CastPlaces, OneAccepted, OpenOwned,
     Cast!ContextsOutlive, Cast!Someone
<1> QED
  BY <1>1, <1>2 DEF CastInv, CastSafe

\* They include the initial ones.
LEMMA CastInitially ==
    ASSUME Cast!Init
    PROVE  CastInv
  BY NobodyAssumption
    DEF Cast!Init, CastInv, CastTypes, CastFlags, CastPlaces, OneAccepted,
       OpenOwned, SslOwned, Cast!StatusTrue, Cast!Someone

(***************************************************************************)
(* The webcam: the guard, the worker and the detached threads.             *)
(***************************************************************************)

\* The types: of the process and its worker, of the detached threads, of the
\* flags.
WebcamTypes ==
    /\ app \in {"down", "up", "joining", "aborted"}
    /\ savedDevice \in Webcam!Devices
    /\ camera \in {"none", "init", "failed", "run", "ended"}
    /\ polled \in {"none", "new", "old"}

TaskTypes == task \in [Tasks -> [at : {"none", "stop", "join", "clear", "mark", "start",
                                 "spawn", "wait", "failed"},
                           closes : BOOLEAN, starts : BOOLEAN]]

WebcamFlags ==
    /\ savedOpen \in BOOLEAN /\ marker \in BOOLEAN /\ visible \in BOOLEAN
    /\ manual \in BOOLEAN /\ cleared \in BOOLEAN /\ capturing \in BOOLEAN
    /\ latest \in BOOLEAN /\ shown \in BOOLEAN
    /\ spoiled \in BOOLEAN /\ unproven \in BOOLEAN

\* The places of a detached thread.
Steps == {"none", "stop", "join", "clear", "mark", "start", "spawn", "wait", "failed"}

\* The other threads stay where they are.
Others(t) == \A u \in Tasks : u # t => task'[u] = task[u]

\* A detached thread begins.
LEMMA Begun ==
  ASSUME TaskTypes, NEW at \in Steps, NEW c \in BOOLEAN, NEW s \in BOOLEAN,
         Webcam!Begins(at, c, s)
  PROVE  /\ TaskTypes' /\ spoiled' = (spoiled \/ Webcam!Busy)
         /\ \E t \in Tasks :
              /\ task[t].at = "none" /\ Others(t)
              /\ task'[t] = [at |-> at, closes |-> c, starts |-> s]
<1>1. spoiled' = (spoiled \/ Webcam!Busy)
  BY DEF Webcam!Begins
<1>2. PICK t \in Tasks :
          /\ task[t].at = "none"
          /\ task' = [task EXCEPT ![t] = [at |-> at, closes |-> c, starts |-> s]]
  BY DEF Webcam!Begins
<1>3. TaskTypes'
  BY <1>2 DEF TaskTypes, Steps
<1> QED
  BY <1>1, <1>2, <1>3 DEF TaskTypes, Others

\* A detached thread moves.
LEMMA Moved ==
  ASSUME TaskTypes, NEW t \in Tasks, NEW to \in Steps, task' = [task EXCEPT ![t].at = to]
  PROVE  /\ TaskTypes' /\ Others(t) /\ task'[t].at = to
         /\ task'[t].starts = task[t].starts /\ task'[t].closes = task[t].closes
  BY DEF TaskTypes, Steps, Others

\* All three are TypeOK.
LEMMA WebcamTypesTogether == Webcam!TypeOK <=> WebcamTypes /\ TaskTypes /\ WebcamFlags
  BY DEF Webcam!TypeOK, WebcamTypes, TaskTypes, WebcamFlags

\* A detached thread is at one of the places P.
At(P) == \E t \in Tasks : task[t].at \in P

\* A process that is not up has no threads; while it is up the drawer is saved
\* as it is shown; and after a crash without a first frame the guard is set if
\* the drawer was open.
Saved ==
    /\ app \in {"down", "aborted"} => \A t \in Tasks : task[t] = Webcam!Idle
    /\ app = "up" => savedOpen = visible
    /\ unproven => app = "down" /\ (savedOpen => marker)

\* While no two clicks have overlapped there is one detached thread at most,
Alone == app = "up" /\ ~spoiled

OneTask ==
    Alone => \A t, u \in Tasks : task[t].at # "none" /\ task[u].at # "none" => t = u

\* a worker that has not run has left no frame, one that has shown no frame
\* has the guard set, and a drawer that waits for the user's choice has no
\* worker and no thread;
CameraPlaces == Alone =>
       /\ camera \in {"none", "init", "failed"} => ~latest /\ polled # "new"
       /\ camera \in {"init", "none", "failed", "ended"} => ~capturing
       /\ camera \in {"init", "run"} => shown \/ marker
       /\ manual => camera = "none" /\ \A t \in Tasks : task[t].at = "none"

\* a worker that starts or has failed is waited for, one that was told to stop
\* is joined, and one that runs belongs to a drawer that is open, or is being
\* stopped;
CameraTasks == Alone =>
       /\ camera \in {"init", "failed"} => At({"wait"})
       /\ camera = "run" /\ ~capturing => At({"join"})
       /\ camera \in {"init", "run"} => visible \/ At({"stop", "join"})

\* and a thread that starts a capture does so for an open drawer, with no
\* capture running and, if none is left to be joined, with the guard set.
TaskPlaces == Alone => \A t \in Tasks :
       /\ task[t].at \in {"clear", "failed"} => camera = "none"
       /\ task[t].at \in {"mark", "start", "spawn"} =>
            ~capturing /\ camera \in {"none", "ended"} /\ visible
       /\ task[t].at \in {"start", "spawn"} => marker \/ camera = "ended"
       /\ task[t].at \in {"stop", "join", "clear"} /\ task[t].starts => visible

\* All of it.
WebcamInv ==
    /\ WebcamTypes /\ TaskTypes /\ WebcamFlags
    /\ Saved /\ OneTask /\ CameraPlaces /\ CameraTasks /\ TaskPlaces

\* Every step keeps the types.
LEMMA WebcamTypesKept ==
    ASSUME WebcamInv, Webcam!Next \/ UNCHANGED webcamV
    PROVE  WebcamTypes'
<1> USE NobodyAssumption
<1>1. ASSUME Webcam!Launch PROVE WebcamTypes'
  BY <1>1 DEF Webcam!Launch, Webcam!FreshProcess, Webcam!Reopen, Webcam!savedVars,
     WebcamInv, WebcamTypes, Webcam!Devices
<1>2. ASSUME Webcam!OpenDrawer PROVE WebcamTypes'
  BY <1>2 DEF Webcam!OpenDrawer, Webcam!CanClick, Webcam!Begins, Webcam!NoThread,
     Webcam!Busy, Webcam!clickKeeps, Webcam!captureVars, WebcamInv, WebcamTypes,
     Webcam!Devices
<1>3. ASSUME Webcam!CloseDrawer PROVE WebcamTypes'
  BY <1>3 DEF Webcam!CloseDrawer, Webcam!CanClick, Webcam!Begins, Webcam!NoThread,
     Webcam!Busy, Webcam!clickKeeps, Webcam!captureVars, WebcamInv, WebcamTypes,
     Webcam!Devices
<1>4. ASSUME Webcam!PollTakes PROVE WebcamTypes'
  BY <1>4 DEF Webcam!PollTakes, Webcam!CanClick, Webcam!pollKeeps, Webcam!savedVars,
     Webcam!uiVars, WebcamInv, WebcamTypes, Webcam!Devices
<1>5. ASSUME Webcam!PollClears PROVE WebcamTypes'
  BY <1>5 DEF Webcam!PollClears, Webcam!pollKeeps, Webcam!savedVars, Webcam!uiVars,
     WebcamInv, WebcamTypes, Webcam!Devices
<1>6. ASSUME Webcam!Exit PROVE WebcamTypes'
  BY <1>6 DEF Webcam!Exit, Webcam!CanClick, Webcam!exitKeeps, Webcam!savedVars,
     Webcam!uiVars, WebcamInv, WebcamTypes, Webcam!Devices
<1>7. ASSUME Webcam!Exited PROVE WebcamTypes'
  BY <1>7 DEF Webcam!Exited, Webcam!exitKeeps, Webcam!savedVars, Webcam!uiVars,
     Webcam!Idle, WebcamInv, WebcamTypes, Webcam!Devices
<1>8. ASSUME Webcam!Crash PROVE WebcamTypes'
  BY <1>8 DEF Webcam!Crash, Webcam!exitKeeps, Webcam!savedVars, Webcam!uiVars,
     Webcam!Idle, WebcamInv, WebcamTypes, Webcam!Devices
<1>9. ASSUME NEW d \in Cameras, Webcam!PickCamera(d) PROVE WebcamTypes'
  BY <1>9 DEF Webcam!PickCamera, Webcam!CanClick, Webcam!Begins, Webcam!NoThread,
     Webcam!Busy, Webcam!clickKeeps, Webcam!captureVars, WebcamInv, WebcamTypes,
     Webcam!Devices
<1>10. ASSUME NEW t \in Tasks, Webcam!TaskStops(t) PROVE WebcamTypes'
  BY <1>10 DEF Webcam!TaskStops, Webcam!Goes, Webcam!taskKeeps, Webcam!savedVars,
     Webcam!uiVars, Webcam!captureVars, Webcam!Idle, WebcamInv, WebcamTypes,
     Webcam!Devices
<1>11. ASSUME NEW t \in Tasks, Webcam!TaskJoins(t) PROVE WebcamTypes'
  BY <1>11 DEF Webcam!TaskJoins, Webcam!Goes, Webcam!taskKeeps, Webcam!savedVars,
     Webcam!uiVars, Webcam!captureVars, Webcam!Idle, WebcamInv, WebcamTypes,
     Webcam!Devices
<1>12. ASSUME NEW t \in Tasks, Webcam!TaskClears(t) PROVE WebcamTypes'
  BY <1>12 DEF Webcam!TaskClears, Webcam!Goes, Webcam!taskKeeps, Webcam!savedVars,
     Webcam!uiVars, Webcam!captureVars, Webcam!Idle, WebcamInv, WebcamTypes,
     Webcam!Devices
<1>13. ASSUME NEW t \in Tasks, Webcam!TaskMarks(t) PROVE WebcamTypes'
  BY <1>13 DEF Webcam!TaskMarks, Webcam!Goes, Webcam!taskKeeps, Webcam!savedVars,
     Webcam!uiVars, Webcam!captureVars, Webcam!Idle, WebcamInv, WebcamTypes,
     Webcam!Devices
<1>14. ASSUME NEW t \in Tasks, Webcam!TaskStarts(t) PROVE WebcamTypes'
  BY <1>14 DEF Webcam!TaskStarts, Webcam!Goes, Webcam!taskKeeps, Webcam!savedVars,
     Webcam!uiVars, Webcam!captureVars, Webcam!Idle, WebcamInv, WebcamTypes,
     Webcam!Devices
<1>15. ASSUME NEW t \in Tasks, Webcam!TaskSpawns(t) PROVE WebcamTypes'
  BY <1>15 DEF Webcam!TaskSpawns, Webcam!Goes, Webcam!taskKeeps, Webcam!savedVars,
     Webcam!uiVars, Webcam!captureVars, Webcam!Idle, WebcamInv, WebcamTypes,
     Webcam!Devices
<1>16. ASSUME NEW t \in Tasks, Webcam!TaskLearns(t) PROVE WebcamTypes'
  BY <1>16 DEF Webcam!TaskLearns, Webcam!Goes, Webcam!taskKeeps, Webcam!savedVars,
     Webcam!uiVars, Webcam!captureVars, Webcam!Idle, WebcamInv, WebcamTypes,
     Webcam!Devices
<1>17. ASSUME NEW t \in Tasks, Webcam!TaskFails(t) PROVE WebcamTypes'
  BY <1>17 DEF Webcam!TaskFails, Webcam!Goes, Webcam!taskKeeps, Webcam!savedVars,
     Webcam!uiVars, Webcam!captureVars, Webcam!Idle, WebcamInv, WebcamTypes,
     Webcam!Devices
<1>18. ASSUME Webcam!WorkerRuns PROVE WebcamTypes'
  BY <1>18 DEF Webcam!WorkerRuns, Webcam!workerKeeps, Webcam!savedVars,
     Webcam!uiVars, Webcam!ghostVars, WebcamInv, WebcamTypes, Webcam!Devices
<1>19. ASSUME Webcam!WorkerFails PROVE WebcamTypes'
  BY <1>19 DEF Webcam!WorkerFails, Webcam!workerKeeps, Webcam!savedVars,
     Webcam!uiVars, Webcam!ghostVars, WebcamInv, WebcamTypes, Webcam!Devices
<1>20. ASSUME Webcam!WorkerCaptures PROVE WebcamTypes'
  BY <1>20 DEF Webcam!WorkerCaptures, Webcam!workerKeeps, Webcam!savedVars,
     Webcam!uiVars, Webcam!ghostVars, WebcamInv, WebcamTypes, Webcam!Devices
<1>21. ASSUME Webcam!WorkerBreaks PROVE WebcamTypes'
  BY <1>21 DEF Webcam!WorkerBreaks, Webcam!workerKeeps, Webcam!savedVars,
     Webcam!uiVars, Webcam!ghostVars, WebcamInv, WebcamTypes, Webcam!Devices
<1>22. ASSUME Webcam!WorkerEnds PROVE WebcamTypes'
  BY <1>22 DEF Webcam!WorkerEnds, Webcam!workerKeeps, Webcam!savedVars,
     Webcam!uiVars, Webcam!ghostVars, WebcamInv, WebcamTypes, Webcam!Devices
<1>23. CASE UNCHANGED webcamV
  BY <1>23 DEF webcamV, WebcamInv, WebcamTypes, Webcam!Devices
<1> QED
  BY <1>1, <1>2, <1>3, <1>4, <1>5, <1>6, <1>7, <1>8, <1>9, <1>10, <1>11, <1>12,
     <1>13, <1>14, <1>15, <1>16, <1>17, <1>18, <1>19, <1>20, <1>21, <1>22, <1>23
    DEF Webcam!Next, Webcam!TaskStep

\* Those of the threads.
LEMMA TaskTypesKept ==
    ASSUME WebcamInv, Webcam!Next \/ UNCHANGED webcamV
    PROVE  TaskTypes'
<1> USE NobodyAssumption
<1>1. ASSUME Webcam!Launch PROVE TaskTypes'
  <2>1. /\ app = "down" \/ app = "aborted"
        /\ \A t \in Tasks : task[t] = Webcam!Idle
    BY <1>1 DEF Webcam!Launch, Webcam!FreshProcess, WebcamInv, Saved
  <2>2. CASE UNCHANGED task
    <3>1. \A u \in Tasks : task'[u] = Webcam!Idle
      BY <2>1, <2>2
    <3>2. app' = "up" /\ savedOpen' = visible'
      <4>1. CASE savedOpen
        BY <4>1, <1>1 DEF Webcam!Launch, Webcam!FreshProcess, Webcam!Reopen,
           Webcam!savedVars, WebcamInv
      <4>2. CASE ~savedOpen
        BY <4>2, <1>1 DEF Webcam!Launch, Webcam!FreshProcess, Webcam!Reopen,
           Webcam!savedVars, WebcamInv, WebcamFlags
      <4> QED
        BY <4>1, <4>2
    <3> QED
      BY <1>1, <2>1, <2>2, <3>1, <3>2
        DEF Webcam!Launch, Webcam!FreshProcess, Webcam!Reopen, Webcam!savedVars,
           WebcamInv, TaskTypes, Webcam!Idle
  <2>3. CASE Webcam!Reopen
    <3>1. PICK t \in Tasks : task' = [task EXCEPT ![t].at = "start"]
      BY <2>3 DEF Webcam!Reopen
    <3>2. /\ TaskTypes' /\ Others(t)
          /\ task'[t].at = "start" /\ task'[t].starts = task[t].starts
          /\ task'[t].closes = task[t].closes
      BY <3>1, Moved DEF Steps, WebcamInv
    <3>3. task[t].starts = FALSE /\ task[t].closes = FALSE
      BY <2>1 DEF Webcam!Idle
    <3>4. /\ TaskTypes' /\ Others(t)
          /\ task'[t].at = "start" /\ task'[t].starts = FALSE
          /\ task'[t].closes = FALSE
      BY <3>2, <3>3
    <3>5. savedOpen
      BY <2>3, <1>1 DEF Webcam!Launch, Webcam!Reopen, WebcamInv
    <3> QED
      BY <1>1, <2>1, <2>3, <3>1, <3>4, <3>5
        DEF Webcam!Launch, Webcam!FreshProcess, Webcam!Reopen, Webcam!savedVars,
           WebcamInv, Others, Webcam!Idle
  <2> QED
    BY <1>1, <2>2, <2>3 DEF Webcam!Launch
<1>2. ASSUME Webcam!OpenDrawer PROVE TaskTypes'
  <2>1. CASE (manual \/ capturing) /\ Webcam!NoThread
    <3>1. task' = task /\ (~spoiled' =>
              ~spoiled /\ \A u \in Tasks : task[u].at = "none")
      BY <2>1 DEF Webcam!NoThread, Webcam!Busy
    <3>2. Alone' => Alone
      BY <1>2, <3>1 DEF Alone, Webcam!OpenDrawer, Webcam!CanClick
    <3> QED
      BY <1>2, <2>1, <3>1, <3>2
        DEF Webcam!OpenDrawer, Webcam!CanClick, Webcam!NoThread, Webcam!Busy,
           Webcam!clickKeeps, Webcam!captureVars, WebcamInv, TaskTypes, Webcam!Idle
  <2>2. CASE Webcam!Begins("start", FALSE, FALSE)
    <3>1. TaskTypes /\ "start" \in Steps /\ FALSE \in BOOLEAN /\ FALSE \in BOOLEAN
      BY DEF Steps, WebcamInv
    <3>2. PICK t \in Tasks :
              /\ task[t].at = "none"
              /\ Others(t)
              /\ task'[t] = [at |-> "start", closes |-> FALSE, starts |-> FALSE]
      BY <2>2, Begun DEF Steps, WebcamInv
    <3>3. TaskTypes' /\ spoiled' = (spoiled \/ Webcam!Busy)
      BY <2>2, Begun DEF Steps, WebcamInv
    <3>4. ~spoiled' => ~spoiled /\ \A u \in Tasks : task[u].at = "none"
      BY <3>3 DEF Webcam!Busy
    <3>5. Alone' =>
              Alone /\ camera \notin {"init", "failed"} /\ (camera = "run" => capturing)
      BY <1>2, <3>4 DEF Alone, Webcam!OpenDrawer, Webcam!CanClick, WebcamInv,
         CameraTasks, At
    <3> QED
      BY <1>2, <2>2, <3>2, <3>3, <3>4, <3>5
        DEF Webcam!OpenDrawer, Webcam!CanClick, Webcam!NoThread, Webcam!Busy,
           Webcam!clickKeeps, Webcam!captureVars, WebcamInv, Others, Webcam!Idle
  <2> QED
    BY <1>2, <2>1, <2>2 DEF Webcam!OpenDrawer, Webcam!NoThread
<1>3. ASSUME Webcam!CloseDrawer PROVE TaskTypes'
  <2>1. CASE ~capturing /\ Webcam!NoThread
    <3>1. task' = task /\ (~spoiled' =>
              ~spoiled /\ \A u \in Tasks : task[u].at = "none")
      BY <2>1 DEF Webcam!NoThread, Webcam!Busy
    <3>2. Alone' => Alone
      BY <1>3, <3>1 DEF Alone, Webcam!CloseDrawer, Webcam!CanClick
    <3> QED
      BY <1>3, <2>1, <3>1, <3>2
        DEF Webcam!CloseDrawer, Webcam!CanClick, Webcam!NoThread, Webcam!Busy,
           Webcam!clickKeeps, Webcam!captureVars, WebcamInv, TaskTypes, Webcam!Idle
  <2>2. CASE Webcam!Begins("stop", TRUE, FALSE)
    <3>1. TaskTypes /\ "stop" \in Steps /\ TRUE \in BOOLEAN /\ FALSE \in BOOLEAN
      BY DEF Steps, WebcamInv
    <3>2. PICK t \in Tasks :
              /\ task[t].at = "none"
              /\ Others(t)
              /\ task'[t] = [at |-> "stop", closes |-> TRUE, starts |-> FALSE]
      BY <2>2, Begun DEF Steps, WebcamInv
    <3>3. TaskTypes' /\ spoiled' = (spoiled \/ Webcam!Busy)
      BY <2>2, Begun DEF Steps, WebcamInv
    <3>4. ~spoiled' => ~spoiled /\ \A u \in Tasks : task[u].at = "none"
      BY <3>3 DEF Webcam!Busy
    <3>5. Alone' =>
              Alone /\ camera \notin {"init", "failed"} /\ (camera = "run" => capturing)
      BY <1>3, <3>4 DEF Alone, Webcam!CloseDrawer, Webcam!CanClick, WebcamInv,
         CameraTasks, At
    <3> QED
      BY <1>3, <2>2, <3>2, <3>3, <3>4, <3>5
        DEF Webcam!CloseDrawer, Webcam!CanClick, Webcam!NoThread, Webcam!Busy,
           Webcam!clickKeeps, Webcam!captureVars, WebcamInv, Others, Webcam!Idle
  <2> QED
    BY <1>3, <2>1, <2>2 DEF Webcam!CloseDrawer, Webcam!NoThread
<1>4. ASSUME Webcam!PollTakes PROVE TaskTypes'
  BY <1>4 DEF Webcam!PollTakes, Webcam!CanClick, Webcam!pollKeeps, Webcam!savedVars,
     Webcam!uiVars, WebcamInv, TaskTypes, Webcam!Idle
<1>5. ASSUME Webcam!PollClears PROVE TaskTypes'
  BY <1>5 DEF Webcam!PollClears, Webcam!pollKeeps, Webcam!savedVars, Webcam!uiVars,
     WebcamInv, TaskTypes, Webcam!Idle
<1>6. ASSUME Webcam!Exit PROVE TaskTypes'
  BY <1>6 DEF Webcam!Exit, Webcam!CanClick, Webcam!exitKeeps, Webcam!savedVars,
     Webcam!uiVars, WebcamInv, TaskTypes, Webcam!Idle
<1>7. ASSUME Webcam!Exited PROVE TaskTypes'
  BY <1>7 DEF Webcam!Exited, Webcam!exitKeeps, Webcam!savedVars, Webcam!uiVars,
     Webcam!Idle, WebcamInv, TaskTypes, Webcam!Idle
<1>8. ASSUME Webcam!Crash PROVE TaskTypes'
  BY <1>8 DEF Webcam!Crash, Webcam!exitKeeps, Webcam!savedVars, Webcam!uiVars,
     Webcam!Idle, WebcamInv, TaskTypes, Webcam!Idle
<1>9. ASSUME NEW d \in Cameras, Webcam!PickCamera(d) PROVE TaskTypes'
  <2>1. CASE UNCHANGED task
    BY <1>9, <2>1 DEF Webcam!PickCamera, Webcam!CanClick, Webcam!NoThread,
       Webcam!Busy, Webcam!clickKeeps, Webcam!captureVars, Webcam!Begins, WebcamInv,
       TaskTypes, Webcam!Idle
  <2>2. CASE capturing /\ Webcam!Begins("stop", FALSE, visible)
    <3>1. TaskTypes /\ "stop" \in Steps /\ FALSE \in BOOLEAN /\ visible \in BOOLEAN
      BY DEF Steps, WebcamInv, WebcamFlags
    <3>2. PICK t \in Tasks :
              /\ task[t].at = "none"
              /\ Others(t)
              /\ task'[t] = [at |-> "stop", closes |-> FALSE, starts |-> visible]
      BY <2>2, <3>1, Begun, Zenon
    <3>3. TaskTypes' /\ spoiled' = (spoiled \/ Webcam!Busy)
      BY <2>2, <3>1, Begun, Zenon
    <3>4. ~spoiled' => ~spoiled /\ \A u \in Tasks : task[u].at = "none"
      BY <3>3 DEF Webcam!Busy
    <3> QED
      BY <1>9, <2>2, <3>2, <3>3, <3>4
        DEF Webcam!PickCamera, Webcam!CanClick, Webcam!NoThread, Webcam!Busy,
           Webcam!clickKeeps, Webcam!captureVars, WebcamInv, Others, Webcam!Idle
  <2>3. CASE ~capturing /\ visible /\ Webcam!Begins("mark", FALSE, TRUE)
    <3>1. TaskTypes /\ "mark" \in Steps /\ FALSE \in BOOLEAN /\ TRUE \in BOOLEAN
      BY DEF Steps, WebcamInv
    <3>2. PICK t \in Tasks :
              /\ task[t].at = "none"
              /\ Others(t)
              /\ task'[t] = [at |-> "mark", closes |-> FALSE, starts |-> TRUE]
      BY <2>3, <3>1, Begun, Zenon
    <3>3. TaskTypes' /\ spoiled' = (spoiled \/ Webcam!Busy)
      BY <2>3, <3>1, Begun, Zenon
    <3>4. ~spoiled' => ~spoiled /\ \A u \in Tasks : task[u].at = "none"
      BY <3>3 DEF Webcam!Busy
    <3> QED
      BY <1>9, <2>3, <3>2, <3>3, <3>4
        DEF Webcam!PickCamera, Webcam!CanClick, Webcam!NoThread, Webcam!Busy,
           Webcam!clickKeeps, Webcam!captureVars, WebcamInv, Others, Webcam!Idle
  <2> QED
    BY <1>9, <2>1, <2>2, <2>3 DEF Webcam!PickCamera, Webcam!NoThread
<1>10. ASSUME NEW t \in Tasks, Webcam!TaskStops(t) PROVE TaskTypes'
  BY <1>10 DEF Webcam!TaskStops, Webcam!Goes, Webcam!taskKeeps, Webcam!savedVars,
     Webcam!uiVars, Webcam!captureVars, Webcam!Idle, WebcamInv, TaskTypes,
     Webcam!Idle
<1>11. ASSUME NEW t \in Tasks, Webcam!TaskJoins(t) PROVE TaskTypes'
  BY <1>11 DEF Webcam!TaskJoins, Webcam!Goes, Webcam!taskKeeps, Webcam!savedVars,
     Webcam!uiVars, Webcam!captureVars, Webcam!Idle, WebcamInv, TaskTypes,
     Webcam!Idle
<1>12. ASSUME NEW t \in Tasks, Webcam!TaskClears(t) PROVE TaskTypes'
  BY <1>12 DEF Webcam!TaskClears, Webcam!Goes, Webcam!taskKeeps, Webcam!savedVars,
     Webcam!uiVars, Webcam!captureVars, Webcam!Idle, WebcamInv, TaskTypes,
     Webcam!Idle
<1>13. ASSUME NEW t \in Tasks, Webcam!TaskMarks(t) PROVE TaskTypes'
  BY <1>13 DEF Webcam!TaskMarks, Webcam!Goes, Webcam!taskKeeps, Webcam!savedVars,
     Webcam!uiVars, Webcam!captureVars, Webcam!Idle, WebcamInv, TaskTypes,
     Webcam!Idle
<1>14. ASSUME NEW t \in Tasks, Webcam!TaskStarts(t) PROVE TaskTypes'
  BY <1>14 DEF Webcam!TaskStarts, Webcam!Goes, Webcam!taskKeeps, Webcam!savedVars,
     Webcam!uiVars, Webcam!captureVars, Webcam!Idle, WebcamInv, TaskTypes,
     Webcam!Idle
<1>15. ASSUME NEW t \in Tasks, Webcam!TaskSpawns(t) PROVE TaskTypes'
  <2>1. CASE camera = "none"
    <3>1. /\ TaskTypes' /\ Others(t)
          /\ task'[t].at = "wait" /\ task'[t].starts = task[t].starts
          /\ task'[t].closes = task[t].closes
      BY <1>15, <2>1, Moved DEF Steps, WebcamInv, Webcam!TaskSpawns, Webcam!Goes
    <3> QED
      BY <1>15, <2>1, <3>1
        DEF Webcam!TaskSpawns, Webcam!Goes, Webcam!taskKeeps, Webcam!savedVars,
           Webcam!uiVars, Webcam!captureVars, Webcam!Idle, WebcamInv, Others,
           Webcam!Idle
  <2>2. CASE camera # "none"
    <3>1. /\ app' = "aborted" /\ task' = [u \in Tasks |-> Webcam!Idle]
          /\ UNCHANGED <<camera, shown>>
      BY <1>15, <2>2 DEF Webcam!TaskSpawns
    <3> QED
      BY <1>15, <3>1 DEF Webcam!TaskSpawns, Webcam!Goes, Webcam!taskKeeps,
         Webcam!savedVars, Webcam!uiVars, Webcam!captureVars, Webcam!Idle,
         WebcamInv, TaskTypes, Webcam!Idle
  <2> QED
    BY <2>1, <2>2
<1>16. ASSUME NEW t \in Tasks, Webcam!TaskLearns(t) PROVE TaskTypes'
  BY <1>16 DEF Webcam!TaskLearns, Webcam!Goes, Webcam!taskKeeps, Webcam!savedVars,
     Webcam!uiVars, Webcam!captureVars, Webcam!Idle, WebcamInv, TaskTypes,
     Webcam!Idle
<1>17. ASSUME NEW t \in Tasks, Webcam!TaskFails(t) PROVE TaskTypes'
  BY <1>17 DEF Webcam!TaskFails, Webcam!Goes, Webcam!taskKeeps, Webcam!savedVars,
     Webcam!uiVars, Webcam!captureVars, Webcam!Idle, WebcamInv, TaskTypes,
     Webcam!Idle
<1>18. ASSUME Webcam!WorkerRuns PROVE TaskTypes'
  BY <1>18 DEF Webcam!WorkerRuns, Webcam!workerKeeps, Webcam!savedVars,
     Webcam!uiVars, Webcam!ghostVars, WebcamInv, TaskTypes, Webcam!Idle
<1>19. ASSUME Webcam!WorkerFails PROVE TaskTypes'
  BY <1>19 DEF Webcam!WorkerFails, Webcam!workerKeeps, Webcam!savedVars,
     Webcam!uiVars, Webcam!ghostVars, WebcamInv, TaskTypes, Webcam!Idle
<1>20. ASSUME Webcam!WorkerCaptures PROVE TaskTypes'
  BY <1>20 DEF Webcam!WorkerCaptures, Webcam!workerKeeps, Webcam!savedVars,
     Webcam!uiVars, Webcam!ghostVars, WebcamInv, TaskTypes, Webcam!Idle
<1>21. ASSUME Webcam!WorkerBreaks PROVE TaskTypes'
  BY <1>21 DEF Webcam!WorkerBreaks, Webcam!workerKeeps, Webcam!savedVars,
     Webcam!uiVars, Webcam!ghostVars, WebcamInv, TaskTypes, Webcam!Idle
<1>22. ASSUME Webcam!WorkerEnds PROVE TaskTypes'
  BY <1>22 DEF Webcam!WorkerEnds, Webcam!workerKeeps, Webcam!savedVars,
     Webcam!uiVars, Webcam!ghostVars, WebcamInv, TaskTypes, Webcam!Idle
<1>23. CASE UNCHANGED webcamV
  BY <1>23 DEF webcamV, WebcamInv, TaskTypes, Webcam!Idle
<1> QED
  BY <1>1, <1>2, <1>3, <1>4, <1>5, <1>6, <1>7, <1>8, <1>9, <1>10, <1>11, <1>12,
     <1>13, <1>14, <1>15, <1>16, <1>17, <1>18, <1>19, <1>20, <1>21, <1>22, <1>23
    DEF Webcam!Next, Webcam!TaskStep

\* Those of the flags.
LEMMA WebcamFlagsKept ==
    ASSUME WebcamInv, Webcam!Next \/ UNCHANGED webcamV
    PROVE  WebcamFlags'
<1> USE NobodyAssumption
<1>1. ASSUME Webcam!Launch PROVE WebcamFlags'
  BY <1>1 DEF Webcam!Launch, Webcam!FreshProcess, Webcam!Reopen, Webcam!savedVars,
     WebcamInv, WebcamFlags
<1>2. ASSUME Webcam!OpenDrawer PROVE WebcamFlags'
  BY <1>2 DEF Webcam!OpenDrawer, Webcam!CanClick, Webcam!Begins, Webcam!NoThread,
     Webcam!Busy, Webcam!clickKeeps, Webcam!captureVars, WebcamInv, WebcamFlags
<1>3. ASSUME Webcam!CloseDrawer PROVE WebcamFlags'
  BY <1>3 DEF Webcam!CloseDrawer, Webcam!CanClick, Webcam!Begins, Webcam!NoThread,
     Webcam!Busy, Webcam!clickKeeps, Webcam!captureVars, WebcamInv, WebcamFlags
<1>4. ASSUME Webcam!PollTakes PROVE WebcamFlags'
  BY <1>4 DEF Webcam!PollTakes, Webcam!CanClick, Webcam!pollKeeps, Webcam!savedVars,
     Webcam!uiVars, WebcamInv, WebcamFlags
<1>5. ASSUME Webcam!PollClears PROVE WebcamFlags'
  BY <1>5 DEF Webcam!PollClears, Webcam!pollKeeps, Webcam!savedVars, Webcam!uiVars,
     WebcamInv, WebcamFlags
<1>6. ASSUME Webcam!Exit PROVE WebcamFlags'
  BY <1>6 DEF Webcam!Exit, Webcam!CanClick, Webcam!exitKeeps, Webcam!savedVars,
     Webcam!uiVars, WebcamInv, WebcamFlags
<1>7. ASSUME Webcam!Exited PROVE WebcamFlags'
  BY <1>7 DEF Webcam!Exited, Webcam!exitKeeps, Webcam!savedVars, Webcam!uiVars,
     Webcam!Idle, WebcamInv, WebcamFlags
<1>8. ASSUME Webcam!Crash PROVE WebcamFlags'
  BY <1>8 DEF Webcam!Crash, Webcam!exitKeeps, Webcam!savedVars, Webcam!uiVars,
     Webcam!Idle, WebcamInv, WebcamFlags
<1>9. ASSUME NEW d \in Cameras, Webcam!PickCamera(d) PROVE WebcamFlags'
  BY <1>9 DEF Webcam!PickCamera, Webcam!CanClick, Webcam!Begins, Webcam!NoThread,
     Webcam!Busy, Webcam!clickKeeps, Webcam!captureVars, WebcamInv, WebcamFlags
<1>10. ASSUME NEW t \in Tasks, Webcam!TaskStops(t) PROVE WebcamFlags'
  BY <1>10 DEF Webcam!TaskStops, Webcam!Goes, Webcam!taskKeeps, Webcam!savedVars,
     Webcam!uiVars, Webcam!captureVars, Webcam!Idle, WebcamInv, WebcamFlags
<1>11. ASSUME NEW t \in Tasks, Webcam!TaskJoins(t) PROVE WebcamFlags'
  BY <1>11 DEF Webcam!TaskJoins, Webcam!Goes, Webcam!taskKeeps, Webcam!savedVars,
     Webcam!uiVars, Webcam!captureVars, Webcam!Idle, WebcamInv, WebcamFlags
<1>12. ASSUME NEW t \in Tasks, Webcam!TaskClears(t) PROVE WebcamFlags'
  BY <1>12 DEF Webcam!TaskClears, Webcam!Goes, Webcam!taskKeeps, Webcam!savedVars,
     Webcam!uiVars, Webcam!captureVars, Webcam!Idle, WebcamInv, WebcamFlags
<1>13. ASSUME NEW t \in Tasks, Webcam!TaskMarks(t) PROVE WebcamFlags'
  BY <1>13 DEF Webcam!TaskMarks, Webcam!Goes, Webcam!taskKeeps, Webcam!savedVars,
     Webcam!uiVars, Webcam!captureVars, Webcam!Idle, WebcamInv, WebcamFlags
<1>14. ASSUME NEW t \in Tasks, Webcam!TaskStarts(t) PROVE WebcamFlags'
  BY <1>14 DEF Webcam!TaskStarts, Webcam!Goes, Webcam!taskKeeps, Webcam!savedVars,
     Webcam!uiVars, Webcam!captureVars, Webcam!Idle, WebcamInv, WebcamFlags
<1>15. ASSUME NEW t \in Tasks, Webcam!TaskSpawns(t) PROVE WebcamFlags'
  BY <1>15 DEF Webcam!TaskSpawns, Webcam!Goes, Webcam!taskKeeps, Webcam!savedVars,
     Webcam!uiVars, Webcam!captureVars, Webcam!Idle, WebcamInv, WebcamFlags
<1>16. ASSUME NEW t \in Tasks, Webcam!TaskLearns(t) PROVE WebcamFlags'
  BY <1>16 DEF Webcam!TaskLearns, Webcam!Goes, Webcam!taskKeeps, Webcam!savedVars,
     Webcam!uiVars, Webcam!captureVars, Webcam!Idle, WebcamInv, WebcamFlags
<1>17. ASSUME NEW t \in Tasks, Webcam!TaskFails(t) PROVE WebcamFlags'
  BY <1>17 DEF Webcam!TaskFails, Webcam!Goes, Webcam!taskKeeps, Webcam!savedVars,
     Webcam!uiVars, Webcam!captureVars, Webcam!Idle, WebcamInv, WebcamFlags
<1>18. ASSUME Webcam!WorkerRuns PROVE WebcamFlags'
  BY <1>18 DEF Webcam!WorkerRuns, Webcam!workerKeeps, Webcam!savedVars,
     Webcam!uiVars, Webcam!ghostVars, WebcamInv, WebcamFlags
<1>19. ASSUME Webcam!WorkerFails PROVE WebcamFlags'
  BY <1>19 DEF Webcam!WorkerFails, Webcam!workerKeeps, Webcam!savedVars,
     Webcam!uiVars, Webcam!ghostVars, WebcamInv, WebcamFlags
<1>20. ASSUME Webcam!WorkerCaptures PROVE WebcamFlags'
  BY <1>20 DEF Webcam!WorkerCaptures, Webcam!workerKeeps, Webcam!savedVars,
     Webcam!uiVars, Webcam!ghostVars, WebcamInv, WebcamFlags
<1>21. ASSUME Webcam!WorkerBreaks PROVE WebcamFlags'
  BY <1>21 DEF Webcam!WorkerBreaks, Webcam!workerKeeps, Webcam!savedVars,
     Webcam!uiVars, Webcam!ghostVars, WebcamInv, WebcamFlags
<1>22. ASSUME Webcam!WorkerEnds PROVE WebcamFlags'
  BY <1>22 DEF Webcam!WorkerEnds, Webcam!workerKeeps, Webcam!savedVars,
     Webcam!uiVars, Webcam!ghostVars, WebcamInv, WebcamFlags
<1>23. CASE UNCHANGED webcamV
  BY <1>23 DEF webcamV, WebcamInv, WebcamFlags
<1> QED
  BY <1>1, <1>2, <1>3, <1>4, <1>5, <1>6, <1>7, <1>8, <1>9, <1>10, <1>11, <1>12,
     <1>13, <1>14, <1>15, <1>16, <1>17, <1>18, <1>19, <1>20, <1>21, <1>22, <1>23
    DEF Webcam!Next, Webcam!TaskStep

\* What is saved, and what a crash leaves.
LEMMA SavedKept ==
    ASSUME WebcamInv, Webcam!Next \/ UNCHANGED webcamV
    PROVE  Saved'
<1> USE NobodyAssumption
<1>1. ASSUME Webcam!Launch PROVE Saved'
  <2>1. /\ app = "down" \/ app = "aborted"
        /\ \A t \in Tasks : task[t] = Webcam!Idle
    BY <1>1 DEF Webcam!Launch, Webcam!FreshProcess, WebcamInv, Saved
  <2>2. CASE UNCHANGED task
    <3>1. \A u \in Tasks : task'[u] = Webcam!Idle
      BY <2>1, <2>2
    <3>2. app' = "up" /\ savedOpen' = visible'
      <4>1. CASE savedOpen
        BY <4>1, <1>1 DEF Webcam!Launch, Webcam!FreshProcess, Webcam!Reopen,
           Webcam!savedVars, WebcamInv
      <4>2. CASE ~savedOpen
        BY <4>2, <1>1 DEF Webcam!Launch, Webcam!FreshProcess, Webcam!Reopen,
           Webcam!savedVars, WebcamInv, WebcamFlags
      <4> QED
        BY <4>1, <4>2
    <3> QED
      BY <1>1, <2>1, <2>2, <3>1, <3>2
        DEF Webcam!Launch, Webcam!FreshProcess, Webcam!Reopen, Webcam!savedVars,
           WebcamInv, Saved, Alone, Webcam!Idle
  <2>3. CASE Webcam!Reopen
    <3>1. PICK t \in Tasks : task' = [task EXCEPT ![t].at = "start"]
      BY <2>3 DEF Webcam!Reopen
    <3>2. /\ TaskTypes' /\ Others(t)
          /\ task'[t].at = "start" /\ task'[t].starts = task[t].starts
          /\ task'[t].closes = task[t].closes
      BY <3>1, Moved DEF Steps, WebcamInv
    <3>3. task[t].starts = FALSE /\ task[t].closes = FALSE
      BY <2>1 DEF Webcam!Idle
    <3>4. /\ TaskTypes' /\ Others(t)
          /\ task'[t].at = "start" /\ task'[t].starts = FALSE
          /\ task'[t].closes = FALSE
      BY <3>2, <3>3
    <3>5. savedOpen
      BY <2>3, <1>1 DEF Webcam!Launch, Webcam!Reopen, WebcamInv
    <3> QED
      BY <1>1, <2>1, <2>3, <3>1, <3>4, <3>5
        DEF Webcam!Launch, Webcam!FreshProcess, Webcam!Reopen, Webcam!savedVars,
           WebcamInv, Others, Saved, Alone, Webcam!Idle
  <2> QED
    BY <1>1, <2>2, <2>3 DEF Webcam!Launch
<1>2. ASSUME Webcam!OpenDrawer PROVE Saved'
  <2>1. CASE (manual \/ capturing) /\ Webcam!NoThread
    <3>1. task' = task /\ (~spoiled' =>
              ~spoiled /\ \A u \in Tasks : task[u].at = "none")
      BY <2>1 DEF Webcam!NoThread, Webcam!Busy
    <3>2. Alone' => Alone
      BY <1>2, <3>1 DEF Alone, Webcam!OpenDrawer, Webcam!CanClick
    <3> QED
      BY <1>2, <2>1, <3>1, <3>2
        DEF Webcam!OpenDrawer, Webcam!CanClick, Webcam!NoThread, Webcam!Busy,
           Webcam!clickKeeps, Webcam!captureVars, WebcamInv, Saved, Alone,
           Webcam!Idle
  <2>2. CASE Webcam!Begins("start", FALSE, FALSE)
    <3>1. TaskTypes /\ "start" \in Steps /\ FALSE \in BOOLEAN /\ FALSE \in BOOLEAN
      BY DEF Steps, WebcamInv
    <3>2. PICK t \in Tasks :
              /\ task[t].at = "none"
              /\ Others(t)
              /\ task'[t] = [at |-> "start", closes |-> FALSE, starts |-> FALSE]
      BY <2>2, Begun DEF Steps, WebcamInv
    <3>3. TaskTypes' /\ spoiled' = (spoiled \/ Webcam!Busy)
      BY <2>2, Begun DEF Steps, WebcamInv
    <3>4. ~spoiled' => ~spoiled /\ \A u \in Tasks : task[u].at = "none"
      BY <3>3 DEF Webcam!Busy
    <3>5. Alone' =>
              Alone /\ camera \notin {"init", "failed"} /\ (camera = "run" => capturing)
      BY <1>2, <3>4 DEF Alone, Webcam!OpenDrawer, Webcam!CanClick, WebcamInv,
         CameraTasks, At
    <3> QED
      BY <1>2, <2>2, <3>2, <3>3, <3>4, <3>5
        DEF Webcam!OpenDrawer, Webcam!CanClick, Webcam!NoThread, Webcam!Busy,
           Webcam!clickKeeps, Webcam!captureVars, WebcamInv, Others, Saved, Alone,
           Webcam!Idle
  <2> QED
    BY <1>2, <2>1, <2>2 DEF Webcam!OpenDrawer, Webcam!NoThread
<1>3. ASSUME Webcam!CloseDrawer PROVE Saved'
  <2>1. CASE ~capturing /\ Webcam!NoThread
    <3>1. task' = task /\ (~spoiled' =>
              ~spoiled /\ \A u \in Tasks : task[u].at = "none")
      BY <2>1 DEF Webcam!NoThread, Webcam!Busy
    <3>2. Alone' => Alone
      BY <1>3, <3>1 DEF Alone, Webcam!CloseDrawer, Webcam!CanClick
    <3> QED
      BY <1>3, <2>1, <3>1, <3>2
        DEF Webcam!CloseDrawer, Webcam!CanClick, Webcam!NoThread, Webcam!Busy,
           Webcam!clickKeeps, Webcam!captureVars, WebcamInv, Saved, Alone,
           Webcam!Idle
  <2>2. CASE Webcam!Begins("stop", TRUE, FALSE)
    <3>1. TaskTypes /\ "stop" \in Steps /\ TRUE \in BOOLEAN /\ FALSE \in BOOLEAN
      BY DEF Steps, WebcamInv
    <3>2. PICK t \in Tasks :
              /\ task[t].at = "none"
              /\ Others(t)
              /\ task'[t] = [at |-> "stop", closes |-> TRUE, starts |-> FALSE]
      BY <2>2, Begun DEF Steps, WebcamInv
    <3>3. TaskTypes' /\ spoiled' = (spoiled \/ Webcam!Busy)
      BY <2>2, Begun DEF Steps, WebcamInv
    <3>4. ~spoiled' => ~spoiled /\ \A u \in Tasks : task[u].at = "none"
      BY <3>3 DEF Webcam!Busy
    <3>5. Alone' =>
              Alone /\ camera \notin {"init", "failed"} /\ (camera = "run" => capturing)
      BY <1>3, <3>4 DEF Alone, Webcam!CloseDrawer, Webcam!CanClick, WebcamInv,
         CameraTasks, At
    <3> QED
      BY <1>3, <2>2, <3>2, <3>3, <3>4, <3>5
        DEF Webcam!CloseDrawer, Webcam!CanClick, Webcam!NoThread, Webcam!Busy,
           Webcam!clickKeeps, Webcam!captureVars, WebcamInv, Others, Saved, Alone,
           Webcam!Idle
  <2> QED
    BY <1>3, <2>1, <2>2 DEF Webcam!CloseDrawer, Webcam!NoThread
<1>4. ASSUME Webcam!PollTakes PROVE Saved'
  BY <1>4 DEF Webcam!PollTakes, Webcam!CanClick, Webcam!pollKeeps, Webcam!savedVars,
     Webcam!uiVars, WebcamInv, Saved, Alone, Webcam!Idle
<1>5. ASSUME Webcam!PollClears PROVE Saved'
  BY <1>5 DEF Webcam!PollClears, Webcam!pollKeeps, Webcam!savedVars, Webcam!uiVars,
     WebcamInv, Saved, Alone, Webcam!Idle
<1>6. ASSUME Webcam!Exit PROVE Saved'
  BY <1>6 DEF Webcam!Exit, Webcam!CanClick, Webcam!exitKeeps, Webcam!savedVars,
     Webcam!uiVars, WebcamInv, Saved, Alone, Webcam!Idle
<1>7. ASSUME Webcam!Exited PROVE Saved'
  BY <1>7 DEF Webcam!Exited, Webcam!exitKeeps, Webcam!savedVars, Webcam!uiVars,
     Webcam!Idle, WebcamInv, Saved, Alone, Webcam!Idle
<1>8. ASSUME Webcam!Crash PROVE Saved'
  BY <1>8 DEF Webcam!Crash, Webcam!exitKeeps, Webcam!savedVars, Webcam!uiVars,
     Webcam!Idle, WebcamInv, Saved, Alone, CameraPlaces, Webcam!Idle
<1>9. ASSUME NEW d \in Cameras, Webcam!PickCamera(d) PROVE Saved'
  <2>1. CASE UNCHANGED task
    BY <1>9, <2>1 DEF Webcam!PickCamera, Webcam!CanClick, Webcam!NoThread,
       Webcam!Busy, Webcam!clickKeeps, Webcam!captureVars, Webcam!Begins, WebcamInv,
       Saved, Alone, Webcam!Idle
  <2>2. CASE capturing /\ Webcam!Begins("stop", FALSE, visible)
    <3>1. TaskTypes /\ "stop" \in Steps /\ FALSE \in BOOLEAN /\ visible \in BOOLEAN
      BY DEF Steps, WebcamInv, WebcamFlags
    <3>2. PICK t \in Tasks :
              /\ task[t].at = "none"
              /\ Others(t)
              /\ task'[t] = [at |-> "stop", closes |-> FALSE, starts |-> visible]
      BY <2>2, <3>1, Begun, Zenon
    <3>3. TaskTypes' /\ spoiled' = (spoiled \/ Webcam!Busy)
      BY <2>2, <3>1, Begun, Zenon
    <3>4. ~spoiled' => ~spoiled /\ \A u \in Tasks : task[u].at = "none"
      BY <3>3 DEF Webcam!Busy
    <3> QED
      BY <1>9, <2>2, <3>2, <3>3, <3>4
        DEF Webcam!PickCamera, Webcam!CanClick, Webcam!NoThread, Webcam!Busy,
           Webcam!clickKeeps, Webcam!captureVars, WebcamInv, Others, Saved, Alone,
           Webcam!Idle
  <2>3. CASE ~capturing /\ visible /\ Webcam!Begins("mark", FALSE, TRUE)
    <3>1. TaskTypes /\ "mark" \in Steps /\ FALSE \in BOOLEAN /\ TRUE \in BOOLEAN
      BY DEF Steps, WebcamInv
    <3>2. PICK t \in Tasks :
              /\ task[t].at = "none"
              /\ Others(t)
              /\ task'[t] = [at |-> "mark", closes |-> FALSE, starts |-> TRUE]
      BY <2>3, <3>1, Begun, Zenon
    <3>3. TaskTypes' /\ spoiled' = (spoiled \/ Webcam!Busy)
      BY <2>3, <3>1, Begun, Zenon
    <3>4. ~spoiled' => ~spoiled /\ \A u \in Tasks : task[u].at = "none"
      BY <3>3 DEF Webcam!Busy
    <3> QED
      BY <1>9, <2>3, <3>2, <3>3, <3>4
        DEF Webcam!PickCamera, Webcam!CanClick, Webcam!NoThread, Webcam!Busy,
           Webcam!clickKeeps, Webcam!captureVars, WebcamInv, Others, Saved, Alone,
           Webcam!Idle
  <2> QED
    BY <1>9, <2>1, <2>2, <2>3 DEF Webcam!PickCamera, Webcam!NoThread
<1>10. ASSUME NEW t \in Tasks, Webcam!TaskStops(t) PROVE Saved'
  BY <1>10 DEF Webcam!TaskStops, Webcam!Goes, Webcam!taskKeeps, Webcam!savedVars,
     Webcam!uiVars, Webcam!captureVars, Webcam!Idle, WebcamInv, Saved, Alone,
     Webcam!Idle
<1>11. ASSUME NEW t \in Tasks, Webcam!TaskJoins(t) PROVE Saved'
  BY <1>11 DEF Webcam!TaskJoins, Webcam!Goes, Webcam!taskKeeps, Webcam!savedVars,
     Webcam!uiVars, Webcam!captureVars, Webcam!Idle, WebcamInv, Saved, Alone,
     Webcam!Idle
<1>12. ASSUME NEW t \in Tasks, Webcam!TaskClears(t) PROVE Saved'
  BY <1>12 DEF Webcam!TaskClears, Webcam!Goes, Webcam!taskKeeps, Webcam!savedVars,
     Webcam!uiVars, Webcam!captureVars, Webcam!Idle, WebcamInv, Saved, Alone,
     Webcam!Idle
<1>13. ASSUME NEW t \in Tasks, Webcam!TaskMarks(t) PROVE Saved'
  BY <1>13 DEF Webcam!TaskMarks, Webcam!Goes, Webcam!taskKeeps, Webcam!savedVars,
     Webcam!uiVars, Webcam!captureVars, Webcam!Idle, WebcamInv, Saved, Alone,
     Webcam!Idle
<1>14. ASSUME NEW t \in Tasks, Webcam!TaskStarts(t) PROVE Saved'
  BY <1>14 DEF Webcam!TaskStarts, Webcam!Goes, Webcam!taskKeeps, Webcam!savedVars,
     Webcam!uiVars, Webcam!captureVars, Webcam!Idle, WebcamInv, Saved, Alone,
     Webcam!Idle
<1>15. ASSUME NEW t \in Tasks, Webcam!TaskSpawns(t) PROVE Saved'
  <2>1. CASE camera = "none"
    <3>1. /\ TaskTypes' /\ Others(t)
          /\ task'[t].at = "wait" /\ task'[t].starts = task[t].starts
          /\ task'[t].closes = task[t].closes
      BY <1>15, <2>1, Moved DEF Steps, WebcamInv, Webcam!TaskSpawns, Webcam!Goes
    <3> QED
      BY <1>15, <2>1, <3>1
        DEF Webcam!TaskSpawns, Webcam!Goes, Webcam!taskKeeps, Webcam!savedVars,
           Webcam!uiVars, Webcam!captureVars, Webcam!Idle, WebcamInv, Others, Saved,
           Alone, Webcam!Idle
  <2>2. CASE camera # "none"
    <3>1. /\ app' = "aborted" /\ task' = [u \in Tasks |-> Webcam!Idle]
          /\ UNCHANGED <<camera, shown>>
      BY <1>15, <2>2 DEF Webcam!TaskSpawns
    <3> QED
      BY <1>15, <3>1 DEF Webcam!TaskSpawns, Webcam!Goes, Webcam!taskKeeps,
         Webcam!savedVars, Webcam!uiVars, Webcam!captureVars, Webcam!Idle,
         WebcamInv, Saved, Alone, Webcam!Idle
  <2> QED
    BY <2>1, <2>2
<1>16. ASSUME NEW t \in Tasks, Webcam!TaskLearns(t) PROVE Saved'
  BY <1>16 DEF Webcam!TaskLearns, Webcam!Goes, Webcam!taskKeeps, Webcam!savedVars,
     Webcam!uiVars, Webcam!captureVars, Webcam!Idle, WebcamInv, Saved, Alone,
     Webcam!Idle
<1>17. ASSUME NEW t \in Tasks, Webcam!TaskFails(t) PROVE Saved'
  BY <1>17 DEF Webcam!TaskFails, Webcam!Goes, Webcam!taskKeeps, Webcam!savedVars,
     Webcam!uiVars, Webcam!captureVars, Webcam!Idle, WebcamInv, Saved, Alone,
     Webcam!Idle
<1>18. ASSUME Webcam!WorkerRuns PROVE Saved'
  BY <1>18 DEF Webcam!WorkerRuns, Webcam!workerKeeps, Webcam!savedVars,
     Webcam!uiVars, Webcam!ghostVars, WebcamInv, Saved, Alone, Webcam!Idle
<1>19. ASSUME Webcam!WorkerFails PROVE Saved'
  BY <1>19 DEF Webcam!WorkerFails, Webcam!workerKeeps, Webcam!savedVars,
     Webcam!uiVars, Webcam!ghostVars, WebcamInv, Saved, Alone, Webcam!Idle
<1>20. ASSUME Webcam!WorkerCaptures PROVE Saved'
  BY <1>20 DEF Webcam!WorkerCaptures, Webcam!workerKeeps, Webcam!savedVars,
     Webcam!uiVars, Webcam!ghostVars, WebcamInv, Saved, Alone, Webcam!Idle
<1>21. ASSUME Webcam!WorkerBreaks PROVE Saved'
  BY <1>21 DEF Webcam!WorkerBreaks, Webcam!workerKeeps, Webcam!savedVars,
     Webcam!uiVars, Webcam!ghostVars, WebcamInv, Saved, Alone, Webcam!Idle
<1>22. ASSUME Webcam!WorkerEnds PROVE Saved'
  BY <1>22 DEF Webcam!WorkerEnds, Webcam!workerKeeps, Webcam!savedVars,
     Webcam!uiVars, Webcam!ghostVars, WebcamInv, Saved, Alone, Webcam!Idle
<1>23. CASE UNCHANGED webcamV
  BY <1>23 DEF webcamV, WebcamInv, Saved, Alone, Webcam!Idle
<1> QED
  BY <1>1, <1>2, <1>3, <1>4, <1>5, <1>6, <1>7, <1>8, <1>9, <1>10, <1>11, <1>12,
     <1>13, <1>14, <1>15, <1>16, <1>17, <1>18, <1>19, <1>20, <1>21, <1>22, <1>23
    DEF Webcam!Next, Webcam!TaskStep

\* A second thread begins only by spoiling.
LEMMA OneTaskKept ==
    ASSUME WebcamInv, Webcam!Next \/ UNCHANGED webcamV
    PROVE  OneTask'
<1> USE NobodyAssumption
<1>1. ASSUME Webcam!Launch PROVE OneTask'
  <2>1. /\ app = "down" \/ app = "aborted"
        /\ \A t \in Tasks : task[t] = Webcam!Idle
    BY <1>1 DEF Webcam!Launch, Webcam!FreshProcess, WebcamInv, Saved
  <2>2. CASE UNCHANGED task
    <3>1. \A u \in Tasks : task'[u] = Webcam!Idle
      BY <2>1, <2>2
    <3>2. app' = "up" /\ savedOpen' = visible'
      <4>1. CASE savedOpen
        BY <4>1, <1>1 DEF Webcam!Launch, Webcam!FreshProcess, Webcam!Reopen,
           Webcam!savedVars, WebcamInv
      <4>2. CASE ~savedOpen
        BY <4>2, <1>1 DEF Webcam!Launch, Webcam!FreshProcess, Webcam!Reopen,
           Webcam!savedVars, WebcamInv, WebcamFlags
      <4> QED
        BY <4>1, <4>2
    <3> QED
      BY <1>1, <2>1, <2>2, <3>1, <3>2
        DEF Webcam!Launch, Webcam!FreshProcess, Webcam!Reopen, Webcam!savedVars,
           WebcamInv, OneTask, Alone, Webcam!Idle
  <2>3. CASE Webcam!Reopen
    <3>1. PICK t \in Tasks : task' = [task EXCEPT ![t].at = "start"]
      BY <2>3 DEF Webcam!Reopen
    <3>2. /\ TaskTypes' /\ Others(t)
          /\ task'[t].at = "start" /\ task'[t].starts = task[t].starts
          /\ task'[t].closes = task[t].closes
      BY <3>1, Moved DEF Steps, WebcamInv
    <3>3. task[t].starts = FALSE /\ task[t].closes = FALSE
      BY <2>1 DEF Webcam!Idle
    <3>4. /\ TaskTypes' /\ Others(t)
          /\ task'[t].at = "start" /\ task'[t].starts = FALSE
          /\ task'[t].closes = FALSE
      BY <3>2, <3>3
    <3>5. savedOpen
      BY <2>3, <1>1 DEF Webcam!Launch, Webcam!Reopen, WebcamInv
    <3> QED
      BY <1>1, <2>1, <2>3, <3>1, <3>4, <3>5
        DEF Webcam!Launch, Webcam!FreshProcess, Webcam!Reopen, Webcam!savedVars,
           WebcamInv, Others, OneTask, Alone, Webcam!Idle
  <2> QED
    BY <1>1, <2>2, <2>3 DEF Webcam!Launch
<1>2. ASSUME Webcam!OpenDrawer PROVE OneTask'
  <2>1. CASE (manual \/ capturing) /\ Webcam!NoThread
    <3>1. task' = task /\ (~spoiled' =>
              ~spoiled /\ \A u \in Tasks : task[u].at = "none")
      BY <2>1 DEF Webcam!NoThread, Webcam!Busy
    <3>2. Alone' => Alone
      BY <1>2, <3>1 DEF Alone, Webcam!OpenDrawer, Webcam!CanClick
    <3> QED
      BY <1>2, <2>1, <3>1, <3>2
        DEF Webcam!OpenDrawer, Webcam!CanClick, Webcam!NoThread, Webcam!Busy,
           Webcam!clickKeeps, Webcam!captureVars, WebcamInv, OneTask, Alone,
           Webcam!Idle
  <2>2. CASE Webcam!Begins("start", FALSE, FALSE)
    <3>1. TaskTypes /\ "start" \in Steps /\ FALSE \in BOOLEAN /\ FALSE \in BOOLEAN
      BY DEF Steps, WebcamInv
    <3>2. PICK t \in Tasks :
              /\ task[t].at = "none"
              /\ Others(t)
              /\ task'[t] = [at |-> "start", closes |-> FALSE, starts |-> FALSE]
      BY <2>2, Begun DEF Steps, WebcamInv
    <3>3. TaskTypes' /\ spoiled' = (spoiled \/ Webcam!Busy)
      BY <2>2, Begun DEF Steps, WebcamInv
    <3>4. ~spoiled' => ~spoiled /\ \A u \in Tasks : task[u].at = "none"
      BY <3>3 DEF Webcam!Busy
    <3>5. Alone' =>
              Alone /\ camera \notin {"init", "failed"} /\ (camera = "run" => capturing)
      BY <1>2, <3>4 DEF Alone, Webcam!OpenDrawer, Webcam!CanClick, WebcamInv,
         CameraTasks, At
    <3> QED
      BY <1>2, <2>2, <3>2, <3>3, <3>4, <3>5
        DEF Webcam!OpenDrawer, Webcam!CanClick, Webcam!NoThread, Webcam!Busy,
           Webcam!clickKeeps, Webcam!captureVars, WebcamInv, Others, OneTask, Alone,
           Webcam!Idle
  <2> QED
    BY <1>2, <2>1, <2>2 DEF Webcam!OpenDrawer, Webcam!NoThread
<1>3. ASSUME Webcam!CloseDrawer PROVE OneTask'
  <2>1. CASE ~capturing /\ Webcam!NoThread
    <3>1. task' = task /\ (~spoiled' =>
              ~spoiled /\ \A u \in Tasks : task[u].at = "none")
      BY <2>1 DEF Webcam!NoThread, Webcam!Busy
    <3>2. Alone' => Alone
      BY <1>3, <3>1 DEF Alone, Webcam!CloseDrawer, Webcam!CanClick
    <3> QED
      BY <1>3, <2>1, <3>1, <3>2
        DEF Webcam!CloseDrawer, Webcam!CanClick, Webcam!NoThread, Webcam!Busy,
           Webcam!clickKeeps, Webcam!captureVars, WebcamInv, OneTask, Alone,
           Webcam!Idle
  <2>2. CASE Webcam!Begins("stop", TRUE, FALSE)
    <3>1. TaskTypes /\ "stop" \in Steps /\ TRUE \in BOOLEAN /\ FALSE \in BOOLEAN
      BY DEF Steps, WebcamInv
    <3>2. PICK t \in Tasks :
              /\ task[t].at = "none"
              /\ Others(t)
              /\ task'[t] = [at |-> "stop", closes |-> TRUE, starts |-> FALSE]
      BY <2>2, Begun DEF Steps, WebcamInv
    <3>3. TaskTypes' /\ spoiled' = (spoiled \/ Webcam!Busy)
      BY <2>2, Begun DEF Steps, WebcamInv
    <3>4. ~spoiled' => ~spoiled /\ \A u \in Tasks : task[u].at = "none"
      BY <3>3 DEF Webcam!Busy
    <3>5. Alone' =>
              Alone /\ camera \notin {"init", "failed"} /\ (camera = "run" => capturing)
      BY <1>3, <3>4 DEF Alone, Webcam!CloseDrawer, Webcam!CanClick, WebcamInv,
         CameraTasks, At
    <3> QED
      BY <1>3, <2>2, <3>2, <3>3, <3>4, <3>5
        DEF Webcam!CloseDrawer, Webcam!CanClick, Webcam!NoThread, Webcam!Busy,
           Webcam!clickKeeps, Webcam!captureVars, WebcamInv, Others, OneTask, Alone,
           Webcam!Idle
  <2> QED
    BY <1>3, <2>1, <2>2 DEF Webcam!CloseDrawer, Webcam!NoThread
<1>4. ASSUME Webcam!PollTakes PROVE OneTask'
  BY <1>4 DEF Webcam!PollTakes, Webcam!CanClick, Webcam!pollKeeps, Webcam!savedVars,
     Webcam!uiVars, WebcamInv, OneTask, Alone, Webcam!Idle
<1>5. ASSUME Webcam!PollClears PROVE OneTask'
  BY <1>5 DEF Webcam!PollClears, Webcam!pollKeeps, Webcam!savedVars, Webcam!uiVars,
     WebcamInv, OneTask, Alone, Webcam!Idle
<1>6. ASSUME Webcam!Exit PROVE OneTask'
  BY <1>6 DEF Webcam!Exit, Webcam!CanClick, Webcam!exitKeeps, Webcam!savedVars,
     Webcam!uiVars, WebcamInv, OneTask, Alone, Webcam!Idle
<1>7. ASSUME Webcam!Exited PROVE OneTask'
  BY <1>7 DEF Webcam!Exited, Webcam!exitKeeps, Webcam!savedVars, Webcam!uiVars,
     Webcam!Idle, WebcamInv, OneTask, Alone, Webcam!Idle
<1>8. ASSUME Webcam!Crash PROVE OneTask'
  BY <1>8 DEF Webcam!Crash, Webcam!exitKeeps, Webcam!savedVars, Webcam!uiVars,
     Webcam!Idle, WebcamInv, OneTask, Alone, Webcam!Idle
<1>9. ASSUME NEW d \in Cameras, Webcam!PickCamera(d) PROVE OneTask'
  <2>1. CASE UNCHANGED task
    BY <1>9, <2>1 DEF Webcam!PickCamera, Webcam!CanClick, Webcam!NoThread,
       Webcam!Busy, Webcam!clickKeeps, Webcam!captureVars, Webcam!Begins, WebcamInv,
       OneTask, Alone, Webcam!Idle
  <2>2. CASE capturing /\ Webcam!Begins("stop", FALSE, visible)
    <3>1. TaskTypes /\ "stop" \in Steps /\ FALSE \in BOOLEAN /\ visible \in BOOLEAN
      BY DEF Steps, WebcamInv, WebcamFlags
    <3>2. PICK t \in Tasks :
              /\ task[t].at = "none"
              /\ Others(t)
              /\ task'[t] = [at |-> "stop", closes |-> FALSE, starts |-> visible]
      BY <2>2, <3>1, Begun, Zenon
    <3>3. TaskTypes' /\ spoiled' = (spoiled \/ Webcam!Busy)
      BY <2>2, <3>1, Begun, Zenon
    <3>4. ~spoiled' => ~spoiled /\ \A u \in Tasks : task[u].at = "none"
      BY <3>3 DEF Webcam!Busy
    <3> QED
      BY <1>9, <2>2, <3>2, <3>3, <3>4
        DEF Webcam!PickCamera, Webcam!CanClick, Webcam!NoThread, Webcam!Busy,
           Webcam!clickKeeps, Webcam!captureVars, WebcamInv, Others, OneTask, Alone,
           Webcam!Idle
  <2>3. CASE ~capturing /\ visible /\ Webcam!Begins("mark", FALSE, TRUE)
    <3>1. TaskTypes /\ "mark" \in Steps /\ FALSE \in BOOLEAN /\ TRUE \in BOOLEAN
      BY DEF Steps, WebcamInv
    <3>2. PICK t \in Tasks :
              /\ task[t].at = "none"
              /\ Others(t)
              /\ task'[t] = [at |-> "mark", closes |-> FALSE, starts |-> TRUE]
      BY <2>3, <3>1, Begun, Zenon
    <3>3. TaskTypes' /\ spoiled' = (spoiled \/ Webcam!Busy)
      BY <2>3, <3>1, Begun, Zenon
    <3>4. ~spoiled' => ~spoiled /\ \A u \in Tasks : task[u].at = "none"
      BY <3>3 DEF Webcam!Busy
    <3> QED
      BY <1>9, <2>3, <3>2, <3>3, <3>4
        DEF Webcam!PickCamera, Webcam!CanClick, Webcam!NoThread, Webcam!Busy,
           Webcam!clickKeeps, Webcam!captureVars, WebcamInv, Others, OneTask, Alone,
           Webcam!Idle
  <2> QED
    BY <1>9, <2>1, <2>2, <2>3 DEF Webcam!PickCamera, Webcam!NoThread
<1>10. ASSUME NEW t \in Tasks, Webcam!TaskStops(t) PROVE OneTask'
  BY <1>10 DEF Webcam!TaskStops, Webcam!Goes, Webcam!taskKeeps, Webcam!savedVars,
     Webcam!uiVars, Webcam!captureVars, Webcam!Idle, WebcamInv, OneTask, Alone,
     Webcam!Idle
<1>11. ASSUME NEW t \in Tasks, Webcam!TaskJoins(t) PROVE OneTask'
  BY <1>11 DEF Webcam!TaskJoins, Webcam!Goes, Webcam!taskKeeps, Webcam!savedVars,
     Webcam!uiVars, Webcam!captureVars, Webcam!Idle, WebcamInv, OneTask, Alone,
     Webcam!Idle
<1>12. ASSUME NEW t \in Tasks, Webcam!TaskClears(t) PROVE OneTask'
  BY <1>12 DEF Webcam!TaskClears, Webcam!Goes, Webcam!taskKeeps, Webcam!savedVars,
     Webcam!uiVars, Webcam!captureVars, Webcam!Idle, WebcamInv, OneTask, Alone,
     Webcam!Idle
<1>13. ASSUME NEW t \in Tasks, Webcam!TaskMarks(t) PROVE OneTask'
  BY <1>13 DEF Webcam!TaskMarks, Webcam!Goes, Webcam!taskKeeps, Webcam!savedVars,
     Webcam!uiVars, Webcam!captureVars, Webcam!Idle, WebcamInv, OneTask, Alone,
     Webcam!Idle
<1>14. ASSUME NEW t \in Tasks, Webcam!TaskStarts(t) PROVE OneTask'
  BY <1>14 DEF Webcam!TaskStarts, Webcam!Goes, Webcam!taskKeeps, Webcam!savedVars,
     Webcam!uiVars, Webcam!captureVars, Webcam!Idle, WebcamInv, OneTask, Alone,
     Webcam!Idle
<1>15. ASSUME NEW t \in Tasks, Webcam!TaskSpawns(t) PROVE OneTask'
  <2>1. CASE camera = "none"
    <3>1. /\ TaskTypes' /\ Others(t)
          /\ task'[t].at = "wait" /\ task'[t].starts = task[t].starts
          /\ task'[t].closes = task[t].closes
      BY <1>15, <2>1, Moved DEF Steps, WebcamInv, Webcam!TaskSpawns, Webcam!Goes
    <3> QED
      BY <1>15, <2>1, <3>1
        DEF Webcam!TaskSpawns, Webcam!Goes, Webcam!taskKeeps, Webcam!savedVars,
           Webcam!uiVars, Webcam!captureVars, Webcam!Idle, WebcamInv, Others,
           OneTask, Alone, Webcam!Idle
  <2>2. CASE camera # "none"
    <3>1. /\ app' = "aborted" /\ task' = [u \in Tasks |-> Webcam!Idle]
          /\ UNCHANGED <<camera, shown>>
      BY <1>15, <2>2 DEF Webcam!TaskSpawns
    <3> QED
      BY <1>15, <3>1 DEF Webcam!TaskSpawns, Webcam!Goes, Webcam!taskKeeps,
         Webcam!savedVars, Webcam!uiVars, Webcam!captureVars, Webcam!Idle,
         WebcamInv, OneTask, Alone, Webcam!Idle
  <2> QED
    BY <2>1, <2>2
<1>16. ASSUME NEW t \in Tasks, Webcam!TaskLearns(t) PROVE OneTask'
  BY <1>16 DEF Webcam!TaskLearns, Webcam!Goes, Webcam!taskKeeps, Webcam!savedVars,
     Webcam!uiVars, Webcam!captureVars, Webcam!Idle, WebcamInv, TaskTypes, OneTask,
     Alone, Webcam!Idle
<1>17. ASSUME NEW t \in Tasks, Webcam!TaskFails(t) PROVE OneTask'
  BY <1>17 DEF Webcam!TaskFails, Webcam!Goes, Webcam!taskKeeps, Webcam!savedVars,
     Webcam!uiVars, Webcam!captureVars, Webcam!Idle, WebcamInv, OneTask, Alone,
     Webcam!Idle
<1>18. ASSUME Webcam!WorkerRuns PROVE OneTask'
  BY <1>18 DEF Webcam!WorkerRuns, Webcam!workerKeeps, Webcam!savedVars,
     Webcam!uiVars, Webcam!ghostVars, WebcamInv, OneTask, Alone, Webcam!Idle
<1>19. ASSUME Webcam!WorkerFails PROVE OneTask'
  BY <1>19 DEF Webcam!WorkerFails, Webcam!workerKeeps, Webcam!savedVars,
     Webcam!uiVars, Webcam!ghostVars, WebcamInv, OneTask, Alone, Webcam!Idle
<1>20. ASSUME Webcam!WorkerCaptures PROVE OneTask'
  BY <1>20 DEF Webcam!WorkerCaptures, Webcam!workerKeeps, Webcam!savedVars,
     Webcam!uiVars, Webcam!ghostVars, WebcamInv, OneTask, Alone, Webcam!Idle
<1>21. ASSUME Webcam!WorkerBreaks PROVE OneTask'
  BY <1>21 DEF Webcam!WorkerBreaks, Webcam!workerKeeps, Webcam!savedVars,
     Webcam!uiVars, Webcam!ghostVars, WebcamInv, OneTask, Alone, Webcam!Idle
<1>22. ASSUME Webcam!WorkerEnds PROVE OneTask'
  BY <1>22 DEF Webcam!WorkerEnds, Webcam!workerKeeps, Webcam!savedVars,
     Webcam!uiVars, Webcam!ghostVars, WebcamInv, OneTask, Alone, Webcam!Idle
<1>23. CASE UNCHANGED webcamV
  BY <1>23 DEF webcamV, WebcamInv, OneTask, Alone, Webcam!Idle
<1> QED
  BY <1>1, <1>2, <1>3, <1>4, <1>5, <1>6, <1>7, <1>8, <1>9, <1>10, <1>11, <1>12,
     <1>13, <1>14, <1>15, <1>16, <1>17, <1>18, <1>19, <1>20, <1>21, <1>22, <1>23
    DEF Webcam!Next, Webcam!TaskStep

\* The worker, its frames and the guard.
LEMMA CameraPlacesKept ==
    ASSUME WebcamInv, Webcam!Next \/ UNCHANGED webcamV
    PROVE  CameraPlaces'
<1> USE NobodyAssumption
<1>1. ASSUME Webcam!Launch PROVE CameraPlaces'
  <2>1. /\ app = "down" \/ app = "aborted"
        /\ \A t \in Tasks : task[t] = Webcam!Idle
    BY <1>1 DEF Webcam!Launch, Webcam!FreshProcess, WebcamInv, Saved
  <2>2. CASE UNCHANGED task
    <3>1. \A u \in Tasks : task'[u] = Webcam!Idle
      BY <2>1, <2>2
    <3>2. app' = "up" /\ savedOpen' = visible'
      <4>1. CASE savedOpen
        BY <4>1, <1>1 DEF Webcam!Launch, Webcam!FreshProcess, Webcam!Reopen,
           Webcam!savedVars, WebcamInv
      <4>2. CASE ~savedOpen
        BY <4>2, <1>1 DEF Webcam!Launch, Webcam!FreshProcess, Webcam!Reopen,
           Webcam!savedVars, WebcamInv, WebcamFlags
      <4> QED
        BY <4>1, <4>2
    <3> QED
      BY <1>1, <2>1, <2>2, <3>1, <3>2
        DEF Webcam!Launch, Webcam!FreshProcess, Webcam!Reopen, Webcam!savedVars,
           WebcamInv, CameraPlaces, Alone, At, Webcam!Idle
  <2>3. CASE Webcam!Reopen
    <3>1. PICK t \in Tasks : task' = [task EXCEPT ![t].at = "start"]
      BY <2>3 DEF Webcam!Reopen
    <3>2. /\ TaskTypes' /\ Others(t)
          /\ task'[t].at = "start" /\ task'[t].starts = task[t].starts
          /\ task'[t].closes = task[t].closes
      BY <3>1, Moved DEF Steps, WebcamInv
    <3>3. task[t].starts = FALSE /\ task[t].closes = FALSE
      BY <2>1 DEF Webcam!Idle
    <3>4. /\ TaskTypes' /\ Others(t)
          /\ task'[t].at = "start" /\ task'[t].starts = FALSE
          /\ task'[t].closes = FALSE
      BY <3>2, <3>3
    <3>5. savedOpen
      BY <2>3, <1>1 DEF Webcam!Launch, Webcam!Reopen, WebcamInv
    <3> QED
      BY <1>1, <2>1, <2>3, <3>1, <3>4, <3>5
        DEF Webcam!Launch, Webcam!FreshProcess, Webcam!Reopen, Webcam!savedVars,
           WebcamInv, Others, CameraPlaces, Alone, At, Webcam!Idle
  <2> QED
    BY <1>1, <2>2, <2>3 DEF Webcam!Launch
<1>2. ASSUME Webcam!OpenDrawer PROVE CameraPlaces'
  <2>1. CASE (manual \/ capturing) /\ Webcam!NoThread
    <3>1. task' = task /\ (~spoiled' =>
              ~spoiled /\ \A u \in Tasks : task[u].at = "none")
      BY <2>1 DEF Webcam!NoThread, Webcam!Busy
    <3>2. Alone' => Alone
      BY <1>2, <3>1 DEF Alone, Webcam!OpenDrawer, Webcam!CanClick
    <3> QED
      BY <1>2, <2>1, <3>1, <3>2
        DEF Webcam!OpenDrawer, Webcam!CanClick, Webcam!NoThread, Webcam!Busy,
           Webcam!clickKeeps, Webcam!captureVars, WebcamInv, CameraPlaces, Alone,
           At, Webcam!Idle
  <2>2. CASE Webcam!Begins("start", FALSE, FALSE)
    <3>1. TaskTypes /\ "start" \in Steps /\ FALSE \in BOOLEAN /\ FALSE \in BOOLEAN
      BY DEF Steps, WebcamInv
    <3>2. PICK t \in Tasks :
              /\ task[t].at = "none"
              /\ Others(t)
              /\ task'[t] = [at |-> "start", closes |-> FALSE, starts |-> FALSE]
      BY <2>2, Begun DEF Steps, WebcamInv
    <3>3. TaskTypes' /\ spoiled' = (spoiled \/ Webcam!Busy)
      BY <2>2, Begun DEF Steps, WebcamInv
    <3>4. ~spoiled' => ~spoiled /\ \A u \in Tasks : task[u].at = "none"
      BY <3>3 DEF Webcam!Busy
    <3>5. Alone' =>
              Alone /\ camera \notin {"init", "failed"} /\ (camera = "run" => capturing)
      BY <1>2, <3>4 DEF Alone, Webcam!OpenDrawer, Webcam!CanClick, WebcamInv,
         CameraTasks, At
    <3> QED
      BY <1>2, <2>2, <3>2, <3>3, <3>4, <3>5
        DEF Webcam!OpenDrawer, Webcam!CanClick, Webcam!NoThread, Webcam!Busy,
           Webcam!clickKeeps, Webcam!captureVars, WebcamInv, Others, CameraPlaces,
           Alone, At, Webcam!Idle
  <2> QED
    BY <1>2, <2>1, <2>2 DEF Webcam!OpenDrawer, Webcam!NoThread
<1>3. ASSUME Webcam!CloseDrawer PROVE CameraPlaces'
  <2>1. CASE ~capturing /\ Webcam!NoThread
    <3>1. task' = task /\ (~spoiled' =>
              ~spoiled /\ \A u \in Tasks : task[u].at = "none")
      BY <2>1 DEF Webcam!NoThread, Webcam!Busy
    <3>2. Alone' => Alone
      BY <1>3, <3>1 DEF Alone, Webcam!CloseDrawer, Webcam!CanClick
    <3> QED
      BY <1>3, <2>1, <3>1, <3>2
        DEF Webcam!CloseDrawer, Webcam!CanClick, Webcam!NoThread, Webcam!Busy,
           Webcam!clickKeeps, Webcam!captureVars, WebcamInv, CameraPlaces, Alone,
           At, Webcam!Idle
  <2>2. CASE Webcam!Begins("stop", TRUE, FALSE)
    <3>1. TaskTypes /\ "stop" \in Steps /\ TRUE \in BOOLEAN /\ FALSE \in BOOLEAN
      BY DEF Steps, WebcamInv
    <3>2. PICK t \in Tasks :
              /\ task[t].at = "none"
              /\ Others(t)
              /\ task'[t] = [at |-> "stop", closes |-> TRUE, starts |-> FALSE]
      BY <2>2, Begun DEF Steps, WebcamInv
    <3>3. TaskTypes' /\ spoiled' = (spoiled \/ Webcam!Busy)
      BY <2>2, Begun DEF Steps, WebcamInv
    <3>4. ~spoiled' => ~spoiled /\ \A u \in Tasks : task[u].at = "none"
      BY <3>3 DEF Webcam!Busy
    <3>5. Alone' =>
              Alone /\ camera \notin {"init", "failed"} /\ (camera = "run" => capturing)
      BY <1>3, <3>4 DEF Alone, Webcam!CloseDrawer, Webcam!CanClick, WebcamInv,
         CameraTasks, At
    <3> QED
      BY <1>3, <2>2, <3>2, <3>3, <3>4, <3>5
        DEF Webcam!CloseDrawer, Webcam!CanClick, Webcam!NoThread, Webcam!Busy,
           Webcam!clickKeeps, Webcam!captureVars, WebcamInv, Others, CameraPlaces,
           Alone, At, Webcam!Idle
  <2> QED
    BY <1>3, <2>1, <2>2 DEF Webcam!CloseDrawer, Webcam!NoThread
<1>4. ASSUME Webcam!PollTakes PROVE CameraPlaces'
  BY <1>4 DEF Webcam!PollTakes, Webcam!CanClick, Webcam!pollKeeps, Webcam!savedVars,
     Webcam!uiVars, WebcamInv, CameraPlaces, Alone, At, Webcam!Idle
<1>5. ASSUME Webcam!PollClears PROVE CameraPlaces'
  BY <1>5 DEF Webcam!PollClears, Webcam!pollKeeps, Webcam!savedVars, Webcam!uiVars,
     WebcamInv, WebcamTypes, CameraPlaces, Alone, At, Webcam!Idle
<1>6. ASSUME Webcam!Exit PROVE CameraPlaces'
  BY <1>6 DEF Webcam!Exit, Webcam!CanClick, Webcam!exitKeeps, Webcam!savedVars,
     Webcam!uiVars, WebcamInv, CameraPlaces, Alone, At, Webcam!Idle
<1>7. ASSUME Webcam!Exited PROVE CameraPlaces'
  BY <1>7 DEF Webcam!Exited, Webcam!exitKeeps, Webcam!savedVars, Webcam!uiVars,
     Webcam!Idle, WebcamInv, CameraPlaces, Alone, At, Webcam!Idle
<1>8. ASSUME Webcam!Crash PROVE CameraPlaces'
  BY <1>8 DEF Webcam!Crash, Webcam!exitKeeps, Webcam!savedVars, Webcam!uiVars,
     Webcam!Idle, WebcamInv, CameraPlaces, Alone, At, Webcam!Idle
<1>9. ASSUME NEW d \in Cameras, Webcam!PickCamera(d) PROVE CameraPlaces'
  <2>1. CASE UNCHANGED task
    BY <1>9, <2>1 DEF Webcam!PickCamera, Webcam!CanClick, Webcam!NoThread,
       Webcam!Busy, Webcam!clickKeeps, Webcam!captureVars, Webcam!Begins, WebcamInv,
       CameraPlaces, Alone, At, Webcam!Idle
  <2>2. CASE capturing /\ Webcam!Begins("stop", FALSE, visible)
    <3>1. TaskTypes /\ "stop" \in Steps /\ FALSE \in BOOLEAN /\ visible \in BOOLEAN
      BY DEF Steps, WebcamInv, WebcamFlags
    <3>2. PICK t \in Tasks :
              /\ task[t].at = "none"
              /\ Others(t)
              /\ task'[t] = [at |-> "stop", closes |-> FALSE, starts |-> visible]
      BY <2>2, <3>1, Begun, Zenon
    <3>3. TaskTypes' /\ spoiled' = (spoiled \/ Webcam!Busy)
      BY <2>2, <3>1, Begun, Zenon
    <3>4. ~spoiled' => ~spoiled /\ \A u \in Tasks : task[u].at = "none"
      BY <3>3 DEF Webcam!Busy
    <3> QED
      BY <1>9, <2>2, <3>2, <3>3, <3>4
        DEF Webcam!PickCamera, Webcam!CanClick, Webcam!NoThread, Webcam!Busy,
           Webcam!clickKeeps, Webcam!captureVars, WebcamInv, Others, CameraPlaces,
           Alone, At, Webcam!Idle
  <2>3. CASE ~capturing /\ visible /\ Webcam!Begins("mark", FALSE, TRUE)
    <3>1. TaskTypes /\ "mark" \in Steps /\ FALSE \in BOOLEAN /\ TRUE \in BOOLEAN
      BY DEF Steps, WebcamInv
    <3>2. PICK t \in Tasks :
              /\ task[t].at = "none"
              /\ Others(t)
              /\ task'[t] = [at |-> "mark", closes |-> FALSE, starts |-> TRUE]
      BY <2>3, <3>1, Begun, Zenon
    <3>3. TaskTypes' /\ spoiled' = (spoiled \/ Webcam!Busy)
      BY <2>3, <3>1, Begun, Zenon
    <3>4. ~spoiled' => ~spoiled /\ \A u \in Tasks : task[u].at = "none"
      BY <3>3 DEF Webcam!Busy
    <3> QED
      BY <1>9, <2>3, <3>2, <3>3, <3>4
        DEF Webcam!PickCamera, Webcam!CanClick, Webcam!NoThread, Webcam!Busy,
           Webcam!clickKeeps, Webcam!captureVars, WebcamInv, Others, CameraPlaces,
           Alone, At, Webcam!Idle
  <2> QED
    BY <1>9, <2>1, <2>2, <2>3 DEF Webcam!PickCamera, Webcam!NoThread
<1>10. ASSUME NEW t \in Tasks, Webcam!TaskStops(t) PROVE CameraPlaces'
  BY <1>10 DEF Webcam!TaskStops, Webcam!Goes, Webcam!taskKeeps, Webcam!savedVars,
     Webcam!uiVars, Webcam!captureVars, Webcam!Idle, WebcamInv, CameraPlaces, Alone,
     At, Webcam!Idle
<1>11. ASSUME NEW t \in Tasks, Webcam!TaskJoins(t) PROVE CameraPlaces'
  BY <1>11 DEF Webcam!TaskJoins, Webcam!Goes, Webcam!taskKeeps, Webcam!savedVars,
     Webcam!uiVars, Webcam!captureVars, Webcam!Idle, WebcamInv, CameraPlaces, Alone,
     At, Webcam!Idle
<1>12. ASSUME NEW t \in Tasks, Webcam!TaskClears(t) PROVE CameraPlaces'
  BY <1>12 DEF Webcam!TaskClears, Webcam!Goes, Webcam!taskKeeps, Webcam!savedVars,
     Webcam!uiVars, Webcam!captureVars, Webcam!Idle, WebcamInv, CameraPlaces, Alone,
     TaskPlaces, At, Webcam!Idle
<1>13. ASSUME NEW t \in Tasks, Webcam!TaskMarks(t) PROVE CameraPlaces'
  BY <1>13 DEF Webcam!TaskMarks, Webcam!Goes, Webcam!taskKeeps, Webcam!savedVars,
     Webcam!uiVars, Webcam!captureVars, Webcam!Idle, WebcamInv, CameraPlaces, Alone,
     At, Webcam!Idle
<1>14. ASSUME NEW t \in Tasks, Webcam!TaskStarts(t) PROVE CameraPlaces'
  BY <1>14 DEF Webcam!TaskStarts, Webcam!Goes, Webcam!taskKeeps, Webcam!savedVars,
     Webcam!uiVars, Webcam!captureVars, Webcam!Idle, WebcamInv, CameraPlaces, Alone,
     At, Webcam!Idle
<1>15. ASSUME NEW t \in Tasks, Webcam!TaskSpawns(t) PROVE CameraPlaces'
  <2>1. CASE camera = "none"
    <3>1. /\ TaskTypes' /\ Others(t)
          /\ task'[t].at = "wait" /\ task'[t].starts = task[t].starts
          /\ task'[t].closes = task[t].closes
      BY <1>15, <2>1, Moved DEF Steps, WebcamInv, Webcam!TaskSpawns, Webcam!Goes
    <3> QED
      BY <1>15, <2>1, <3>1
        DEF Webcam!TaskSpawns, Webcam!Goes, Webcam!taskKeeps, Webcam!savedVars,
           Webcam!uiVars, Webcam!captureVars, Webcam!Idle, WebcamInv, Others,
           CameraPlaces, Alone, TaskPlaces, At, Webcam!Idle
  <2>2. CASE camera # "none"
    <3>1. /\ app' = "aborted" /\ task' = [u \in Tasks |-> Webcam!Idle]
          /\ UNCHANGED <<camera, shown>>
      BY <1>15, <2>2 DEF Webcam!TaskSpawns
    <3> QED
      BY <1>15, <3>1 DEF Webcam!TaskSpawns, Webcam!Goes, Webcam!taskKeeps,
         Webcam!savedVars, Webcam!uiVars, Webcam!captureVars, Webcam!Idle,
         WebcamInv, CameraPlaces, Alone, At, Webcam!Idle
  <2> QED
    BY <2>1, <2>2
<1>16. ASSUME NEW t \in Tasks, Webcam!TaskLearns(t) PROVE CameraPlaces'
  BY <1>16 DEF Webcam!TaskLearns, Webcam!Goes, Webcam!taskKeeps, Webcam!savedVars,
     Webcam!uiVars, Webcam!captureVars, Webcam!Idle, WebcamInv, CameraPlaces, Alone,
     At, Webcam!Idle
<1>17. ASSUME NEW t \in Tasks, Webcam!TaskFails(t) PROVE CameraPlaces'
  BY <1>17 DEF Webcam!TaskFails, Webcam!Goes, Webcam!taskKeeps, Webcam!savedVars,
     Webcam!uiVars, Webcam!captureVars, Webcam!Idle, WebcamInv, CameraPlaces, Alone,
     TaskPlaces, At, Webcam!Idle
<1>18. ASSUME Webcam!WorkerRuns PROVE CameraPlaces'
  BY <1>18 DEF Webcam!WorkerRuns, Webcam!workerKeeps, Webcam!savedVars,
     Webcam!uiVars, Webcam!ghostVars, WebcamInv, CameraPlaces, Alone, At,
     Webcam!Idle
<1>19. ASSUME Webcam!WorkerFails PROVE CameraPlaces'
  BY <1>19 DEF Webcam!WorkerFails, Webcam!workerKeeps, Webcam!savedVars,
     Webcam!uiVars, Webcam!ghostVars, WebcamInv, CameraPlaces, Alone, At,
     Webcam!Idle
<1>20. ASSUME Webcam!WorkerCaptures PROVE CameraPlaces'
  BY <1>20 DEF Webcam!WorkerCaptures, Webcam!workerKeeps, Webcam!savedVars,
     Webcam!uiVars, Webcam!ghostVars, WebcamInv, CameraPlaces, Alone, At,
     Webcam!Idle
<1>21. ASSUME Webcam!WorkerBreaks PROVE CameraPlaces'
  BY <1>21 DEF Webcam!WorkerBreaks, Webcam!workerKeeps, Webcam!savedVars,
     Webcam!uiVars, Webcam!ghostVars, WebcamInv, CameraPlaces, Alone, At,
     Webcam!Idle
<1>22. ASSUME Webcam!WorkerEnds PROVE CameraPlaces'
  BY <1>22 DEF Webcam!WorkerEnds, Webcam!workerKeeps, Webcam!savedVars,
     Webcam!uiVars, Webcam!ghostVars, WebcamInv, CameraPlaces, Alone, At,
     Webcam!Idle
<1>23. CASE UNCHANGED webcamV
  BY <1>23 DEF webcamV, WebcamInv, CameraPlaces, Alone, At, Webcam!Idle
<1> QED
  BY <1>1, <1>2, <1>3, <1>4, <1>5, <1>6, <1>7, <1>8, <1>9, <1>10, <1>11, <1>12,
     <1>13, <1>14, <1>15, <1>16, <1>17, <1>18, <1>19, <1>20, <1>21, <1>22, <1>23
    DEF Webcam!Next, Webcam!TaskStep

\* The worker and the threads that wait for it.
LEMMA CameraTasksKept ==
    ASSUME WebcamInv, Webcam!Next \/ UNCHANGED webcamV
    PROVE  CameraTasks'
<1> USE NobodyAssumption
<1>1. ASSUME Webcam!Launch PROVE CameraTasks'
  <2>1. /\ app = "down" \/ app = "aborted"
        /\ \A t \in Tasks : task[t] = Webcam!Idle
    BY <1>1 DEF Webcam!Launch, Webcam!FreshProcess, WebcamInv, Saved
  <2>2. CASE UNCHANGED task
    <3>1. \A u \in Tasks : task'[u] = Webcam!Idle
      BY <2>1, <2>2
    <3>2. app' = "up" /\ savedOpen' = visible'
      <4>1. CASE savedOpen
        BY <4>1, <1>1 DEF Webcam!Launch, Webcam!FreshProcess, Webcam!Reopen,
           Webcam!savedVars, WebcamInv
      <4>2. CASE ~savedOpen
        BY <4>2, <1>1 DEF Webcam!Launch, Webcam!FreshProcess, Webcam!Reopen,
           Webcam!savedVars, WebcamInv, WebcamFlags
      <4> QED
        BY <4>1, <4>2
    <3> QED
      BY <1>1, <2>1, <2>2, <3>1, <3>2
        DEF Webcam!Launch, Webcam!FreshProcess, Webcam!Reopen, Webcam!savedVars,
           WebcamInv, Alone, CameraTasks, At, Webcam!Idle
  <2>3. CASE Webcam!Reopen
    <3>1. PICK t \in Tasks : task' = [task EXCEPT ![t].at = "start"]
      BY <2>3 DEF Webcam!Reopen
    <3>2. /\ TaskTypes' /\ Others(t)
          /\ task'[t].at = "start" /\ task'[t].starts = task[t].starts
          /\ task'[t].closes = task[t].closes
      BY <3>1, Moved DEF Steps, WebcamInv
    <3>3. task[t].starts = FALSE /\ task[t].closes = FALSE
      BY <2>1 DEF Webcam!Idle
    <3>4. /\ TaskTypes' /\ Others(t)
          /\ task'[t].at = "start" /\ task'[t].starts = FALSE
          /\ task'[t].closes = FALSE
      BY <3>2, <3>3
    <3>5. savedOpen
      BY <2>3, <1>1 DEF Webcam!Launch, Webcam!Reopen, WebcamInv
    <3> QED
      BY <1>1, <2>1, <2>3, <3>1, <3>4, <3>5
        DEF Webcam!Launch, Webcam!FreshProcess, Webcam!Reopen, Webcam!savedVars,
           WebcamInv, Others, Alone, CameraTasks, At, Webcam!Idle
  <2> QED
    BY <1>1, <2>2, <2>3 DEF Webcam!Launch
<1>2. ASSUME Webcam!OpenDrawer PROVE CameraTasks'
  <2>1. CASE (manual \/ capturing) /\ Webcam!NoThread
    <3>1. task' = task /\ (~spoiled' =>
              ~spoiled /\ \A u \in Tasks : task[u].at = "none")
      BY <2>1 DEF Webcam!NoThread, Webcam!Busy
    <3>2. Alone' => Alone
      BY <1>2, <3>1 DEF Alone, Webcam!OpenDrawer, Webcam!CanClick
    <3> QED
      BY <1>2, <2>1, <3>1, <3>2
        DEF Webcam!OpenDrawer, Webcam!CanClick, Webcam!NoThread, Webcam!Busy,
           Webcam!clickKeeps, Webcam!captureVars, WebcamInv, Alone, CameraTasks, At,
           Webcam!Idle
  <2>2. CASE Webcam!Begins("start", FALSE, FALSE)
    <3>1. TaskTypes /\ "start" \in Steps /\ FALSE \in BOOLEAN /\ FALSE \in BOOLEAN
      BY DEF Steps, WebcamInv
    <3>2. PICK t \in Tasks :
              /\ task[t].at = "none"
              /\ Others(t)
              /\ task'[t] = [at |-> "start", closes |-> FALSE, starts |-> FALSE]
      BY <2>2, Begun DEF Steps, WebcamInv
    <3>3. TaskTypes' /\ spoiled' = (spoiled \/ Webcam!Busy)
      BY <2>2, Begun DEF Steps, WebcamInv
    <3>4. ~spoiled' => ~spoiled /\ \A u \in Tasks : task[u].at = "none"
      BY <3>3 DEF Webcam!Busy
    <3>5. Alone' =>
              Alone /\ camera \notin {"init", "failed"} /\ (camera = "run" => capturing)
      BY <1>2, <3>4 DEF Alone, Webcam!OpenDrawer, Webcam!CanClick, WebcamInv,
         CameraTasks, At
    <3> QED
      BY <1>2, <2>2, <3>2, <3>3, <3>4, <3>5
        DEF Webcam!OpenDrawer, Webcam!CanClick, Webcam!NoThread, Webcam!Busy,
           Webcam!clickKeeps, Webcam!captureVars, WebcamInv, Others, Alone,
           CameraTasks, At, Webcam!Idle
  <2> QED
    BY <1>2, <2>1, <2>2 DEF Webcam!OpenDrawer, Webcam!NoThread
<1>3. ASSUME Webcam!CloseDrawer PROVE CameraTasks'
  <2>1. CASE ~capturing /\ Webcam!NoThread
    <3>1. task' = task /\ (~spoiled' =>
              ~spoiled /\ \A u \in Tasks : task[u].at = "none")
      BY <2>1 DEF Webcam!NoThread, Webcam!Busy
    <3>2. Alone' => Alone
      BY <1>3, <3>1 DEF Alone, Webcam!CloseDrawer, Webcam!CanClick
    <3> QED
      BY <1>3, <2>1, <3>1, <3>2
        DEF Webcam!CloseDrawer, Webcam!CanClick, Webcam!NoThread, Webcam!Busy,
           Webcam!clickKeeps, Webcam!captureVars, WebcamInv, Alone, CameraTasks, At,
           Webcam!Idle
  <2>2. CASE Webcam!Begins("stop", TRUE, FALSE)
    <3>1. TaskTypes /\ "stop" \in Steps /\ TRUE \in BOOLEAN /\ FALSE \in BOOLEAN
      BY DEF Steps, WebcamInv
    <3>2. PICK t \in Tasks :
              /\ task[t].at = "none"
              /\ Others(t)
              /\ task'[t] = [at |-> "stop", closes |-> TRUE, starts |-> FALSE]
      BY <2>2, Begun DEF Steps, WebcamInv
    <3>3. TaskTypes' /\ spoiled' = (spoiled \/ Webcam!Busy)
      BY <2>2, Begun DEF Steps, WebcamInv
    <3>4. ~spoiled' => ~spoiled /\ \A u \in Tasks : task[u].at = "none"
      BY <3>3 DEF Webcam!Busy
    <3>5. Alone' =>
              Alone /\ camera \notin {"init", "failed"} /\ (camera = "run" => capturing)
      BY <1>3, <3>4 DEF Alone, Webcam!CloseDrawer, Webcam!CanClick, WebcamInv,
         CameraTasks, At
    <3> QED
      BY <1>3, <2>2, <3>2, <3>3, <3>4, <3>5
        DEF Webcam!CloseDrawer, Webcam!CanClick, Webcam!NoThread, Webcam!Busy,
           Webcam!clickKeeps, Webcam!captureVars, WebcamInv, Others, Alone,
           CameraTasks, At, Webcam!Idle
  <2> QED
    BY <1>3, <2>1, <2>2 DEF Webcam!CloseDrawer, Webcam!NoThread
<1>4. ASSUME Webcam!PollTakes PROVE CameraTasks'
  BY <1>4 DEF Webcam!PollTakes, Webcam!CanClick, Webcam!pollKeeps, Webcam!savedVars,
     Webcam!uiVars, WebcamInv, Alone, CameraTasks, At, Webcam!Idle
<1>5. ASSUME Webcam!PollClears PROVE CameraTasks'
  BY <1>5 DEF Webcam!PollClears, Webcam!pollKeeps, Webcam!savedVars, Webcam!uiVars,
     WebcamInv, Alone, CameraTasks, At, Webcam!Idle
<1>6. ASSUME Webcam!Exit PROVE CameraTasks'
  BY <1>6 DEF Webcam!Exit, Webcam!CanClick, Webcam!exitKeeps, Webcam!savedVars,
     Webcam!uiVars, WebcamInv, Alone, CameraTasks, At, Webcam!Idle
<1>7. ASSUME Webcam!Exited PROVE CameraTasks'
  BY <1>7 DEF Webcam!Exited, Webcam!exitKeeps, Webcam!savedVars, Webcam!uiVars,
     Webcam!Idle, WebcamInv, Alone, CameraTasks, At, Webcam!Idle
<1>8. ASSUME Webcam!Crash PROVE CameraTasks'
  BY <1>8 DEF Webcam!Crash, Webcam!exitKeeps, Webcam!savedVars, Webcam!uiVars,
     Webcam!Idle, WebcamInv, Alone, CameraTasks, At, Webcam!Idle
<1>9. ASSUME NEW d \in Cameras, Webcam!PickCamera(d) PROVE CameraTasks'
  <2>1. CASE UNCHANGED task
    BY <1>9, <2>1 DEF Webcam!PickCamera, Webcam!CanClick, Webcam!NoThread,
       Webcam!Busy, Webcam!clickKeeps, Webcam!captureVars, Webcam!Begins, WebcamInv,
       Alone, CameraTasks, At, Webcam!Idle
  <2>2. CASE capturing /\ Webcam!Begins("stop", FALSE, visible)
    <3>1. TaskTypes /\ "stop" \in Steps /\ FALSE \in BOOLEAN /\ visible \in BOOLEAN
      BY DEF Steps, WebcamInv, WebcamFlags
    <3>2. PICK t \in Tasks :
              /\ task[t].at = "none"
              /\ Others(t)
              /\ task'[t] = [at |-> "stop", closes |-> FALSE, starts |-> visible]
      BY <2>2, <3>1, Begun, Zenon
    <3>3. TaskTypes' /\ spoiled' = (spoiled \/ Webcam!Busy)
      BY <2>2, <3>1, Begun, Zenon
    <3>4. ~spoiled' => ~spoiled /\ \A u \in Tasks : task[u].at = "none"
      BY <3>3 DEF Webcam!Busy
    <3> QED
      BY <1>9, <2>2, <3>2, <3>3, <3>4
        DEF Webcam!PickCamera, Webcam!CanClick, Webcam!NoThread, Webcam!Busy,
           Webcam!clickKeeps, Webcam!captureVars, WebcamInv, Others, Alone,
           CameraTasks, At, Webcam!Idle
  <2>3. CASE ~capturing /\ visible /\ Webcam!Begins("mark", FALSE, TRUE)
    <3>1. TaskTypes /\ "mark" \in Steps /\ FALSE \in BOOLEAN /\ TRUE \in BOOLEAN
      BY DEF Steps, WebcamInv
    <3>2. PICK t \in Tasks :
              /\ task[t].at = "none"
              /\ Others(t)
              /\ task'[t] = [at |-> "mark", closes |-> FALSE, starts |-> TRUE]
      BY <2>3, <3>1, Begun, Zenon
    <3>3. TaskTypes' /\ spoiled' = (spoiled \/ Webcam!Busy)
      BY <2>3, <3>1, Begun, Zenon
    <3>4. ~spoiled' => ~spoiled /\ \A u \in Tasks : task[u].at = "none"
      BY <3>3 DEF Webcam!Busy
    <3> QED
      BY <1>9, <2>3, <3>2, <3>3, <3>4
        DEF Webcam!PickCamera, Webcam!CanClick, Webcam!NoThread, Webcam!Busy,
           Webcam!clickKeeps, Webcam!captureVars, WebcamInv, Others, Alone,
           CameraTasks, At, Webcam!Idle
  <2> QED
    BY <1>9, <2>1, <2>2, <2>3 DEF Webcam!PickCamera, Webcam!NoThread
<1>10. ASSUME NEW t \in Tasks, Webcam!TaskStops(t) PROVE CameraTasks'
  BY <1>10 DEF Webcam!TaskStops, Webcam!Goes, Webcam!taskKeeps, Webcam!savedVars,
     Webcam!uiVars, Webcam!captureVars, Webcam!Idle, WebcamInv, TaskTypes, Alone,
     CameraTasks, At, Webcam!Idle
<1>11. ASSUME NEW t \in Tasks, Webcam!TaskJoins(t) PROVE CameraTasks'
  BY <1>11 DEF Webcam!TaskJoins, Webcam!Goes, Webcam!taskKeeps, Webcam!savedVars,
     Webcam!uiVars, Webcam!captureVars, Webcam!Idle, WebcamInv, Alone, CameraTasks,
     At, Webcam!Idle
<1>12. ASSUME NEW t \in Tasks, Webcam!TaskClears(t) PROVE CameraTasks'
  BY <1>12 DEF Webcam!TaskClears, Webcam!Goes, Webcam!taskKeeps, Webcam!savedVars,
     Webcam!uiVars, Webcam!captureVars, Webcam!Idle, WebcamInv, Alone, CameraTasks,
     At, Webcam!Idle
<1>13. ASSUME NEW t \in Tasks, Webcam!TaskMarks(t) PROVE CameraTasks'
  BY <1>13 DEF Webcam!TaskMarks, Webcam!Goes, Webcam!taskKeeps, Webcam!savedVars,
     Webcam!uiVars, Webcam!captureVars, Webcam!Idle, WebcamInv, Alone, CameraTasks,
     At, Webcam!Idle
<1>14. ASSUME NEW t \in Tasks, Webcam!TaskStarts(t) PROVE CameraTasks'
  BY <1>14 DEF Webcam!TaskStarts, Webcam!Goes, Webcam!taskKeeps, Webcam!savedVars,
     Webcam!uiVars, Webcam!captureVars, Webcam!Idle, WebcamInv, Alone, CameraTasks,
     At, Webcam!Idle
<1>15. ASSUME NEW t \in Tasks, Webcam!TaskSpawns(t) PROVE CameraTasks'
  <2>1. CASE camera = "none"
    <3>1. /\ TaskTypes' /\ Others(t)
          /\ task'[t].at = "wait" /\ task'[t].starts = task[t].starts
          /\ task'[t].closes = task[t].closes
      BY <1>15, <2>1, Moved DEF Steps, WebcamInv, Webcam!TaskSpawns, Webcam!Goes
    <3> QED
      BY <1>15, <2>1, <3>1
        DEF Webcam!TaskSpawns, Webcam!Goes, Webcam!taskKeeps, Webcam!savedVars,
           Webcam!uiVars, Webcam!captureVars, Webcam!Idle, WebcamInv, Others, Alone,
           TaskPlaces, CameraTasks, At, Webcam!Idle
  <2>2. CASE camera # "none"
    <3>1. /\ app' = "aborted" /\ task' = [u \in Tasks |-> Webcam!Idle]
          /\ UNCHANGED <<camera, shown>>
      BY <1>15, <2>2 DEF Webcam!TaskSpawns
    <3> QED
      BY <1>15, <3>1 DEF Webcam!TaskSpawns, Webcam!Goes, Webcam!taskKeeps,
         Webcam!savedVars, Webcam!uiVars, Webcam!captureVars, Webcam!Idle,
         WebcamInv, Alone, CameraTasks, At, Webcam!Idle
  <2> QED
    BY <2>1, <2>2
<1>16. ASSUME NEW t \in Tasks, Webcam!TaskLearns(t) PROVE CameraTasks'
  BY <1>16 DEF Webcam!TaskLearns, Webcam!Goes, Webcam!taskKeeps, Webcam!savedVars,
     Webcam!uiVars, Webcam!captureVars, Webcam!Idle, WebcamInv, Alone, OneTask,
     CameraTasks, At, Webcam!Idle
<1>17. ASSUME NEW t \in Tasks, Webcam!TaskFails(t) PROVE CameraTasks'
  BY <1>17 DEF Webcam!TaskFails, Webcam!Goes, Webcam!taskKeeps, Webcam!savedVars,
     Webcam!uiVars, Webcam!captureVars, Webcam!Idle, WebcamInv, Alone, CameraTasks,
     At, Webcam!Idle
<1>18. ASSUME Webcam!WorkerRuns PROVE CameraTasks'
  BY <1>18 DEF Webcam!WorkerRuns, Webcam!workerKeeps, Webcam!savedVars,
     Webcam!uiVars, Webcam!ghostVars, WebcamInv, Alone, CameraTasks, At, Webcam!Idle
<1>19. ASSUME Webcam!WorkerFails PROVE CameraTasks'
  BY <1>19 DEF Webcam!WorkerFails, Webcam!workerKeeps, Webcam!savedVars,
     Webcam!uiVars, Webcam!ghostVars, WebcamInv, Alone, CameraTasks, At, Webcam!Idle
<1>20. ASSUME Webcam!WorkerCaptures PROVE CameraTasks'
  BY <1>20 DEF Webcam!WorkerCaptures, Webcam!workerKeeps, Webcam!savedVars,
     Webcam!uiVars, Webcam!ghostVars, WebcamInv, Alone, CameraTasks, At, Webcam!Idle
<1>21. ASSUME Webcam!WorkerBreaks PROVE CameraTasks'
  BY <1>21 DEF Webcam!WorkerBreaks, Webcam!workerKeeps, Webcam!savedVars,
     Webcam!uiVars, Webcam!ghostVars, WebcamInv, Alone, CameraTasks, At, Webcam!Idle
<1>22. ASSUME Webcam!WorkerEnds PROVE CameraTasks'
  BY <1>22 DEF Webcam!WorkerEnds, Webcam!workerKeeps, Webcam!savedVars,
     Webcam!uiVars, Webcam!ghostVars, WebcamInv, Alone, CameraTasks, At, Webcam!Idle
<1>23. CASE UNCHANGED webcamV
  BY <1>23 DEF webcamV, WebcamInv, Alone, CameraTasks, At, Webcam!Idle
<1> QED
  BY <1>1, <1>2, <1>3, <1>4, <1>5, <1>6, <1>7, <1>8, <1>9, <1>10, <1>11, <1>12,
     <1>13, <1>14, <1>15, <1>16, <1>17, <1>18, <1>19, <1>20, <1>21, <1>22, <1>23
    DEF Webcam!Next, Webcam!TaskStep

\* The threads on their way to a start.
LEMMA TaskPlacesKept ==
    ASSUME WebcamInv, Webcam!Next \/ UNCHANGED webcamV
    PROVE  TaskPlaces'
<1> USE NobodyAssumption
<1>1. ASSUME Webcam!Launch PROVE TaskPlaces'
  <2>1. /\ app = "down" \/ app = "aborted"
        /\ \A t \in Tasks : task[t] = Webcam!Idle
    BY <1>1 DEF Webcam!Launch, Webcam!FreshProcess, WebcamInv, Saved
  <2>2. CASE UNCHANGED task
    <3>1. \A u \in Tasks : task'[u] = Webcam!Idle
      BY <2>1, <2>2
    <3>2. app' = "up" /\ savedOpen' = visible'
      <4>1. CASE savedOpen
        BY <4>1, <1>1 DEF Webcam!Launch, Webcam!FreshProcess, Webcam!Reopen,
           Webcam!savedVars, WebcamInv
      <4>2. CASE ~savedOpen
        BY <4>2, <1>1 DEF Webcam!Launch, Webcam!FreshProcess, Webcam!Reopen,
           Webcam!savedVars, WebcamInv, WebcamFlags
      <4> QED
        BY <4>1, <4>2
    <3> QED
      BY <1>1, <2>1, <2>2, <3>1, <3>2
        DEF Webcam!Launch, Webcam!FreshProcess, Webcam!Reopen, Webcam!savedVars,
           WebcamInv, Alone, TaskPlaces, At, Webcam!Idle
  <2>3. CASE Webcam!Reopen
    <3>1. PICK t \in Tasks : task' = [task EXCEPT ![t].at = "start"]
      BY <2>3 DEF Webcam!Reopen
    <3>2. /\ TaskTypes' /\ Others(t)
          /\ task'[t].at = "start" /\ task'[t].starts = task[t].starts
          /\ task'[t].closes = task[t].closes
      BY <3>1, Moved DEF Steps, WebcamInv
    <3>3. task[t].starts = FALSE /\ task[t].closes = FALSE
      BY <2>1 DEF Webcam!Idle
    <3>4. /\ TaskTypes' /\ Others(t)
          /\ task'[t].at = "start" /\ task'[t].starts = FALSE
          /\ task'[t].closes = FALSE
      BY <3>2, <3>3
    <3>5. savedOpen
      BY <2>3, <1>1 DEF Webcam!Launch, Webcam!Reopen, WebcamInv
    <3> QED
      BY <1>1, <2>1, <2>3, <3>1, <3>4, <3>5
        DEF Webcam!Launch, Webcam!FreshProcess, Webcam!Reopen, Webcam!savedVars,
           WebcamInv, Others, Alone, TaskPlaces, At, Webcam!Idle
  <2> QED
    BY <1>1, <2>2, <2>3 DEF Webcam!Launch
<1>2. ASSUME Webcam!OpenDrawer PROVE TaskPlaces'
  <2>1. CASE (manual \/ capturing) /\ Webcam!NoThread
    <3>1. task' = task /\ (~spoiled' =>
              ~spoiled /\ \A u \in Tasks : task[u].at = "none")
      BY <2>1 DEF Webcam!NoThread, Webcam!Busy
    <3>2. Alone' => Alone
      BY <1>2, <3>1 DEF Alone, Webcam!OpenDrawer, Webcam!CanClick
    <3> QED
      BY <1>2, <2>1, <3>1, <3>2
        DEF Webcam!OpenDrawer, Webcam!CanClick, Webcam!NoThread, Webcam!Busy,
           Webcam!clickKeeps, Webcam!captureVars, WebcamInv, Alone, TaskPlaces, At,
           Webcam!Idle
  <2>2. CASE Webcam!Begins("start", FALSE, FALSE)
    <3>1. TaskTypes /\ "start" \in Steps /\ FALSE \in BOOLEAN /\ FALSE \in BOOLEAN
      BY DEF Steps, WebcamInv
    <3>2. PICK t \in Tasks :
              /\ task[t].at = "none"
              /\ Others(t)
              /\ task'[t] = [at |-> "start", closes |-> FALSE, starts |-> FALSE]
      BY <2>2, Begun DEF Steps, WebcamInv
    <3>3. TaskTypes' /\ spoiled' = (spoiled \/ Webcam!Busy)
      BY <2>2, Begun DEF Steps, WebcamInv
    <3>4. ~spoiled' => ~spoiled /\ \A u \in Tasks : task[u].at = "none"
      BY <3>3 DEF Webcam!Busy
    <3>5. Alone' =>
              Alone /\ camera \notin {"init", "failed"} /\ (camera = "run" => capturing)
      BY <1>2, <3>4 DEF Alone, Webcam!OpenDrawer, Webcam!CanClick, WebcamInv,
         CameraTasks, At
    <3>6. task' # task
      BY <3>2
    <3>7. /\ camera' = camera /\ capturing' = capturing
          /\ marker' = TRUE /\ visible' = TRUE
          /\ (Alone' => ~capturing)
      BY <1>2, <3>6 DEF Webcam!OpenDrawer, Webcam!clickKeeps, Webcam!captureVars,
         Webcam!NoThread
    <3>8. Alone' => camera \in {"none", "ended"}
      BY <3>5, <3>7 DEF WebcamInv, WebcamTypes
    <3>9. Alone' => \A u \in Tasks : u # t => task'[u].at = "none"
      BY <3>2, <3>4 DEF Others, Alone
    <3>10. task'[t].at = "start" /\ task'[t].starts = FALSE
      BY <3>2
    <3> QED
      BY <3>7, <3>8, <3>9, <3>10 DEF TaskPlaces
  <2> QED
    BY <1>2, <2>1, <2>2 DEF Webcam!OpenDrawer, Webcam!NoThread
<1>3. ASSUME Webcam!CloseDrawer PROVE TaskPlaces'
  <2>1. CASE ~capturing /\ Webcam!NoThread
    <3>1. task' = task /\ (~spoiled' =>
              ~spoiled /\ \A u \in Tasks : task[u].at = "none")
      BY <2>1 DEF Webcam!NoThread, Webcam!Busy
    <3>2. Alone' => Alone
      BY <1>3, <3>1 DEF Alone, Webcam!CloseDrawer, Webcam!CanClick
    <3> QED
      BY <1>3, <2>1, <3>1, <3>2
        DEF Webcam!CloseDrawer, Webcam!CanClick, Webcam!NoThread, Webcam!Busy,
           Webcam!clickKeeps, Webcam!captureVars, WebcamInv, Alone, TaskPlaces, At,
           Webcam!Idle
  <2>2. CASE Webcam!Begins("stop", TRUE, FALSE)
    <3>1. TaskTypes /\ "stop" \in Steps /\ TRUE \in BOOLEAN /\ FALSE \in BOOLEAN
      BY DEF Steps, WebcamInv
    <3>2. PICK t \in Tasks :
              /\ task[t].at = "none"
              /\ Others(t)
              /\ task'[t] = [at |-> "stop", closes |-> TRUE, starts |-> FALSE]
      BY <2>2, Begun DEF Steps, WebcamInv
    <3>3. TaskTypes' /\ spoiled' = (spoiled \/ Webcam!Busy)
      BY <2>2, Begun DEF Steps, WebcamInv
    <3>4. ~spoiled' => ~spoiled /\ \A u \in Tasks : task[u].at = "none"
      BY <3>3 DEF Webcam!Busy
    <3>5. Alone' =>
              Alone /\ camera \notin {"init", "failed"} /\ (camera = "run" => capturing)
      BY <1>3, <3>4 DEF Alone, Webcam!CloseDrawer, Webcam!CanClick, WebcamInv,
         CameraTasks, At
    <3> QED
      BY <1>3, <2>2, <3>2, <3>3, <3>4, <3>5
        DEF Webcam!CloseDrawer, Webcam!CanClick, Webcam!NoThread, Webcam!Busy,
           Webcam!clickKeeps, Webcam!captureVars, WebcamInv, Others, Alone,
           TaskPlaces, At, Webcam!Idle
  <2> QED
    BY <1>3, <2>1, <2>2 DEF Webcam!CloseDrawer, Webcam!NoThread
<1>4. ASSUME Webcam!PollTakes PROVE TaskPlaces'
  BY <1>4 DEF Webcam!PollTakes, Webcam!CanClick, Webcam!pollKeeps, Webcam!savedVars,
     Webcam!uiVars, WebcamInv, Alone, TaskPlaces, At, Webcam!Idle
<1>5. ASSUME Webcam!PollClears PROVE TaskPlaces'
  BY <1>5 DEF Webcam!PollClears, Webcam!pollKeeps, Webcam!savedVars, Webcam!uiVars,
     WebcamInv, WebcamTypes, CameraPlaces, Alone, TaskPlaces, At, Webcam!Idle
<1>6. ASSUME Webcam!Exit PROVE TaskPlaces'
  BY <1>6 DEF Webcam!Exit, Webcam!CanClick, Webcam!exitKeeps, Webcam!savedVars,
     Webcam!uiVars, WebcamInv, Alone, TaskPlaces, At, Webcam!Idle
<1>7. ASSUME Webcam!Exited PROVE TaskPlaces'
  BY <1>7 DEF Webcam!Exited, Webcam!exitKeeps, Webcam!savedVars, Webcam!uiVars,
     Webcam!Idle, WebcamInv, Alone, TaskPlaces, At, Webcam!Idle
<1>8. ASSUME Webcam!Crash PROVE TaskPlaces'
  BY <1>8 DEF Webcam!Crash, Webcam!exitKeeps, Webcam!savedVars, Webcam!uiVars,
     Webcam!Idle, WebcamInv, Alone, TaskPlaces, At, Webcam!Idle
<1>9. ASSUME NEW d \in Cameras, Webcam!PickCamera(d) PROVE TaskPlaces'
  <2>1. CASE UNCHANGED task
    BY <1>9, <2>1 DEF Webcam!PickCamera, Webcam!CanClick, Webcam!NoThread,
       Webcam!Busy, Webcam!clickKeeps, Webcam!captureVars, Webcam!Begins, WebcamInv,
       Alone, TaskPlaces, At, Webcam!Idle
  <2>2. CASE capturing /\ Webcam!Begins("stop", FALSE, visible)
    <3>1. TaskTypes /\ "stop" \in Steps /\ FALSE \in BOOLEAN /\ visible \in BOOLEAN
      BY DEF Steps, WebcamInv, WebcamFlags
    <3>2. PICK t \in Tasks :
              /\ task[t].at = "none"
              /\ Others(t)
              /\ task'[t] = [at |-> "stop", closes |-> FALSE, starts |-> visible]
      BY <2>2, <3>1, Begun, Zenon
    <3>3. TaskTypes' /\ spoiled' = (spoiled \/ Webcam!Busy)
      BY <2>2, <3>1, Begun, Zenon
    <3>4. ~spoiled' => ~spoiled /\ \A u \in Tasks : task[u].at = "none"
      BY <3>3 DEF Webcam!Busy
    <3> QED
      BY <1>9, <2>2, <3>2, <3>3, <3>4
        DEF Webcam!PickCamera, Webcam!CanClick, Webcam!NoThread, Webcam!Busy,
           Webcam!clickKeeps, Webcam!captureVars, WebcamInv, Others, Alone,
           TaskPlaces, At, Webcam!Idle
  <2>3. CASE ~capturing /\ visible /\ Webcam!Begins("mark", FALSE, TRUE)
    <3>1. TaskTypes /\ "mark" \in Steps /\ FALSE \in BOOLEAN /\ TRUE \in BOOLEAN
      BY DEF Steps, WebcamInv
    <3>2. PICK t \in Tasks :
              /\ task[t].at = "none"
              /\ Others(t)
              /\ task'[t] = [at |-> "mark", closes |-> FALSE, starts |-> TRUE]
      BY <2>3, <3>1, Begun, Zenon
    <3>3. TaskTypes' /\ spoiled' = (spoiled \/ Webcam!Busy)
      BY <2>3, <3>1, Begun, Zenon
    <3>4. ~spoiled' => ~spoiled /\ \A u \in Tasks : task[u].at = "none"
      BY <3>3 DEF Webcam!Busy
    <3> QED
      BY <1>9, <2>3, <3>2, <3>3, <3>4
        DEF Webcam!PickCamera, Webcam!CanClick, Webcam!NoThread, Webcam!Busy,
           Webcam!clickKeeps, Webcam!captureVars, WebcamInv, Others, WebcamTypes,
           Alone, TaskPlaces, CameraTasks, At, Webcam!Idle
  <2> QED
    BY <1>9, <2>1, <2>2, <2>3 DEF Webcam!PickCamera, Webcam!NoThread
<1>10. ASSUME NEW t \in Tasks, Webcam!TaskStops(t) PROVE TaskPlaces'
  BY <1>10 DEF Webcam!TaskStops, Webcam!Goes, Webcam!taskKeeps, Webcam!savedVars,
     Webcam!uiVars, Webcam!captureVars, Webcam!Idle, WebcamInv, Alone, TaskPlaces,
     At, Webcam!Idle
<1>11. ASSUME NEW t \in Tasks, Webcam!TaskJoins(t) PROVE TaskPlaces'
  BY <1>11 DEF Webcam!TaskJoins, Webcam!Goes, Webcam!taskKeeps, Webcam!savedVars,
     Webcam!uiVars, Webcam!captureVars, Webcam!Idle, WebcamInv, Alone, OneTask,
     TaskPlaces, At, Webcam!Idle
<1>12. ASSUME NEW t \in Tasks, Webcam!TaskClears(t) PROVE TaskPlaces'
  BY <1>12 DEF Webcam!TaskClears, Webcam!Goes, Webcam!taskKeeps, Webcam!savedVars,
     Webcam!uiVars, Webcam!captureVars, Webcam!Idle, WebcamInv, CameraPlaces, Alone,
     OneTask, TaskPlaces, At, Webcam!Idle
<1>13. ASSUME NEW t \in Tasks, Webcam!TaskMarks(t) PROVE TaskPlaces'
  BY <1>13 DEF Webcam!TaskMarks, Webcam!Goes, Webcam!taskKeeps, Webcam!savedVars,
     Webcam!uiVars, Webcam!captureVars, Webcam!Idle, WebcamInv, Alone, TaskPlaces,
     At, Webcam!Idle
<1>14. ASSUME NEW t \in Tasks, Webcam!TaskStarts(t) PROVE TaskPlaces'
  BY <1>14 DEF Webcam!TaskStarts, Webcam!Goes, Webcam!taskKeeps, Webcam!savedVars,
     Webcam!uiVars, Webcam!captureVars, Webcam!Idle, WebcamInv, Alone, TaskPlaces,
     At, Webcam!Idle
<1>15. ASSUME NEW t \in Tasks, Webcam!TaskSpawns(t) PROVE TaskPlaces'
  <2>1. CASE camera = "none"
    <3>1. /\ TaskTypes' /\ Others(t)
          /\ task'[t].at = "wait" /\ task'[t].starts = task[t].starts
          /\ task'[t].closes = task[t].closes
      BY <1>15, <2>1, Moved DEF Steps, WebcamInv, Webcam!TaskSpawns, Webcam!Goes
    <3> QED
      BY <1>15, <2>1, <3>1
        DEF Webcam!TaskSpawns, Webcam!Goes, Webcam!taskKeeps, Webcam!savedVars,
           Webcam!uiVars, Webcam!captureVars, Webcam!Idle, WebcamInv, Others, Alone,
           OneTask, TaskPlaces, At, Webcam!Idle
  <2>2. CASE camera # "none"
    <3>1. /\ app' = "aborted" /\ task' = [u \in Tasks |-> Webcam!Idle]
          /\ UNCHANGED <<camera, shown>>
      BY <1>15, <2>2 DEF Webcam!TaskSpawns
    <3> QED
      BY <1>15, <3>1 DEF Webcam!TaskSpawns, Webcam!Goes, Webcam!taskKeeps,
         Webcam!savedVars, Webcam!uiVars, Webcam!captureVars, Webcam!Idle,
         WebcamInv, Alone, TaskPlaces, At, Webcam!Idle
  <2> QED
    BY <2>1, <2>2
<1>16. ASSUME NEW t \in Tasks, Webcam!TaskLearns(t) PROVE TaskPlaces'
  BY <1>16 DEF Webcam!TaskLearns, Webcam!Goes, Webcam!taskKeeps, Webcam!savedVars,
     Webcam!uiVars, Webcam!captureVars, Webcam!Idle, WebcamInv, TaskTypes, Alone,
     TaskPlaces, At, Webcam!Idle
<1>17. ASSUME NEW t \in Tasks, Webcam!TaskFails(t) PROVE TaskPlaces'
  BY <1>17 DEF Webcam!TaskFails, Webcam!Goes, Webcam!taskKeeps, Webcam!savedVars,
     Webcam!uiVars, Webcam!captureVars, Webcam!Idle, WebcamInv, Alone, OneTask,
     TaskPlaces, At, Webcam!Idle
<1>18. ASSUME Webcam!WorkerRuns PROVE TaskPlaces'
  BY <1>18 DEF Webcam!WorkerRuns, Webcam!workerKeeps, Webcam!savedVars,
     Webcam!uiVars, Webcam!ghostVars, WebcamInv, Alone, TaskPlaces, At, Webcam!Idle
<1>19. ASSUME Webcam!WorkerFails PROVE TaskPlaces'
  BY <1>19 DEF Webcam!WorkerFails, Webcam!workerKeeps, Webcam!savedVars,
     Webcam!uiVars, Webcam!ghostVars, WebcamInv, Alone, TaskPlaces, At, Webcam!Idle
<1>20. ASSUME Webcam!WorkerCaptures PROVE TaskPlaces'
  BY <1>20 DEF Webcam!WorkerCaptures, Webcam!workerKeeps, Webcam!savedVars,
     Webcam!uiVars, Webcam!ghostVars, WebcamInv, Alone, TaskPlaces, At, Webcam!Idle
<1>21. ASSUME Webcam!WorkerBreaks PROVE TaskPlaces'
  BY <1>21 DEF Webcam!WorkerBreaks, Webcam!workerKeeps, Webcam!savedVars,
     Webcam!uiVars, Webcam!ghostVars, WebcamInv, Alone, TaskPlaces, At, Webcam!Idle
<1>22. ASSUME Webcam!WorkerEnds PROVE TaskPlaces'
  BY <1>22 DEF Webcam!WorkerEnds, Webcam!workerKeeps, Webcam!savedVars,
     Webcam!uiVars, Webcam!ghostVars, WebcamInv, Alone, TaskPlaces, At, Webcam!Idle
<1>23. CASE UNCHANGED webcamV
  BY <1>23 DEF webcamV, WebcamInv, Alone, TaskPlaces, At, Webcam!Idle
<1> QED
  BY <1>1, <1>2, <1>3, <1>4, <1>5, <1>6, <1>7, <1>8, <1>9, <1>10, <1>11, <1>12,
     <1>13, <1>14, <1>15, <1>16, <1>17, <1>18, <1>19, <1>20, <1>21, <1>22, <1>23
    DEF Webcam!Next, Webcam!TaskStep

\* The invariant's states are safe.
LEMMA WebcamHolds ==
    ASSUME WebcamInv
    PROVE  ClosedMeansOff
  BY DEF WebcamInv, CameraTasks, Alone, At, ClosedMeansOff, Webcam!ClosedMeansOff,
     Webcam!Busy

\* They include the initial ones.
LEMMA WebcamInitially ==
    ASSUME Webcam!Init
    PROVE  WebcamInv
  BY NobodyAssumption
    DEF Webcam!Init, WebcamInv, WebcamTypes, TaskTypes, WebcamFlags, Saved, Alone,
       OneTask, CameraPlaces, CameraTasks, TaskPlaces, At, Webcam!Idle,
       Webcam!Devices

\* The launch after an unproven crash finds the guard.
LEMMA GuardHolds ==
    ASSUME WebcamInv, Webcam!Next \/ UNCHANGED webcamV
    PROVE  (unproven /\ app' = "up") => ~visible'
<1> USE DEF WebcamInv, Saved
<1>1. ASSUME unproven, app' = "up" PROVE ~visible'
  <2>1. app = "down" /\ (savedOpen => marker)
    BY <1>1
  <2>2. Webcam!Launch
    BY <1>1, <2>1 DEF Webcam!Next, webcamV, Webcam!OpenDrawer, Webcam!CloseDrawer,
       Webcam!PollTakes, Webcam!PollClears, Webcam!CanClick, Webcam!Exit,
       Webcam!Exited, Webcam!Crash, Webcam!PickCamera
  <2> QED
    BY <2>1, <2>2 DEF Webcam!Launch
<1> QED
  BY <1>1

(***************************************************************************)
(* The audio queue.                                                        *)
(***************************************************************************)

\* A queue that had a frame appended is a queue, and not empty.
LEMMA AppendedQueue ==
    ASSUME NEW q \in Seq(Sizes), NEW size \in Sizes
    PROVE  Append(q, size) \in Seq(Sizes) /\ Append(q, size) # <<>>
<1>1. Append(q, size) \in Seq(Sizes) /\ Len(Append(q, size)) = Len(q) + 1
  OBVIOUS
<1>2. Len(<<>>) = 0 /\ Len(q) \in Nat
  OBVIOUS
<1> QED
  BY <1>1, <1>2

\* A queue that is not empty is its front frame and the frames behind it.
LEMMA FrontOfQueue ==
    ASSUME NEW q \in Seq(Sizes), q # <<>>
    PROVE  Head(q) \in Sizes /\ Tail(q) \in Seq(Sizes)
  OBVIOUS

LEMMA EmptyQueue == <<>> \in Seq(Sizes)
  OBVIOUS

\* The types of the queue and its counters, and those of the flags.
QueueTypes ==
    /\ queue \in Seq(Sizes) /\ Len(queue) <= MaxFrames
    /\ read_offset \in Nat
    /\ queued_bytes \in 0 .. Wrap - 1
    /\ left \in 0 .. BufferLen
AudioFlags ==
    primed \in BOOLEAN /\ muted \in BOOLEAN /\ muting \in BOOLEAN /\ open \in BOOLEAN

LEMMA AudioTypesTogether == TypeOK <=> QueueTypes /\ AudioFlags
  BY DEF TypeOK, QueueTypes, AudioFlags

\* Every step keeps those of the flags.
LEMMA AudioFlagsKept ==
    ASSUME AudioFlags, [Next]_vars
    PROVE  AudioFlags'
<1> USE DEF AudioFlags
<1>1. ASSUME NEW size \in Sizes, Submit(size) PROVE AudioFlags'
  BY <1>1 DEF Submit
<1>2. ASSUME NEW m \in BOOLEAN, SetMuted(m) PROVE AudioFlags'
  BY <1>2 DEF SetMuted
<1>3. ASSUME MuteClears \/ Shutdown PROVE AudioFlags'
  BY <1>3 DEF MuteClears, Shutdown, Cleared
<1>4. ASSUME CallbackStarts \/ CallbackUnderruns PROVE AudioFlags'
  BY <1>4 DEF CallbackStarts, CallbackUnderruns
<1>5. ASSUME CallbackCopies PROVE AudioFlags'
  <2>1. UNCHANGED <<primed, muted, muting, open>>
    BY <1>5 DEF CallbackCopies
  <2> QED
    BY <2>1
<1>6. CASE UNCHANGED vars
  BY <1>6 DEF vars
<1> QED
  BY <1>1, <1>2, <1>3, <1>4, <1>5, <1>6 DEF Next

\* The queue keeps its limit, and the counter its width.
LEMMA QueueTypesKept ==
    ASSUME QueueTypes, [Next]_vars
    PROVE  QueueTypes'
<1> USE SizesAssumption, BoundsAssumption DEF QueueTypes
<1>1. ASSUME NEW a \in Int PROVE a % Wrap \in 0 .. Wrap - 1
  OBVIOUS
<1>2. ASSUME NEW size \in Sizes, Submit(size) PROVE QueueTypes'
  <2> DEFINE kept == IF Len(queue) = MaxFrames THEN Tail(queue) ELSE queue
             dropped == IF Len(queue) = MaxFrames THEN Head(queue) ELSE 0
  <2>1. /\ queue' = Append(kept, size)
        /\ queued_bytes' = (queued_bytes + size - dropped) % Wrap
        /\ UNCHANGED <<read_offset, left>>
    BY <1>2 DEF Submit
  <2>2. kept \in Seq(Sizes) /\ Len(kept) <= MaxFrames - 1 /\ dropped \in Nat
    <3>1. CASE Len(queue) = MaxFrames
      <4>1. queue # <<>>
        BY <3>1
      <4>2. Tail(queue) \in Seq(Sizes) /\ Head(queue) \in Nat
        BY <4>1, FrontOfQueue
      <4>3. Len(Tail(queue)) = Len(queue) - 1
        BY <4>1
      <4> QED
        BY <3>1, <4>2, <4>3
    <3>2. CASE Len(queue) # MaxFrames
      BY <3>2
    <3> QED
      BY <3>1, <3>2
  <2> HIDE DEF kept, dropped
  <2>3. Append(kept, size) \in Seq(Sizes) /\ Len(Append(kept, size)) <= MaxFrames
    BY <2>2
  <2>4. queued_bytes + size - dropped \in Int
    BY <2>2
  <2> QED
    BY <1>1, <2>1, <2>3, <2>4
<1>3. ASSUME NEW m \in BOOLEAN, SetMuted(m) PROVE QueueTypes'
  BY <1>3 DEF SetMuted
<1>4. ASSUME MuteClears \/ Shutdown PROVE QueueTypes'
  <2>1. Len(<<>>) = 0
    OBVIOUS
  <2>2. /\ queue' = <<>> /\ read_offset' = 0 /\ queued_bytes' = 0 /\ left' = left
    BY <1>4 DEF MuteClears, Shutdown, Cleared
  <2> QED
    BY <2>1, <2>2, EmptyQueue
<1>5. ASSUME CallbackStarts PROVE QueueTypes'
  BY <1>5 DEF CallbackStarts
<1>6. ASSUME CallbackCopies PROVE QueueTypes'
  <2> DEFINE available == Head(queue) - read_offset
             copied == IF available < left THEN available ELSE left
             emptied == read_offset + copied >= Head(queue)
  <2>1. /\ queue # <<>> /\ available >= 0
        /\ queue' = IF emptied THEN Tail(queue) ELSE queue
        /\ read_offset' = IF emptied THEN 0 ELSE read_offset + copied
        /\ queued_bytes' = (queued_bytes - copied) % Wrap
        /\ left' = left - copied
    BY <1>6 DEF CallbackCopies
  <2>2. Head(queue) \in Nat /\ Tail(queue) \in Seq(Sizes) /\ Len(Tail(queue)) <= MaxFrames
    <3>1. Len(Tail(queue)) = Len(queue) - 1
      BY <2>1
    <3>2. Head(queue) \in Nat /\ Tail(queue) \in Seq(Sizes)
      BY <2>1, FrontOfQueue
    <3> QED
      BY <3>1, <3>2
  <2>3. copied \in Nat /\ copied <= left
    BY <2>1, <2>2
  <2> HIDE DEF copied, emptied
  <2>4. queued_bytes - copied \in Int
    BY <2>3
  <2>5. queue' \in Seq(Sizes) /\ Len(queue') <= MaxFrames
    BY <2>1, <2>2
  <2>6. read_offset' \in Nat
    BY <2>1, <2>3
  <2>7. left' \in 0 .. BufferLen
    BY <2>1, <2>3
  <2>8. queued_bytes' \in 0 .. Wrap - 1
    BY <1>1, <2>1, <2>4
  <2> QED
    BY <2>5, <2>6, <2>7, <2>8
<1>7. ASSUME CallbackUnderruns PROVE QueueTypes'
  BY <1>7 DEF CallbackUnderruns
<1>8. CASE UNCHANGED vars
  BY <1>8 DEF vars
<1> QED
  BY <1>2, <1>3, <1>4, <1>5, <1>6, <1>7, <1>8 DEF Next

\* What remains is what the frames add up to, less what has been read.
LEMMA RemainingIs == Remaining = Total(queue) - read_offset
  BY DEF Remaining, Total

LEMMA SizesAdd ==
    ASSUME NEW q \in Seq(Sizes)
    PROVE  q \in Seq(Int) /\ q \in Seq(Nat) /\ Total(q) \in Nat
<1> DEFINE n == Len(q)
<1>1. n \in Nat /\ q \in [1 .. n -> Sizes]
  OBVIOUS
<1> HIDE DEF n
<1>2. q \in [1 .. n -> Nat] /\ q \in [1 .. n -> Int]
  <2>1. \A x \in Sizes : x \in Nat /\ x \in Int
    BY SizesAssumption
  <2> QED
    BY <1>1, <2>1
<1>3. q \in Seq(Nat) /\ q \in Seq(Int)
  BY <1>1, <1>2, SeqDef
<1> QED
  BY <1>3, TotalOfNats

\* A counter that goes by what the sum goes by stays its remainder.
LEMMA CounterFollows ==
    ASSUME NEW sum \in Int, NEW d \in Int
    PROVE  ((sum % Wrap) + d) % Wrap = (sum + d) % Wrap
<1>1. Wrap \in Nat \ {0}
  BY BoundsAssumption
<1> QED
  BY <1>1, RestOfSum

\* What happens to the queue and to queued_bytes_ is the same: a frame comes, with the
\* oldest one going or not; bytes are copied; both are emptied.
LEMMA BytesMatchKept ==
    ASSUME QueueTypes, BytesMatch, [Next]_vars
    PROVE  BytesMatch'
<1> DEFINE R == Total(queue) - read_offset
<1>1. /\ queue \in Seq(Int) /\ Total(queue) \in Int /\ read_offset \in Int /\ R \in Int
      /\ queued_bytes = R % Wrap
  BY SizesAdd, RemainingIs DEF BytesMatch, QueueTypes
<1>2. SUFFICES queued_bytes' = (Total(queue') - read_offset') % Wrap
  BY DEF BytesMatch, Remaining, Total
<1>3. ASSUME NEW size \in Sizes, Submit(size)
      PROVE  queued_bytes' = (Total(queue') - read_offset') % Wrap
  <2> DEFINE kept == IF Len(queue) = MaxFrames THEN Tail(queue) ELSE queue
             dropped == IF Len(queue) = MaxFrames THEN Head(queue) ELSE 0
             d == size - dropped
  <2>1. /\ queue' = Append(kept, size) /\ read_offset' = read_offset
        /\ queued_bytes' = (queued_bytes + size - dropped) % Wrap
    BY <1>3 DEF Submit
  <2>2. kept \in Seq(Int) /\ dropped \in Int /\ Total(kept) = Total(queue) - dropped
    <3>1. CASE Len(queue) = MaxFrames
      <4>1. queue # <<>>
        BY <3>1, BoundsAssumption
      <4>2. Tail(queue) \in Seq(Int)
        BY <1>1, <4>1
      <4>3. Total(Tail(queue)) = Total(queue) - Head(queue) /\ Head(queue) \in Int
        BY <1>1, <4>1, TotalOfTail
      <4> QED
        BY <3>1, <4>2, <4>3
    <3>2. CASE Len(queue) # MaxFrames
      BY <1>1, <3>2
    <3> QED
      BY <3>1, <3>2
  <2>3. size \in Int
    BY SizesAssumption
  <2> HIDE DEF kept, dropped
  <2>4. Total(queue') = Total(queue) - dropped + size
    <3>1. Total(Append(kept, size)) = Total(kept) + size
      BY <2>2, <2>3, TotalOfAppend
    <3> QED
      BY <2>1, <2>2, <3>1
  <2> HIDE DEF R
  <2>5. d \in Int /\ ((R % Wrap) + d) % Wrap = (R + d) % Wrap
    BY <1>1, <2>2, <2>3, CounterFollows
  <2>6. queued_bytes + size - dropped = (R % Wrap) + d
    <3>1. R % Wrap \in Int
      BY <1>1, BoundsAssumption
    <3> QED
      BY <1>1, <2>2, <2>3, <3>1
  <2>7. Total(queue') - read_offset' = R + d
    BY <1>1, <2>1, <2>2, <2>3, <2>4 DEF R
  <2> QED
    BY <2>1, <2>5, <2>6, <2>7
<1>4. ASSUME Cleared  PROVE queued_bytes' = (Total(queue') - read_offset') % Wrap
  <2>1. 0 % Wrap = 0 /\ 0 - 0 = 0
    BY BoundsAssumption
  <2> QED
    BY <1>4, <2>1, TotalOfNone DEF Cleared
<1>5. ASSUME CallbackCopies
      PROVE  queued_bytes' = (Total(queue') - read_offset') % Wrap
  <2> DEFINE available == Head(queue) - read_offset
             copied == IF available < left THEN available ELSE left
             emptied == read_offset + copied >= Head(queue)
             d == -copied
  <2>1. /\ queue # <<>> /\ available >= 0
        /\ queue' = IF emptied THEN Tail(queue) ELSE queue
        /\ read_offset' = IF emptied THEN 0 ELSE read_offset + copied
        /\ queued_bytes' = (queued_bytes - copied) % Wrap
    BY <1>5 DEF CallbackCopies
  <2>2. Total(Tail(queue)) = Total(queue) - Head(queue) /\ Head(queue) \in Int
    BY <1>1, <2>1, TotalOfTail
  <2>3. /\ copied \in Int /\ copied <= Head(queue) - read_offset
        /\ emptied => copied = Head(queue) - read_offset
    <3>1. read_offset \in Nat /\ left \in Int
      BY <1>1, BoundsAssumption DEF QueueTypes
    <3>2. \A h, r, l, c \in Int :
             c = (IF h - r < l THEN h - r ELSE l) =>
                c \in Int /\ c <= h - r /\ (r + c >= h => c = h - r)
      OBVIOUS
    <3>3. copied \in Int
      BY <2>2, <3>1
    <3> HIDE DEF emptied
    <3>4. copied <= Head(queue) - read_offset
      BY <2>2, <3>1, <3>2, <3>3
    <3>5. read_offset + copied >= Head(queue) => copied = Head(queue) - read_offset
      BY <2>2, <3>1, <3>2, <3>3
    <3> QED
      BY <3>3, <3>4, <3>5 DEF emptied
  <2> HIDE DEF copied, emptied
  <2>4. Total(queue') - read_offset' = R + d
    <3>1. CASE emptied
      <4>1. Total(queue') = Total(queue) - Head(queue) /\ read_offset' = 0
        BY <2>1, <2>2, <3>1
      <4>2. copied = Head(queue) - read_offset
        BY <2>3, <3>1
      <4>3. Total(queue) \in Int /\ Head(queue) \in Int /\ read_offset \in Int
        BY <1>1, <2>2
      <4>4. \A t, h, r \in Int : t - h - 0 = t - r + (-(h - r))
        OBVIOUS
      <4> QED
        BY <4>1, <4>2, <4>3, <4>4
    <3>2. CASE ~emptied
      <4>1. queue' = queue /\ read_offset' = read_offset + copied
        BY <2>1, <3>2
      <4> QED
        BY <1>1, <2>3, <4>1
    <3> QED
      BY <3>1, <3>2
  <2> HIDE DEF R
  <2>5. d \in Int /\ ((R % Wrap) + d) % Wrap = (R + d) % Wrap
    BY <1>1, <2>3, CounterFollows
  <2>6. queued_bytes - copied = (R % Wrap) + d
    <3>1. R % Wrap \in Int
      BY <1>1, BoundsAssumption
    <3> QED
      BY <1>1, <2>3, <3>1
  <2> QED
    BY <2>1, <2>4, <2>5, <2>6
<1>6. ASSUME UNCHANGED <<queue, read_offset, queued_bytes>>
      PROVE  queued_bytes' = (Total(queue') - read_offset') % Wrap
  BY <1>1, <1>6
<1> HIDE DEF R
<1> QED
  BY <1>3, <1>4, <1>5, <1>6
    DEF Next, SetMuted, MuteClears, Shutdown, CallbackStarts, CallbackUnderruns, vars

(***************************************************************************)
(* The theorems.                                                           *)
(***************************************************************************)

\* Every behaviour of MCReceivers keeps Cast's invariant.
LEMMA CastAlways == ReceiversSpec => []CastInv
<1>1. ReceiversInit => CastInv
  BY CastInitially DEF ReceiversInit
<1>2. CastInv /\ [ReceiversNext]_receiverVars => CastInv'
  <2> SUFFICES ASSUME CastInv, Cast!Next \/ UNCHANGED castV
               PROVE  CastInv'
    BY DEF ReceiversNext, receiverVars
  <2>1. /\ CastTypes /\ CastFlags /\ CastPlaces
        /\ OneAccepted /\ OpenOwned /\ SslOwned /\ Cast!StatusTrue
    BY DEF CastInv
  <2>2. CastTypes' /\ CastFlags' /\ CastPlaces'
    BY <2>1, CastTypesKept, CastFlagsKept, CastPlacesKept
  <2>3. OneAccepted' /\ OpenOwned' /\ SslOwned'
    BY <2>1, AcceptedKept, OpenKept, SslKept
  <2>4. Cast!StatusTrue'
    BY <2>1, StatusKept
  <2> QED
    BY <2>2, <2>3, <2>4 DEF CastInv
<1> QED
  BY <1>1, <1>2, PTL DEF ReceiversSpec

\* And the webcam's.
LEMMA WebcamAlways == ReceiversSpec => []WebcamInv
<1>1. ReceiversInit => WebcamInv
  BY WebcamInitially DEF ReceiversInit
<1>2. WebcamInv /\ [ReceiversNext]_receiverVars => WebcamInv'
  <2> SUFFICES ASSUME WebcamInv, Webcam!Next \/ UNCHANGED webcamV
               PROVE  WebcamInv'
    BY DEF ReceiversNext, receiverVars
  <2>1. WebcamTypes' /\ TaskTypes' /\ WebcamFlags'
    BY WebcamTypesKept, TaskTypesKept, WebcamFlagsKept
  <2>2. Saved' /\ OneTask'
    BY SavedKept, OneTaskKept
  <2>3. CameraPlaces' /\ CameraTasks' /\ TaskPlaces'
    BY CameraPlacesKept, CameraTasksKept, TaskPlacesKept
  <2> QED
    BY <2>1, <2>2, <2>3 DEF WebcamInv
<1> QED
  BY <1>1, <1>2, PTL DEF ReceiversSpec

\* And the audio queue its types.
LEMMA AudioAlways == ReceiversSpec => []TypeOK
<1>1. ReceiversInit => QueueTypes /\ AudioFlags
  <2>1. Len(<<>>) = 0
    OBVIOUS
  <2> SUFFICES ASSUME Init PROVE QueueTypes /\ AudioFlags
    BY DEF ReceiversInit
  <2>2. QueueTypes
    BY <2>1, EmptyQueue, BoundsAssumption DEF Init, QueueTypes
  <2>3. AudioFlags
    BY DEF Init, AudioFlags
  <2> QED
    BY <2>2, <2>3
<1>2. QueueTypes /\ AudioFlags /\ [ReceiversNext]_receiverVars
      => QueueTypes' /\ AudioFlags'
  BY QueueTypesKept, AudioFlagsKept DEF ReceiversNext, receiverVars
<1> QED
  BY <1>1, <1>2, AudioTypesTogether, PTL DEF ReceiversSpec

LEMMA QueueInitially == Init => QueueTypes /\ BytesMatch
<1> SUFFICES ASSUME Init PROVE QueueTypes /\ BytesMatch
  OBVIOUS
<1>1. Len(<<>>) = 0 /\ 0 % Wrap = 0 /\ 0 - 0 = 0
  BY BoundsAssumption
<1>2. QueueTypes
  BY <1>1, EmptyQueue, BoundsAssumption DEF Init, QueueTypes
<1>3. BytesMatch
  BY <1>1, RemainingIs, TotalOfNone DEF Init, BytesMatch
<1> QED
  BY <1>2, <1>3

\* queued_bytes_ is the bytes of the frames that are queued less those that were read of
\* the front one, as a size_t holds them, whatever the frames' sizes and the limits.
THEOREM BytesCounted == ReceiversSpec => []BytesMatch
<1>1. ReceiversInit => QueueTypes /\ BytesMatch
  BY QueueInitially DEF ReceiversInit
<1>2. QueueTypes /\ BytesMatch /\ [ReceiversNext]_receiverVars
      => QueueTypes' /\ BytesMatch'
  BY QueueTypesKept, BytesMatchKept DEF ReceiversNext, receiverVars
<1> QED
  BY <1>1, <1>2, PTL DEF ReceiversSpec

\* No frame is as many times another's size as the queue holds frames.
Comparable == \A a, b \in Sizes : a <= MaxFrames * b

\* Where a frame was being played, or one that has been dropped since: the offset is in
\* some frame, and no more than all that is queued.
OffsetBounded ==
    /\ read_offset = 0 \/ \E s \in Sizes : read_offset < s
    /\ read_offset <= Total(queue)

LEMMA OffsetBoundedKept ==
    ASSUME Comparable, QueueTypes, OffsetBounded, [Next]_vars
    PROVE  OffsetBounded'
<1>1. /\ queue \in Seq(Sizes) /\ queue \in Seq(Int) /\ Total(queue) \in Nat
      /\ read_offset \in Nat /\ left \in Nat /\ Len(queue) <= MaxFrames
  <2>1. left \in Nat
    BY BoundsAssumption DEF QueueTypes
  <2> QED
    BY <2>1, SizesAdd DEF QueueTypes
<1>2. \A x \in Sizes : x \in Nat /\ x > 0
  BY SizesAssumption
<1>3. MaxFrames \in Nat \ {0}
  BY BoundsAssumption
<1>4. ASSUME NEW size \in Sizes, Submit(size)  PROVE OffsetBounded'
  <2>1. read_offset' = read_offset
    BY <1>4 DEF Submit
  <2>2. SUFFICES read_offset <= Total(queue')
    BY <2>1, Zenon DEF OffsetBounded
  <2>3. CASE Len(queue) # MaxFrames
    <3>1. queue' = Append(queue, size)
      BY <1>4, <2>3 DEF Submit
    <3>2. Total(queue') = Total(queue) + size
      BY <1>1, <1>2, <3>1, TotalOfAppend
    <3> QED
      BY <1>1, <1>2, <3>2 DEF OffsetBounded
  <2>4. CASE Len(queue) = MaxFrames
    <3>1. queue' = Append(Tail(queue), size)
      BY <1>4, <2>4 DEF Submit
    <3>2. queue # <<>>
      BY <1>3, <2>4
    <3>3. Tail(queue) \in Seq(Sizes) /\ Len(Tail(queue)) = MaxFrames - 1
      BY <1>1, <2>4, <3>2
    <3>4. queue' \in Seq(Sizes) /\ Len(queue') = MaxFrames
      BY <1>3, <3>1, <3>3
    <3>5. CASE read_offset = 0
      BY <3>4, <3>5, SizesAdd
    <3>6. CASE read_offset # 0
      <4>1. PICK s \in Sizes : read_offset < s
        BY <3>6 DEF OffsetBounded
      <4>2. PICK m \in Sizes : \A b \in Sizes : m <= b
        <5>1. Sizes # {} /\ Sizes \subseteq Nat
          BY <4>1, <1>2
        <5> QED
          BY <5>1, LeastOfNats
      <4>3. \A k \in 1 .. Len(queue') : queue'[k] >= m
        BY <3>4, <4>2, <1>2
      <4>4. Total(queue') >= MaxFrames * m
        <5>1. queue' \in Seq(Int) /\ m \in Int
          BY <1>2, <3>4, SizesAdd
        <5>2. Total(queue') >= Len(queue') * m
          BY <4>3, <5>1, TotalAtLeast
        <5> QED
          BY <3>4, <5>2
      <4>5. s <= MaxFrames * m
        BY <4>1 DEF Comparable
      <4>6. Total(queue') \in Int /\ MaxFrames * m \in Int /\ s \in Int
        BY <1>2, <1>3, <3>4, SizesAdd
      <4> QED
        BY <1>1, <4>1, <4>4, <4>5, <4>6
    <3> QED
      BY <3>5, <3>6
  <2> QED
    BY <2>3, <2>4
<1>5. ASSUME Cleared  PROVE OffsetBounded'
  BY <1>5, TotalOfNone DEF Cleared, OffsetBounded
<1>6. ASSUME CallbackCopies  PROVE OffsetBounded'
  <2> DEFINE available == Head(queue) - read_offset
             copied == IF available < left THEN available ELSE left
  <2>1. /\ queue # <<>> /\ available >= 0
        /\ queue' = IF read_offset + copied >= Head(queue) THEN Tail(queue) ELSE queue
        /\ read_offset' = IF read_offset + copied >= Head(queue) THEN 0
                          ELSE read_offset + copied
    BY <1>6 DEF CallbackCopies
  <2>2. /\ Head(queue) \in Sizes /\ Tail(queue) \in Seq(Sizes)
        /\ Total(Tail(queue)) = Total(queue) - Head(queue)
    BY <1>1, <2>1, FrontOfQueue, TotalOfTail
  <2>3. copied \in Int
    BY <1>1, <1>2, <2>2
  <2>4. Total(Tail(queue)) \in Nat
    BY <2>2, SizesAdd
  <2> HIDE DEF copied
  <2>5. CASE read_offset + copied >= Head(queue)
    BY <2>1, <2>4, <2>5 DEF OffsetBounded
  <2>6. CASE ~(read_offset + copied >= Head(queue))
    <3>1. queue' = queue /\ read_offset' = read_offset + copied
      BY <2>1, <2>6
    <3>2. read_offset' < Head(queue)
      BY <1>1, <1>2, <2>2, <2>3, <2>6, <3>1
    <3>3. read_offset' <= Total(queue)
      BY <1>1, <1>2, <2>2, <2>3, <2>4, <3>1, <3>2
    <3> QED
      BY <2>2, <3>1, <3>2, <3>3 DEF OffsetBounded
  <2> QED
    BY <2>5, <2>6
<1>7. ASSUME UNCHANGED <<queue, read_offset>>  PROVE OffsetBounded'
  BY <1>7 DEF OffsetBounded
<1> QED
  BY <1>4, <1>5, <1>6, <1>7
    DEF Next, SetMuted, MuteClears, Shutdown, CallbackStarts, CallbackUnderruns, vars

\* Playback starts, and starts again after an underrun, with the cushion that
\* audio_callback() waits for, also after submit() has dropped frames that were half
\* played, unless a frame is as many times the size of another as the queue holds frames
\* (100 in the code).
THEOREM CushionKept ==
    ASSUME Comparable
    PROVE  ReceiversSpec => CushionHeld
<1>1. ReceiversInit => QueueTypes /\ BytesMatch /\ OffsetBounded
  <2>1. Init => OffsetBounded
    BY TotalOfNone DEF Init, OffsetBounded
  <2> QED
    BY <2>1, QueueInitially DEF ReceiversInit
<1>2. QueueTypes /\ BytesMatch /\ OffsetBounded /\ [ReceiversNext]_receiverVars
      => QueueTypes' /\ BytesMatch' /\ OffsetBounded'
  BY QueueTypesKept, BytesMatchKept, OffsetBoundedKept DEF ReceiversNext, receiverVars
<1>3. QueueTypes /\ BytesMatch /\ OffsetBounded /\ [ReceiversNext]_receiverVars
      => [(~primed /\ primed') => Remaining >= Cushion]_vars
  <2> SUFFICES ASSUME QueueTypes, BytesMatch, OffsetBounded, [Next]_vars, ~primed, primed'
               PROVE  Remaining >= Cushion
    BY DEF ReceiversNext, receiverVars
  <2>1. queued_bytes >= Cushion
    BY DEF Next, Submit, SetMuted, MuteClears, Shutdown, Cleared, CallbackStarts,
       CallbackCopies, CallbackUnderruns, vars
  <2>2. Remaining \in Nat
    <3>1. Total(queue) \in Nat /\ read_offset \in Nat
      BY SizesAdd DEF QueueTypes
    <3> QED
      BY <3>1, RemainingIs DEF OffsetBounded
  <2>3. \A x \in Nat : x % Wrap <= x
    <3> SUFFICES ASSUME NEW x \in Nat PROVE x % Wrap <= x
      OBVIOUS
    <3>1. Wrap \in Nat \ {0}
      BY BoundsAssumption
    <3>2. x \div Wrap \in Nat /\ x % Wrap \in Int /\ x = Wrap * (x \div Wrap) + (x % Wrap)
      BY <3>1, Division
    <3>3. Wrap * (x \div Wrap) >= 0
      BY <3>1, <3>2
    <3> QED
      BY <3>1, <3>2, <3>3
  <2> HIDE DEF Remaining
  <2>4. Remaining % Wrap \in Int /\ Cushion \in Nat
    BY <2>2, BoundsAssumption
  <2> QED
    BY <2>1, <2>2, <2>3, <2>4 DEF BytesMatch
<1> QED
  BY <1>1, <1>2, <1>3, PTL DEF ReceiversSpec, CushionHeld

\* read_offset_ leaves the front frame in one way only, whatever the frames' sizes and the
\* limits: the queue is full, some of its front frame was played, and submit() puts
\* another in its place.
THEOREM OffsetKept == ReceiversSpec => OffsetLeaves
<1> USE SizesAssumption, BoundsAssumption
<1>1. ReceiversInit => QueueTypes
  BY QueueInitially DEF ReceiversInit
<1>2. QueueTypes /\ [ReceiversNext]_receiverVars => QueueTypes'
  BY QueueTypesKept DEF ReceiversNext, receiverVars
<1>3. QueueTypes /\ [ReceiversNext]_receiverVars =>
      [(OffsetInFrame /\ ~OffsetInFrame') =>
           (read_offset # 0 /\ Len(queue) = MaxFrames /\ MutexFree)]_vars
  <2> SUFFICES ASSUME QueueTypes, [Next]_vars, OffsetInFrame,
                      ~(read_offset # 0 /\ Len(queue) = MaxFrames /\ MutexFree)
               PROVE  OffsetInFrame'
    BY DEF ReceiversNext, receiverVars
  <2>0. queue \in Seq(Sizes) /\ read_offset \in Nat /\ left \in Nat
    BY DEF QueueTypes
  <2>1. ASSUME NEW size \in Sizes, Submit(size) PROVE OffsetInFrame'
    <3>1. read_offset' = read_offset /\ MutexFree
      BY <2>1 DEF Submit
    <3>2. CASE read_offset = 0
      BY <3>1, <3>2 DEF OffsetInFrame
    <3>3. CASE read_offset # 0
      <4>1. queue' = Append(queue, size)
        BY <2>1, <3>1, <3>3 DEF Submit
      <4>2. queue # <<>> /\ read_offset < Head(queue)
        BY <3>3 DEF OffsetInFrame
      <4>3. queue' # <<>> /\ Head(queue') = Head(queue)
        BY <2>0, <4>1, <4>2
      <4> QED
        BY <3>1, <4>2, <4>3 DEF OffsetInFrame
    <3> QED
      BY <3>2, <3>3
  <2>2. ASSUME Cleared PROVE OffsetInFrame'
    BY <2>2 DEF Cleared, OffsetInFrame
  \* What is copied is at most what is left of the front frame.
  <2>3. ASSUME CallbackCopies PROVE OffsetInFrame'
    <3> DEFINE copied == IF Head(queue) - read_offset < left THEN Head(queue) - read_offset
                         ELSE left
    <3>1. /\ queue # <<>>
          /\ queue' = IF read_offset + copied >= Head(queue) THEN Tail(queue) ELSE queue
          /\ read_offset' = IF read_offset + copied >= Head(queue) THEN 0
                            ELSE read_offset + copied
      BY <2>3 DEF CallbackCopies
    <3>2. Head(queue) \in Nat /\ read_offset + copied \in Int
      <4>1. Head(queue) \in Sizes
        BY <2>0, <3>1, FrontOfQueue
      <4>2. Head(queue) \in Nat
        BY <4>1
      <4> QED
        BY <2>0, <4>2
    <3> HIDE DEF copied
    <3>3. CASE read_offset + copied >= Head(queue)
      <4>1. read_offset' = 0
        BY <3>1, <3>3
      <4> QED
        BY <4>1, Zenon DEF OffsetInFrame
    <3>4. CASE ~(read_offset + copied >= Head(queue))
      <4>1. queue' = queue /\ read_offset' = read_offset + copied
        BY <3>1, <3>4
      <4>2. read_offset' < Head(queue')
        BY <3>2, <3>4, <4>1
      <4> QED
        BY <3>1, <4>1, <4>2, Zenon DEF OffsetInFrame
    <3> QED
      BY <3>3, <3>4
  <2>4. ASSUME UNCHANGED <<queue, read_offset>> PROVE OffsetInFrame'
    BY <2>4 DEF OffsetInFrame
  <2> QED
    BY <2>1, <2>2, <2>3, <2>4
      DEF Next, SetMuted, MuteClears, Shutdown, CallbackStarts, CallbackUnderruns, vars
<1> QED
  BY <1>1, <1>2, <1>3, PTL DEF ReceiversSpec, OffsetLeaves

\* Every variable of the four parts keeps its type.
THEOREM ReceiversTyped == ReceiversSpec => []PartsTypeOK
<1>1. ReceiversSpec => [](part \in {"audio", "miracast", "cast", "webcam"})
  <2>1. ReceiversInit => part \in {"audio", "miracast", "cast", "webcam"}
    BY DEF ReceiversInit
  <2>2. /\ part \in {"audio", "miracast", "cast", "webcam"}
        /\ [ReceiversNext]_receiverVars
        => (part \in {"audio", "miracast", "cast", "webcam"})'
    BY DEF ReceiversNext, receiverVars
  <2> QED
    BY <2>1, <2>2, PTL DEF ReceiversSpec
<1>2. MiracastInv => Miracast!TypeOK
  BY BothTypes DEF MiracastInv, Exchange
<1>3. CastInv => Cast!TypeOK
  BY CastTypesTogether DEF CastInv
<1>4. WebcamInv => Webcam!TypeOK
  BY WebcamTypesTogether DEF WebcamInv
<1>5. /\ part \in {"audio", "miracast", "cast", "webcam"}
      /\ TypeOK /\ MiracastInv /\ CastInv /\ WebcamInv
      => PartsTypeOK
  BY <1>2, <1>3, <1>4 DEF PartsTypeOK
<1> QED
  BY <1>1, <1>5, AudioAlways, MiracastAlways, CastAlways, WebcamAlways, PTL

\* Cast: handlers run one after another, the contexts outlive the threads that
\* use them, stop() leaves nothing, and the status is that of a sender that is
\* connected, whatever senders do and whenever stop() is called.
THEOREM CastServed == ReceiversSpec => []CastSafe
<1>1. CastInv => CastSafe
  BY CastHolds
<1> QED
  BY <1>1, CastAlways, PTL

\* The webcam: when everything has settled and the drawer is closed, no camera
\* runs, however many detached threads the clicks have started, as long as no
\* two of them overlapped.
THEOREM DrawerClosed == ReceiversSpec => []ClosedMeansOff
<1>1. WebcamInv => ClosedMeansOff
  BY WebcamHolds
<1> QED
  BY <1>1, WebcamAlways, PTL

\* The webcam: a camera with which the program died before its first frame is
\* not opened by the next launch.
THEOREM BadCameraGuarded == ReceiversSpec => CrashGuard
<1>1. WebcamInv /\ [ReceiversNext]_receiverVars
      => [(unproven /\ app' = "up") => ~visible']_webcamV
  <2> SUFFICES ASSUME WebcamInv, Webcam!Next \/ UNCHANGED webcamV
               PROVE  (unproven /\ app' = "up") => ~visible'
    BY DEF ReceiversNext, receiverVars
  <2> QED
    BY GuardHolds
<1> QED
  BY <1>1, WebcamAlways, PTL
    DEF ReceiversSpec, CrashGuard, Webcam!CrashGuard, Webcam!webcamVars, webcamV
=============================================================================
