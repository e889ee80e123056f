-------------------------- MODULE MiracastReceiver -------------------------
(***************************************************************************)
(* miracast/miracast_receiver.cpp: a worker thread that advertises over    *)
(* WiFi Direct, an accept thread that takes one source after another       *)
(* through the WFD handshake, and for each session a thread that receives  *)
(* RTP and one that decodes it, with start() and stop() around them.       *)
(*                                                                         *)
(* The source is external.  It asks M1, M3, M4 and M5 one after another,   *)
(* each when the one before was answered, and polls the sink in between;   *)
(* what it reads it grants or refuses, in order.  It may also stay silent, *)
(* in the middle of a message too, tear down or leave at any time.         *)
(***************************************************************************)
EXTENDS Naturals, Sequences

CONSTANTS
    Nobody,    \* no stream layout
    Layouts    \* orders of the streams in a transport stream

VARIABLES
    main,      \* where start() and stop() are
    running,   \* running_
    worker,    \* worker_thread_
    open,      \* sockets that are open
    rtsp,      \* where rtsp_accept_loop() is
    wfd,       \* WfdSession::state
    toSink,    \* messages on their way from the source
    toSource,  \* and to it
    src,       \* the source
    sent,      \* how many of its four requests the source has sent
    answered,  \* how many of them were answered
    polling,   \* it has sent a keep-alive that is not answered
    granted,   \* the requests of the sink that the source answered with 200
    refused,   \* and those that it answered with anything else
    crossed,   \* a request was answered while SETUP or PLAY was under way
    streaming, \* streaming
    media,     \* rtp_thread and decode_thread
    demuxer,   \* its context: none, with its frame and packet, or opened
    data,      \* TsDemuxer::has_data
    eof,       \* TsDemuxer::eof
    layout,    \* how the streams of this session are numbered
    picked     \* what video_stream_idx and audio_stream_idx go by

miracastVars == <<main, running, worker, open, rtsp, wfd, toSink, toSource, src,
                  sent, answered, polling, granted, refused, crossed, streaming,
                  media, demuxer, data, eof, layout, picked>>

sourceVars == <<src, sent, answered, polling, granted, refused, crossed>>
demuxerVars == <<demuxer, data, eof, layout, picked>>
controlVars == <<main, running, worker>>

\* What the source asks, in order: M1, M3, M4 and M5.
Requests == <<"OPTIONS", "GET_PARAMETER", "SET_PARAMETER", "TRIGGER">>

States == {"Idle", "M2_Sent", "M3_Received", "M4_Received", "M6_Sent",
           "M7_Sent", "Streaming", "Teardown"}

Joining == {"checkRtp", "joinRtp", "checkDecode", "joinDecode"}

TypeOK ==
    /\ main \in Joining \cup {"off", "waits", "failed", "run", "cleanup", "join",
                              "joinWorker", "stopped", "terminated"}
    /\ running \in BOOLEAN /\ worker \in {"none", "init", "loop", "ended"}
    /\ open \subseteq {"rtp", "listen", "session"}
    /\ rtsp \in Joining \cup {"none", "poll", "select", "negotiate", "begin",
                              "rtp", "decode", "monitor", "handle", "halt",
                              "reset", "close", "ended"}
    /\ wfd \in States
    /\ toSink \in Seq({"OPTIONS", "GET_PARAMETER", "SET_PARAMETER", "TRIGGER",
                       "TEARDOWN", "ok", "no"})
    /\ toSource \in Seq({"OPTIONS", "SETUP", "PLAY", "ok"})
    /\ src \in {"away", "in", "leaving", "gone", "reset"}
    /\ sent \in 0..4 /\ answered \in 0..sent /\ polling \in BOOLEAN
    /\ granted \subseteq {"OPTIONS", "SETUP", "PLAY"}
    /\ refused \subseteq {"OPTIONS", "SETUP", "PLAY"} /\ crossed \in BOOLEAN
    /\ streaming \in BOOLEAN
    /\ media \in [{"rtp", "decode"} -> {"none", "run", "wait", "read", "ended"}]
    /\ demuxer \in {"none", "ready", "open"}
    /\ data \in BOOLEAN /\ eof \in BOOLEAN
    /\ layout \in Layouts \cup {Nobody} /\ picked \in Layouts \cup {Nobody}

Init ==
    /\ main = "off" /\ running = FALSE /\ worker = "none"
    /\ open = {} /\ rtsp = "none" /\ wfd = "Idle"
    /\ toSink = <<>> /\ toSource = <<>>
    /\ src = "away" /\ sent = 0 /\ answered = 0 /\ polling = FALSE
    /\ granted = {} /\ refused = {} /\ crossed = FALSE
    /\ streaming = FALSE
    /\ media = [t \in {"rtp", "decode"} |-> "none"]
    /\ demuxer = "none" /\ data = FALSE /\ eof = FALSE
    /\ layout = Nobody /\ picked = Nobody

(***************************************************************************)
(* start().                                                                *)
(***************************************************************************)

sessionVars == <<rtsp, wfd, toSink, toSource, sourceVars, streaming, media, layout,
                 picked>>

\* Sockets and demuxer are made; the worker initialises WiFi Direct.
Start ==
    /\ main = "off"
    /\ open' = {"rtp", "listen"}
    /\ demuxer' = "ready"
    /\ worker' = "init"
    /\ main' = "waits"
    /\ UNCHANGED <<running, data, eof, sessionVars>>

\* A socket or the demuxer cannot be made; what was made stays open.
StartFails ==
    /\ main = "off"
    /\ open' \in {{}, {"rtp"}, {"rtp", "listen"}}
    /\ main' = "failed"
    /\ UNCHANGED <<running, worker, demuxer, data, eof, sessionVars>>

\* WiFi Direct throws: start() calls stop(), which returns at once, for
\* running_ is not set.  The thread is not joined.
WorkerFails ==
    /\ worker = "init"
    /\ worker' = "ended"
    /\ main' = "failed"
    /\ UNCHANGED <<running, open, demuxer, data, eof, sessionVars>>

\* The worker advertises, sets running_, starts the accept thread.
WorkerStarts ==
    /\ worker = "init"
    /\ worker' = "loop"
    /\ running' = TRUE
    /\ rtsp' = "poll"
    /\ main' = "run"
    /\ UNCHANGED <<open, wfd, toSink, toSource, sourceVars, streaming, media, demuxerVars>>

\* Mutant: nobody posts WM_QUIT, the loop ends with a message before that.
WorkerAwaitsMessage ==
    /\ worker = "loop" /\ ~running /\ main # "joinWorker"
    /\ worker' = "ended"
    /\ UNCHANGED <<main, running, open, demuxer, data, eof, sessionVars>>

\* The message loop ends: stop() has posted WM_QUIT, or another message
\* came after running_ was reset.
WorkerEnds ==
    /\ worker = "loop" /\ ~running
    /\ worker' = "ended"
    /\ UNCHANGED <<main, running, open, demuxer, data, eof, sessionVars>>

(***************************************************************************)
(* rtsp_accept_loop(): one source after another.                           *)
(***************************************************************************)

\* The loop's condition.
Poll ==
    /\ rtsp = "poll"
    /\ rtsp' = IF running THEN "select" ELSE "ended"
    /\ UNCHANGED <<controlVars, open, wfd, toSink, toSource, sourceVars, streaming,
                   media, demuxerVars>>

\* select() times out or fails, or accept() does.
NothingAccepted ==
    /\ rtsp = "select"
    /\ rtsp' = "poll"
    /\ UNCHANGED <<controlVars, open, wfd, toSink, toSource, sourceVars, streaming,
                   media, demuxerVars>>

\* A source connects; the session is reset.
AcceptSource ==
    /\ rtsp = "select" /\ "listen" \in open
    /\ src = "away"
    /\ src' = "in" /\ sent' = 0 /\ answered' = 0 /\ polling' = FALSE
    /\ granted' = {} /\ refused' = {} /\ crossed' = FALSE
    /\ layout' \in Layouts
    /\ open' = open \cup {"session"}
    /\ wfd' = "Idle"
    /\ rtsp' = "negotiate"
    /\ UNCHANGED <<controlVars, toSink, toSource, streaming, media, demuxer, data,
                   eof, picked>>

(***************************************************************************)
(* The source.                                                             *)
(***************************************************************************)

sinkVars == <<controlVars, open, rtsp, wfd, streaming, media, demuxerVars>>

\* It asks the next of its four requests.
SourceAsks ==
    /\ src = "in" /\ sent = answered /\ sent < 4 /\ ~polling
    /\ sent' = sent + 1
    /\ toSink' = Append(toSink, Requests[sent + 1])
    /\ UNCHANGED <<toSource, src, answered, polling, granted, refused, crossed, sinkVars>>

\* It reads an answer, or a request, which it grants or refuses.
SourceReads ==
    /\ src = "in" /\ toSource # <<>>
    /\ toSource' = Tail(toSource)
    /\ IF Head(toSource) = "ok"
       THEN /\ polling' = FALSE
            /\ answered' = IF polling THEN answered ELSE answered + 1
            /\ UNCHANGED <<toSink, granted, refused>>
       ELSE /\ \/ /\ toSink' = Append(toSink, "ok")
                  /\ granted' = granted \cup {Head(toSource)} /\ UNCHANGED refused
               \/ /\ toSink' = Append(toSink, "no")
                  /\ refused' = refused \cup {Head(toSource)} /\ UNCHANGED granted
            /\ UNCHANGED <<polling, answered>>
    /\ UNCHANGED <<src, sent, crossed, sinkVars>>

\* It polls: a keep-alive (M16), or a question of its own once it has had the
\* answer to M3, be it in the middle of the handshake.
SourcePolls ==
    /\ src = "in" /\ sent = answered /\ ~polling
    /\ sent > 1
    /\ Len(toSink) < 2
    /\ polling' = TRUE
    /\ toSink' = Append(toSink, "GET_PARAMETER")
    /\ UNCHANGED <<toSource, src, sent, answered, granted, refused, crossed, sinkVars>>

\* While streaming it begins a message: select() finds the first bytes, and
\* read_message(), which has no timeout, waits for the others.
SourceBegins ==
    /\ rtsp = "monitor" /\ streaming /\ running
    /\ src = "in" /\ toSink = <<>>
    /\ rtsp' = "handle"
    /\ UNCHANGED <<controlVars, open, wfd, toSink, toSource, sourceVars, streaming,
                   media, demuxerVars>>

\* It tears the session down, or closes its end.
SourceLeaves ==
    /\ src = "in"
    /\ \/ src' = "leaving" /\ toSink' = Append(toSink, "TEARDOWN")
       \/ src' = "gone" /\ UNCHANGED toSink
    /\ UNCHANGED <<toSource, sent, answered, polling, granted, refused, crossed,
                   sinkVars>>

(***************************************************************************)
(* negotiate() and handle_message().                                       *)
(***************************************************************************)

readKeeps == <<controlVars, open, streaming, media, demuxerVars, sent, answered,
               polling, granted, refused, crossed>>

Receives(m) == toSink # <<>> /\ Head(toSink) = m /\ toSink' = Tail(toSink)

Sends(ms) == toSource' = toSource \o ms

\* M1, which M2 follows.
AnswerOptions ==
    /\ rtsp = "negotiate" /\ Receives("OPTIONS")
    /\ IF wfd = "Idle" THEN Sends(<<"ok", "OPTIONS">>) /\ wfd' = "M2_Sent"
                       ELSE Sends(<<"ok">>) /\ UNCHANGED wfd
    /\ UNCHANGED <<rtsp, src, readKeeps>>

\* Mutant: the answer is sent once more where all requests meet.
AnswerParameterTwice ==
    /\ rtsp = "negotiate"
    /\ \/ Receives("GET_PARAMETER") /\ wfd' = "M3_Received"
       \/ Receives("SET_PARAMETER") /\ wfd' = "M4_Received"
    /\ Sends(<<"ok", "ok">>)
    /\ UNCHANGED <<rtsp, src, readKeeps>>

\* M3 and M4, in whatever state, that of SETUP and PLAY included: what the
\* handshake waits for is then forgotten.
AnswerParameter ==
    /\ rtsp = "negotiate"
    /\ \/ Receives("GET_PARAMETER") /\ wfd' = "M3_Received"
       \/ Receives("SET_PARAMETER") /\ wfd' = "M4_Received"
    /\ Sends(<<"ok">>)
    /\ crossed' = (crossed \/ wfd \in {"M6_Sent", "M7_Sent"})
    /\ UNCHANGED <<rtsp, src, controlVars, open, streaming, media, demuxerVars, sent,
                   answered, polling, granted, refused>>

\* Mutant: the trigger is not told from M4.
AnswerTriggerOnly ==
    /\ rtsp = "negotiate" /\ Receives("TRIGGER")
    /\ Sends(<<"ok">>)
    /\ wfd' = "M4_Received"
    /\ UNCHANGED <<rtsp, src, readKeeps>>

\* M5, which SETUP follows, in whatever state.
AnswerTrigger ==
    /\ rtsp = "negotiate" /\ Receives("TRIGGER")
    /\ Sends(<<"ok", "SETUP">>)
    /\ wfd' = "M6_Sent"
    /\ UNCHANGED <<rtsp, src, readKeeps>>

\* TEARDOWN ends the handshake.
AnswerTeardown ==
    /\ rtsp = "negotiate" /\ Receives("TEARDOWN")
    /\ Sends(<<"ok">>)
    /\ wfd' = "Teardown"
    /\ rtsp' = "close"
    /\ UNCHANGED <<src, readKeeps>>

\* A 200, whose CSeq is not looked at: SETUP's is followed by PLAY, PLAY's
\* ends the handshake, and every other one is ignored.
Granted ==
    /\ Receives("ok")
    /\ CASE wfd = "M6_Sent" -> Sends(<<"PLAY">>) /\ wfd' = "M7_Sent" /\ UNCHANGED rtsp
         [] wfd = "M7_Sent" -> wfd' = "Streaming" /\ rtsp' = "begin" /\ UNCHANGED toSource
         [] OTHER -> UNCHANGED <<wfd, rtsp, toSource>>

\* Any other status is read and forgotten: the state goes on waiting.
Refused == Receives("no") /\ UNCHANGED <<wfd, rtsp, toSource>>

\* Mutant: the status is not looked at.
NegotiateAnyAnswer ==
    /\ rtsp = "negotiate"
    /\ \/ Granted
       \/ /\ Receives("no")
          /\ IF wfd = "M6_Sent" THEN Sends(<<"PLAY">>) /\ wfd' = "M7_Sent" /\ UNCHANGED rtsp
             ELSE UNCHANGED <<wfd, rtsp, toSource>>
    /\ UNCHANGED <<src, readKeeps>>

NegotiateAnswer ==
    /\ rtsp = "negotiate"
    /\ Granted \/ Refused
    /\ UNCHANGED <<src, readKeeps>>

\* The source has closed its end.  What has come of a line, be it nothing, is
\* taken for a request if there is no error code, and answered, after which
\* the connection is reset.
ReadEnds ==
    /\ rtsp \in {"negotiate", "handle"} /\ toSink = <<>>
    /\ \/ src = "gone" /\ src' = "reset"
          /\ rtsp' = IF rtsp = "handle" THEN "monitor" ELSE rtsp
       \/ src \in {"gone", "reset"} /\ UNCHANGED src
          /\ rtsp' = IF rtsp = "handle" THEN "halt" ELSE "close"
    /\ UNCHANGED <<toSink, toSource, wfd, readKeeps>>

\* While streaming: requests are answered, TEARDOWN ends the session.  A
\* message that has only begun is waited for.
HandleMessage ==
    /\ rtsp = "handle"
    /\ toSink # <<>> /\ toSink' = Tail(toSink)
    /\ IF Head(toSink) \in {"ok", "no"} THEN UNCHANGED toSource ELSE Sends(<<"ok">>)
    /\ rtsp' = IF Head(toSink) = "TEARDOWN" THEN "halt" ELSE "monitor"
    /\ UNCHANGED <<wfd, src, readKeeps>>

(***************************************************************************)
(* The session's threads.                                                  *)
(***************************************************************************)

beginKeeps == <<controlVars, open, wfd, toSink, toSource, sourceVars>>

\* streaming is set; then the two threads are started, one by one.
Begin ==
    /\ \/ rtsp = "begin" /\ rtsp' = "rtp" /\ streaming' = TRUE /\ UNCHANGED media
       \/ rtsp = "rtp" /\ rtsp' = "decode" /\ media' = [media EXCEPT !["rtp"] = "run"]
          /\ UNCHANGED streaming
       \/ rtsp = "decode" /\ rtsp' = "monitor"
          /\ media' = [media EXCEPT !["decode"] = "wait"] /\ UNCHANGED streaming
    /\ UNCHANGED <<beginKeeps, demuxerVars>>

\* The loop's condition; select() then says whether there is something to
\* read, the end of the connection included.
Monitor ==
    /\ rtsp = "monitor"
    /\ \/ ~(streaming /\ running) /\ rtsp' = "halt"
       \/ streaming /\ running /\ (toSink # <<>> \/ src \in {"gone", "reset"})
          /\ rtsp' = "handle"
    /\ UNCHANGED <<beginKeeps, streaming, media, demuxerVars>>

\* Mutant: the demuxer is not told.
HaltSilently ==
    /\ rtsp = "halt"
    /\ streaming' = FALSE
    /\ rtsp' = "checkRtp"
    /\ UNCHANGED <<beginKeeps, media, demuxerVars>>

Halt ==
    /\ rtsp = "halt"
    /\ streaming' = FALSE
    /\ eof' = TRUE
    /\ rtsp' = "checkRtp"
    /\ UNCHANGED <<beginKeeps, media, demuxer, data, layout, picked>>

\* `if (thread.joinable()) thread.join()' by the accept loop or by stop(),
\* whose place is at.  A thread that both join is undefined: the second one
\* returns or throws.
Joins(t, at, check, wait, next) ==
    \/ at = check /\ at' = (IF media[t] = "none" THEN next ELSE wait) /\ UNCHANGED media
    \/ at = wait /\ media[t] \in {"ended", "none"} /\ at' = next
       /\ media' = [media EXCEPT ![t] = "none"]

JoinInLoop ==
    /\ \/ Joins("rtp", rtsp, "checkRtp", "joinRtp", "checkDecode")
       \/ Joins("decode", rtsp, "checkDecode", "joinDecode", "reset")
    /\ UNCHANGED <<beginKeeps, streaming, demuxerVars>>

\* Mutant: eof is left for the next session.
ResetKeepsEof ==
    /\ rtsp = "reset"
    /\ demuxer' = "ready" /\ data' = FALSE
    /\ rtsp' = "close"
    /\ UNCHANGED <<beginKeeps, streaming, media, eof, layout, picked>>

\* The demuxer is cleaned up and initialised for the next session; which
\* streams it had picked is not.
Reset ==
    /\ rtsp = "reset"
    /\ demuxer' = "ready" /\ data' = FALSE /\ eof' = FALSE
    /\ rtsp' = "close"
    /\ UNCHANGED <<beginKeeps, streaming, media, layout, picked>>

\* The connection is closed; the next source may come.
Close ==
    /\ rtsp = "close"
    /\ open' = open \ {"session"}
    /\ src' = "away" /\ sent' = 0 /\ answered' = 0 /\ polling' = FALSE
    /\ granted' = {} /\ refused' = {} /\ crossed' = FALSE
    /\ layout' = Nobody
    /\ toSink' = <<>> /\ toSource' = <<>>
    /\ rtsp' = "poll"
    /\ UNCHANGED <<controlVars, wfd, streaming, media, demuxer, data, eof, picked>>

mediaKeeps == <<controlVars, open, rtsp, wfd, toSink, toSource, sourceVars, streaming>>

\* rtp_loop(): a packet's payload is fed.
RtpFeeds ==
    /\ media["rtp"] = "run" /\ "rtp" \in open
    /\ data' = TRUE
    /\ UNCHANGED <<mediaKeeps, media, demuxer, eof, layout, picked>>

RtpEnds ==
    /\ media["rtp"] = "run" /\ ~streaming
    /\ media' = [media EXCEPT !["rtp"] = "ended"]
    /\ UNCHANGED <<mediaKeeps, demuxerVars>>

\* decode_loop() and open_stream(): the streams are looked for, unless an
\* earlier session has found them, or there is nothing to be opened.
DecodeOpens ==
    /\ media["decode"] = "wait" /\ data /\ streaming
    /\ \/ /\ demuxer' = "open"
          /\ picked' = IF picked = Nobody THEN layout ELSE picked
          /\ media' = [media EXCEPT !["decode"] = "read"]
       \/ media' = [media EXCEPT !["decode"] = "ended"] /\ UNCHANGED <<demuxer, picked>>
    /\ UNCHANGED <<mediaKeeps, data, eof, layout>>

\* It ends: before there was data, or when avio_read_cb() says it is over.
DecodeEnds ==
    /\ \/ media["decode"] = "wait" /\ ~streaming
       \/ media["decode"] = "read" /\ ~streaming /\ eof
    /\ media' = [media EXCEPT !["decode"] = "ended"]
    /\ UNCHANGED <<mediaKeeps, demuxerVars>>

(***************************************************************************)
(* stop().                                                                 *)
(***************************************************************************)

stopKeeps == <<wfd, toSink, toSource, sourceVars, layout, picked>>

StopRunning ==
    /\ main = "run"
    /\ running' = FALSE
    /\ main' = "cleanup"
    /\ UNCHANGED <<worker, open, rtsp, streaming, media, demuxer, data, eof, stopKeeps>>

\* cleanup(): the flag, the sockets, the demuxer's end.
StopSession ==
    /\ main = "cleanup"
    /\ streaming' = FALSE
    /\ open' = open \ {"rtp", "listen"}
    /\ eof' = TRUE
    /\ main' = "checkRtp"
    /\ UNCHANGED <<running, worker, rtsp, media, demuxer, data, stopKeeps>>

JoinInStop ==
    /\ \/ Joins("rtp", main, "checkRtp", "joinRtp", "checkDecode")
       \/ Joins("decode", main, "checkDecode", "joinDecode", "join")
    /\ UNCHANGED <<running, worker, open, rtsp, streaming, demuxer, data, eof, stopKeeps>>

\* The other outcome of a thread joined twice.
JoinThrows ==
    /\ \E wait \in {"joinRtp", "joinDecode"} :
         /\ main = wait /\ rtsp = wait
         /\ media[IF wait = "joinRtp" THEN "rtp" ELSE "decode"] = "ended"
    /\ main' = "terminated"
    /\ UNCHANGED <<running, worker, open, rtsp, streaming, media, demuxer, data, eof,
                   stopKeeps>>

\* Mutant: the demuxer is cleaned up before the accept thread has ended.
JoinRtspLater ==
    /\ main = "join"
    /\ open' = open \ {"session"}
    /\ demuxer' = "none"
    /\ main' = "joinWorker"
    /\ UNCHANGED <<running, worker, rtsp, streaming, media, data, eof, stopKeeps>>

\* The accept thread has ended: session and demuxer are cleaned up.
JoinRtsp ==
    /\ main = "join" /\ rtsp = "ended"
    /\ open' = open \ {"session"}
    /\ demuxer' = "none"
    /\ main' = "joinWorker"
    /\ UNCHANGED <<running, worker, rtsp, streaming, media, data, eof, stopKeeps>>

JoinWorker ==
    /\ main = "joinWorker" /\ worker = "ended"
    /\ worker' = "none"
    /\ main' = "stopped"
    /\ UNCHANGED <<running, open, rtsp, streaming, media, demuxer, data, eof, stopKeeps>>

(***************************************************************************)
(* The specification.                                                      *)
(***************************************************************************)

LoopStep ==
    \/ Poll \/ NothingAccepted
    \/ AnswerOptions \/ AnswerParameter \/ AnswerTrigger \/ AnswerTeardown
    \/ NegotiateAnswer \/ ReadEnds \/ HandleMessage
    \/ Begin \/ Monitor \/ Halt \/ JoinInLoop \/ Reset \/ Close

StopStep == StopSession \/ JoinInStop \/ JoinRtsp \/ JoinWorker

Next ==
    /\ main # "terminated"
    /\ \/ Start \/ StartFails \/ StopRunning \/ StopStep \/ JoinThrows
       \/ WorkerFails \/ WorkerStarts \/ WorkerEnds
       \/ LoopStep \/ AcceptSource
       \/ SourceAsks \/ SourceReads \/ SourcePolls \/ SourceBegins \/ SourceLeaves
       \/ RtpFeeds \/ RtpEnds \/ DecodeOpens \/ DecodeEnds

Spec == Init /\ [][Next]_miracastVars

\* Threads that can run do; nothing is asked of the source.
Fairness ==
    /\ WF_miracastVars(LoopStep)
    /\ WF_miracastVars(StopStep)
    /\ WF_miracastVars(WorkerEnds)
    /\ WF_miracastVars(RtpEnds)
    /\ WF_miracastVars(DecodeEnds)

FairSpec == Spec /\ Fairness

(***************************************************************************)
(* Properties.                                                             *)
(***************************************************************************)

\* Answers are not matched with requests, and yet PLAY is sent only to a
\* source that has answered SETUP, and the session streams only when it has
\* answered PLAY.
SessionGranted ==
    /\ wfd = "M7_Sent" /\ rtsp = "negotiate" => "SETUP" \in granted
    /\ rtsp \in {"begin", "rtp", "decode", "monitor", "handle"} => "PLAY" \in granted

\* With both queues empty it is the source's turn.
Still == rtsp = "negotiate" /\ src = "in" /\ toSink = <<>> /\ toSource = <<>>
SourcesTurn == sent = answered /\ sent < 4 /\ ~polling

\* The handshake does not get stuck: while nothing is on its way the source
\* has a request to send, unless it refused SETUP or PLAY, or asked something
\* while one of them was under way.
HandshakeMoves ==
    Still => SourcesTurn \/ refused \cap {"SETUP", "PLAY"} # {} \/ crossed

\* The decode thread never meets a demuxer that is cleaned up, and one that
\* starts, unless stop() was called, has nothing of the session before.
DemuxerFresh ==
    /\ media["decode"] \in {"wait", "read"} => demuxer # "none"
    /\ media["decode"] = "read" => demuxer = "open"
    /\ media["decode"] = "wait" /\ streaming /\ running => ~eof

\* When stop() has returned nothing runs and nothing is open.
StoppedClean ==
    main = "stopped" =>
        /\ worker = "none" /\ rtsp = "ended" /\ open = {} /\ demuxer = "none"
        /\ media["rtp"] = "none" /\ media["decode"] = "none"

\* A session that ends leaves the accept loop ready for the next source.
SessionEnds == rtsp = "halt" ~> rtsp = "poll" \/ main = "terminated"

\* stop() is at work; the accept loop, which it will join, waits in recv() for
\* a source that is silent, in the handshake or in the middle of a message.
Stops == main \in Joining \cup {"cleanup", "join", "joinWorker"}
Waits == rtsp \in {"negotiate", "handle"} /\ src = "in" /\ toSink = <<>>

\* stop() returns, or the program is terminated by a thread that was joined
\* twice, unless the loop is kept waiting.
StopReturns == []<>(Stops => Waits)

(***************************************************************************)
(* What the code intends and does not keep on every path.                  *)
(***************************************************************************)

\* A thread is joined by one thread only.
JoinedOnce ==
    /\ ~(main = "joinRtp" /\ rtsp = "joinRtp")
    /\ ~(main = "joinDecode" /\ rtsp = "joinDecode")

\* A start() that failed leaves nothing behind.
FailedClean == main = "failed" => open = {} /\ worker = "none"

\* The streams that are decoded are the ones this session has.
RightStreams == media["decode"] = "read" => picked = layout

\* The handshake goes on, whatever the source answers and asks.
HandshakeAlwaysMoves == Still => SourcesTurn

\* stop() returns, whatever the source does; and where it does not wait for
\* a handshake.
StopAlwaysReturns == []<>~Stops
StopWaitsNegotiating == []<>(Stops => rtsp = "negotiate")
=============================================================================
