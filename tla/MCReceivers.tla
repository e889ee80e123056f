---------------------------- MODULE MCReceivers ----------------------------
(***************************************************************************)
(* The other receivers, for TLC: Miracast, Cast and the webcam drawer,     *)
(* with the audio output, of which this module is an extension.  They do   *)
(* not share state, so they are not multiplied with each other: `part' is  *)
(* chosen by Init, never changes, and only the part it names moves.        *)
(***************************************************************************)
EXTENDS AudioOutput

CONSTANTS
    Nobody,     \* no source, no client, no camera
    Layouts,    \* MiracastReceiver: orders of the streams in a transport stream
    Senders,    \* CastReceiver: connections, each with its handler thread
    Cameras,    \* WebcamDrawer: devices
    Tasks       \* WebcamDrawer: detached threads that exist at once

ASSUME NobodyAssumption == Nobody \notin Layouts \cup Senders \cup Cameras

VARIABLES
    part,
    main, running, worker, miracastOpen, rtsp, wfd, toSink, toSource, src, sent,
    answered, polling, granted, refused, crossed, streaming, media, demuxer, data,
    eof, layout, picked,
    castMain, castRunning, contexts, listening, mdns, accepting, fresh, thread,
    hpc, castOpen, clientSock, clientSsl, mirroring, session, webrtc, offered,
    served,
    app, savedOpen, savedDevice, marker, visible, manual, cleared, task,
    camera, capturing, latest, polled, shown, spoiled, unproven

Miracast == INSTANCE MiracastReceiver WITH open <- miracastOpen
Cast == INSTANCE CastReceiver
            WITH main <- castMain, running <- castRunning, open <- castOpen
Webcam == INSTANCE WebcamDrawer WITH worker <- camera, running <- capturing

miracastV == <<main, running, worker, miracastOpen, rtsp, wfd, toSink, toSource,
               src, sent, answered, polling, granted, refused, crossed, streaming,
               media, demuxer, data, eof, layout, picked>>
castV == <<castMain, castRunning, contexts, listening, mdns, accepting, fresh,
           thread, hpc, castOpen, clientSock, clientSsl, mirroring, session,
           webrtc, offered, served>>
webcamV == <<app, savedOpen, savedDevice, marker, visible, manual, cleared, task,
             camera, capturing, latest, polled, shown, spoiled, unproven>>
receiverVars == <<part, vars, miracastV, castV, webcamV>>

ReceiversInit ==
    /\ part \in {"audio", "miracast", "cast", "webcam"}
    /\ Init /\ Miracast!Init /\ Cast!Init /\ Webcam!Init

ReceiversNext ==
    /\ UNCHANGED part
    /\ \/ part = "audio" /\ Next /\ UNCHANGED <<miracastV, castV, webcamV>>
       \/ part = "miracast" /\ Miracast!Next /\ UNCHANGED <<vars, castV, webcamV>>
       \/ part = "cast" /\ Cast!Next /\ UNCHANGED <<vars, miracastV, webcamV>>
       \/ part = "webcam" /\ Webcam!Next /\ UNCHANGED <<vars, miracastV, castV>>

\* A part that does not move has nothing of this enabled.
ReceiversSpec ==
    /\ ReceiversInit /\ [][ReceiversNext]_receiverVars
    /\ Miracast!Fairness /\ Cast!Fairness /\ Webcam!Fairness

\* The types of the parts.
PartsTypeOK ==
    CASE part = "audio"    -> TypeOK
      [] part = "miracast" -> Miracast!TypeOK
      [] part = "cast"     -> Cast!TypeOK
      [] part = "webcam"   -> Webcam!TypeOK

\* MiracastReceiver: PLAY and streaming follow what the source granted, the
\* handshake gets stuck only by a refusal or by a request in between, the
\* decode thread has a demuxer of its own session, and after stop() nothing
\* runs and nothing is open.
MiracastSafe ==
    /\ Miracast!SessionGranted /\ Miracast!HandshakeMoves
    /\ Miracast!DemuxerFresh /\ Miracast!StoppedClean

\* CastReceiver: one sender at a time, of whom the status is true, and contexts
\* that outlive the threads that use them.
CastSafe == Cast!OneHandler /\ Cast!ContextsOutlive /\ Cast!StatusTrue

\* WebcamDrawer: a closed drawer has its camera off.
ClosedMeansOff == Webcam!ClosedMeansOff

\* WebcamDrawer: a camera that brought the program down is not reopened.
CrashGuard == Webcam!CrashGuard

\* The accept loop of Miracast comes back from a session.  Its stop() returns,
\* unless a source keeps it waiting for a message, and that of Cast, unless a
\* sender came late; with the webcam the process ends, unless a camera is
\* started behind it.
StopsReturn ==
    /\ Miracast!SessionEnds /\ Miracast!StopReturns
    /\ Cast!StopReturns /\ Webcam!ExitReturns
=============================================================================
