------------------------------ MODULE Recording ------------------------------
(***************************************************************************)
(* Screen recording: the render loop's recording lifecycle                 *)
(* (src/media/renderer: requests, countdown, start, push, stop) and the    *)
(* Recorder it drives (src/media/recorder: bounded queue, worker thread).  *)
(*                                                                         *)
(* The render loop is one thread: `phase` is where it is in its iteration. *)
(* The worker is the other one.  Clocks are flags that become TRUE some    *)
(* time after they are cleared.  Frames are abstracted to their            *)
(* dimensions; the phone frame is always on (nothing ever disables it), so *)
(* the picture's dimensions are those of the composite.                    *)
(***************************************************************************)
EXTENDS Naturals, Sequences

CONSTANTS
    Dims,         \* dimensions a source's frames may have
    NoFrame,      \* last_frame_data_ or pending_frame_ is empty
    MaxQueue,     \* cfg_.max_queue_frames
    Limited,      \* BOOLEAN: settings_.record_max_duration_sec > 0
    Resets,       \* BOOLEAN: may the source disconnect
    Failures      \* BOOLEAN: may FFmpeg fail

ASSUME MaxQueueAssumption == MaxQueue \in Nat \ {0}
ASSUME NoFrameAssumption == NoFrame \notin Dims
ASSUME SwitchAssumption == Limited \in BOOLEAN /\ Resets \in BOOLEAN /\ Failures \in BOOLEAN

VARIABLES
    phase,      \* the render loop's place in its iteration
    after,      \* where it goes on when recorder_.stop() returns
    menu,       \* which record menu the last draw laid out
    toggle,     \* record_toggle_requested_
    asked,      \* what the user has asked for, of this toggle
    counting,   \* record_countdown_ms_ > 0
    countdownDue, \* that much time has passed since record_countdown_start_
    pendingLimit, \* pending_record_duration_sec_ > 0
    incoming,   \* pending_frame_ while has_new_frame_
    shown,      \* last_frame_data_
    reset,      \* reset_requested_
    recording,  \* recording_
    limit,      \* where cfg_.max_duration_sec is from; "none" if it is 0
    limitDue,   \* elapsed_seconds() >= cfg_.max_duration_sec
    finalize,   \* should_finalize_
    error,      \* error_msg_ is not empty
    eos,        \* end_of_stream_
    queue,      \* queue_
    worker,     \* where the worker thread is; "none" if not joinable
    frame,      \* qf, the frame the worker has taken
    slotDue,    \* now >= next_capture_time
    scaler      \* the source dimensions sws_ (or the filter graph) is set up for

requestVars == <<menu, toggle, asked, counting, countdownDue, pendingLimit>>
screenVars == <<incoming, shown, reset>>
takeVars == <<recording, limit, limitDue, finalize, error, eos, queue>>
workerVars == <<worker, frame, slotDue, scaler>>
vars == <<phase, after, requestVars, screenVars, takeVars, workerVars>>

Init ==
    /\ phase = "events" /\ after = "events"
    /\ menu = "idle" /\ toggle = FALSE /\ asked = "clip"
    /\ counting = FALSE /\ countdownDue = TRUE /\ pendingLimit = FALSE
    /\ incoming = NoFrame /\ shown = NoFrame /\ reset = FALSE
    /\ recording = FALSE /\ limit = "none" /\ limitDue = FALSE
    /\ finalize = FALSE /\ error = FALSE /\ eos = FALSE /\ queue = <<>>
    /\ worker = "none" /\ frame = NoFrame /\ slotDue = FALSE /\ scaler = NoFrame

Status == IF recording THEN "active" ELSE IF counting THEN "counting" ELSE "idle"

\* notify on queue_cv_: a worker that waits looks at the queue again.
Notified == IF worker = "asleep" THEN "look" ELSE worker

-----------------------------------------------------------------------------
(* Events: what the user asks for.  The record menu is the one last drawn. *)

Request(what) ==
    /\ phase = "events"
    /\ toggle' = TRUE
    /\ asked' = what
    /\ UNCHANGED <<phase, after, menu, countdownDue, screenVars, takeVars, workerVars>>

\* Ctrl+R, the record buttons, and the menu's "stop" and "cancel".
Toggle ==
    /\ Request(IF toggle THEN asked
               ELSE IF counting /\ ~recording THEN "cancel" ELSE "clip")
    /\ UNCHANGED <<counting, pendingLimit>>

\* The menu's "start", "delay5" and "timed5/10/15".
MenuStart ==
    /\ menu = "idle" /\ Request("clip")
    /\ counting' = FALSE /\ pendingLimit' = FALSE

MenuDelay ==
    /\ menu = "idle" /\ Request("clip")
    /\ counting' = TRUE /\ pendingLimit' = FALSE

MenuTimed ==
    /\ menu = "idle" /\ Request("timed")
    /\ counting' = FALSE /\ pendingLimit' = TRUE

\* The source goes away: its picture is dropped, on screen and in flight.
Reset ==
    /\ phase = "events"
    /\ reset
    /\ phase' = "draw"
    /\ reset' = FALSE
    /\ shown' = NoFrame
    /\ incoming' = NoFrame
    /\ UNCHANGED <<after, requestVars, takeVars, workerVars>>

NoReset ==
    /\ phase = "events"
    /\ ~reset
    /\ phase' = "draw"
    /\ UNCHANGED <<after, requestVars, screenVars, takeVars, workerVars>>

\* render_frame: takes the pending frame over and lays the menu out.
Draw ==
    /\ phase = "draw"
    /\ phase' = "toggle"
    /\ menu' = Status
    /\ shown' = IF incoming # NoFrame THEN incoming ELSE shown
    /\ incoming' = NoFrame
    /\ UNCHANGED <<after, toggle, asked, counting, countdownDue, pendingLimit, reset,
                   takeVars, workerVars>>

-----------------------------------------------------------------------------
(* The lifecycle that follows each draw. *)

\* Recorder::start, and the worker it starts.
RecorderStart ==
    /\ ~recording
    /\ error' = FALSE /\ queue' = <<>> /\ eos' = FALSE /\ finalize' = FALSE
    /\ limit' = (IF pendingLimit THEN "clip" ELSE IF Limited THEN "settings" ELSE "none")
    /\ limitDue' = FALSE
    /\ recording' = TRUE
    /\ worker' = "init"
    /\ UNCHANGED <<frame, slotDue, scaler>>

\* start_recording: without a picture there is only a toast.
StartRecording ==
    IF shown = NoFrame
    THEN UNCHANGED <<takeVars, workerVars, pendingLimit>>
    ELSE RecorderStart /\ pendingLimit' = FALSE

\* Mutant: the flag is set and nobody is told.
RecorderStopQuietly(next) ==
    /\ eos' = TRUE
    /\ worker' = worker
    /\ after' = next
    /\ phase' = "join"
    /\ UNCHANGED <<recording, limit, limitDue, finalize, error, queue,
                   frame, slotDue, scaler>>

\* Recorder::stop, up to the join.
RecorderStop(next) ==
    /\ eos' = TRUE
    /\ worker' = Notified
    /\ after' = next
    /\ phase' = "join"
    /\ UNCHANGED <<recording, limit, limitDue, finalize, error, queue,
                   frame, slotDue, scaler>>

NoToggle ==
    /\ phase = "toggle"
    /\ ~toggle
    /\ phase' = "countdown"
    /\ UNCHANGED <<after, requestVars, screenVars, takeVars, workerVars>>

ToggleStops ==
    /\ phase = "toggle"
    /\ toggle /\ recording
    /\ toggle' = FALSE
    /\ RecorderStop("countdown")
    /\ UNCHANGED <<menu, asked, counting, countdownDue, pendingLimit, screenVars>>

\* Starts the countdown, or starts it once more.
ToggleCounts ==
    /\ phase = "toggle"
    /\ toggle /\ ~recording /\ counting
    /\ toggle' = FALSE
    /\ countdownDue' = FALSE
    /\ phase' = "countdown"
    /\ UNCHANGED <<after, menu, asked, counting, pendingLimit, screenVars, takeVars,
                   workerVars>>

ToggleStarts ==
    /\ phase = "toggle"
    /\ toggle /\ ~recording /\ ~counting
    /\ toggle' = FALSE
    /\ StartRecording
    /\ phase' = "countdown"
    /\ UNCHANGED <<after, menu, asked, counting, countdownDue, screenVars>>

NoCountdown ==
    /\ phase = "countdown"
    /\ ~counting \/ recording \/ ~countdownDue
    /\ phase' = "push"
    /\ UNCHANGED <<after, requestVars, screenVars, takeVars, workerVars>>

CountdownEnds ==
    /\ phase = "countdown"
    /\ counting /\ ~recording /\ countdownDue
    /\ counting' = FALSE
    /\ StartRecording
    /\ phase' = "push"
    /\ UNCHANGED <<after, menu, toggle, asked, countdownDue, screenVars>>

NoPush ==
    /\ phase = "push"
    /\ ~recording \/ shown = NoFrame \/ finalize
    /\ phase' = "poll"
    /\ UNCHANGED <<after, requestVars, screenVars, takeVars, workerVars>>

\* Mutant: room is made when there is too little already.
PushOverfull ==
    /\ phase = "push"
    /\ recording /\ shown # NoFrame /\ ~finalize
    /\ queue' = Append(IF Len(queue) > MaxQueue THEN Tail(queue) ELSE queue, shown)
    /\ worker' = Notified
    /\ phase' = "poll"
    /\ UNCHANGED <<after, requestVars, screenVars, recording, limit, limitDue, finalize,
                   error, eos, frame, slotDue, scaler>>

\* push_frame: the oldest frame makes room.
Push ==
    /\ phase = "push"
    /\ recording /\ shown # NoFrame /\ ~finalize
    /\ queue' = Append(IF Len(queue) >= MaxQueue THEN Tail(queue) ELSE queue, shown)
    /\ worker' = Notified
    /\ phase' = "poll"
    /\ UNCHANGED <<after, requestVars, screenVars, recording, limit, limitDue, finalize,
                   error, eos, frame, slotDue, scaler>>

NoPoll ==
    /\ phase = "poll"
    /\ ~finalize
    /\ phase' = "events"
    /\ UNCHANGED <<after, requestVars, screenVars, takeVars, workerVars>>

PollFinalizes ==
    /\ phase = "poll"
    /\ finalize
    /\ RecorderStop("events")
    /\ UNCHANGED <<requestVars, screenVars>>

\* The window is closed; shutdown() finalises what is being recorded.
Quit ==
    /\ phase = "events"
    /\ IF recording
       THEN RecorderStop("quit")
       ELSE phase' = "quit" /\ UNCHANGED <<after, takeVars, workerVars>>
    /\ UNCHANGED <<requestVars, screenVars>>

\* Mutant: the worker is left to itself.
JoinedUnfinished ==
    /\ phase = "join"
    /\ recording' = FALSE
    /\ finalize' = FALSE
    /\ phase' = after
    /\ UNCHANGED <<after, requestVars, screenVars, limit, limitDue, error, eos, queue,
                   workerVars>>

\* The worker has ended and is joined.
Joined ==
    /\ phase = "join"
    /\ worker = "done"
    /\ worker' = "none"
    /\ recording' = FALSE
    /\ finalize' = FALSE
    /\ phase' = after
    /\ UNCHANGED <<after, requestVars, screenVars, limit, limitDue, error, eos, queue,
                   frame, slotDue, scaler>>

-----------------------------------------------------------------------------
(* The worker (worker_loop). *)

LimitReached == limit # "none" /\ limitDue

WorkerKeeps == UNCHANGED <<phase, after, requestVars, screenVars, recording, limit, limitDue>>

InitEncoder ==
    /\ worker = "init"
    /\ worker' = "look"
    /\ slotDue' = TRUE
    /\ WorkerKeeps /\ UNCHANGED <<finalize, error, eos, queue, frame, scaler>>

InitEncoderFails ==
    /\ worker = "init"
    /\ Failures
    /\ worker' = "done"
    /\ error' = TRUE
    /\ finalize' = TRUE
    /\ WorkerKeeps /\ UNCHANGED <<eos, queue, frame, slotDue, scaler>>

TakeFrame ==
    /\ worker = "look"
    /\ queue # <<>>
    /\ frame' = Head(queue)
    /\ queue' = Tail(queue)
    /\ worker' = "encode"
    /\ WorkerKeeps /\ UNCHANGED <<finalize, error, eos, slotDue, scaler>>

\* Mutant: end of stream wins over what is still queued.
LookEos ==
    /\ worker = "look"
    /\ queue = <<>> \/ eos
    /\ worker' = IF eos THEN "flush" ELSE "asleep"
    /\ WorkerKeeps /\ UNCHANGED <<finalize, error, eos, queue, frame, slotDue, scaler>>

\* Nothing is queued: the stream has ended, or the worker waits.
LookAgain ==
    /\ worker = "look"
    /\ queue = <<>>
    /\ worker' = IF eos THEN "flush" ELSE "asleep"
    /\ WorkerKeeps /\ UNCHANGED <<finalize, error, eos, queue, frame, slotDue, scaler>>

\* The 1/fps slot has a frame already.
SkipFrame ==
    /\ worker = "encode"
    /\ ~slotDue
    /\ worker' = "look"
    /\ WorkerKeeps /\ UNCHANGED <<finalize, error, eos, queue, frame, slotDue, scaler>>

\* Mutant: the limit ends the worker without a word to the renderer.
EncodeFrameSilently ==
    /\ worker = "encode"
    /\ slotDue
    /\ slotDue' = FALSE
    /\ scaler' = IF scaler = NoFrame THEN frame ELSE scaler
    /\ worker' = IF LimitReached THEN "flush" ELSE "look"
    /\ WorkerKeeps /\ UNCHANGED <<finalize, error, eos, queue, frame>>

\* Scales and encodes, with a scaler that is set up for the first frame, then
\* looks at the clock.
EncodeFrame ==
    /\ worker = "encode"
    /\ slotDue
    /\ slotDue' = FALSE
    /\ scaler' = IF scaler = NoFrame THEN frame ELSE scaler
    /\ finalize' = (finalize \/ LimitReached)
    /\ worker' = IF LimitReached THEN "flush" ELSE "look"
    /\ WorkerKeeps /\ UNCHANGED <<error, eos, queue, frame>>

\* A failure of FFmpeg, "fatal".
EncodeFails ==
    /\ worker = "encode"
    /\ slotDue
    /\ Failures
    /\ error' = TRUE
    /\ worker' = "flush"
    /\ WorkerKeeps /\ UNCHANGED <<finalize, eos, queue, frame, slotDue, scaler>>

\* teardown_encoder: the encoder is drained, the trailer written, all freed.
Teardown ==
    /\ worker = "flush"
    /\ worker' = "done"
    /\ scaler' = NoFrame
    /\ error' \in IF Failures THEN {error, TRUE} ELSE {error}
    /\ WorkerKeeps /\ UNCHANGED <<finalize, eos, queue, frame, slotDue>>

-----------------------------------------------------------------------------
(* Other threads, and time. *)

SubmitFrame ==
    /\ phase # "quit"
    /\ incoming' \in Dims
    /\ UNCHANGED <<phase, after, requestVars, shown, reset, takeVars, workerVars>>

RequestReset ==
    /\ Resets /\ ~reset /\ phase # "quit"
    /\ reset' = TRUE
    /\ UNCHANGED <<phase, after, requestVars, incoming, shown, takeVars, workerVars>>

CountdownClock ==
    /\ ~countdownDue
    /\ countdownDue' = TRUE
    /\ UNCHANGED <<phase, after, menu, toggle, asked, counting, pendingLimit, screenVars,
                   takeVars, workerVars>>

LimitClock ==
    /\ recording /\ limit # "none" /\ ~limitDue
    /\ limitDue' = TRUE
    /\ UNCHANGED <<phase, after, requestVars, screenVars, recording, limit, finalize,
                   error, eos, queue, workerVars>>

SlotClock ==
    /\ worker \in {"look", "asleep", "encode"} /\ ~slotDue
    /\ slotDue' = TRUE
    /\ UNCHANGED <<phase, after, requestVars, screenVars, takeVars, worker, frame, scaler>>

-----------------------------------------------------------------------------
UserStep == Toggle \/ MenuStart \/ MenuDelay \/ MenuTimed \/ Quit

LoopStep ==
    \/ Reset \/ NoReset \/ Draw \/ NoToggle \/ ToggleStops \/ ToggleCounts \/ ToggleStarts
    \/ NoCountdown \/ CountdownEnds \/ NoPush \/ Push \/ NoPoll \/ PollFinalizes \/ Joined

WorkerStep ==
    \/ InitEncoder \/ InitEncoderFails \/ TakeFrame \/ LookAgain \/ SkipFrame
    \/ EncodeFrame \/ EncodeFails \/ Teardown

Next ==
    \/ UserStep \/ LoopStep \/ WorkerStep
    \/ SubmitFrame \/ RequestReset \/ CountdownClock \/ LimitClock \/ SlotClock

Spec == Init /\ [][Next]_vars

\* The loop and the worker run, and time passes.
FairSpec ==
    /\ Spec
    /\ WF_vars(LoopStep) /\ WF_vars(WorkerStep)
    /\ WF_vars(LimitClock) /\ WF_vars(CountdownClock) /\ WF_vars(SlotClock)

-----------------------------------------------------------------------------
(* Properties *)

TypeOK ==
    /\ phase \in {"events", "draw", "toggle", "countdown", "push", "poll", "join", "quit"}
    /\ after \in {"events", "countdown", "quit"}
    /\ menu \in {"idle", "counting", "active"}
    /\ {toggle, counting, countdownDue, pendingLimit, reset} \subseteq BOOLEAN
    /\ limit \in {"none", "settings", "clip"}
    /\ asked \in {"clip", "timed", "cancel"}
    /\ {recording, limitDue, finalize, error, eos, slotDue} \subseteq BOOLEAN
    /\ {incoming, shown, frame, scaler} \subseteq Dims \cup {NoFrame}
    /\ queue \in Seq(Dims)
    /\ Len(queue) <= MaxQueue
    /\ worker \in {"none", "init", "look", "asleep", "encode", "flush", "done"}

\* A worker that exists belongs to a recording, and a recording has a worker:
\* start() never replaces a std::thread that is still joinable, and nothing
\* is pushed to a recorder without one.
WorkerOwned == recording <=> worker # "none"

\* A recording that ends without an error, and not at its limit, has encoded
\* or decimated every frame it had queued when stop() was called.
StopKeepsTail == (worker = "done" /\ ~error /\ ~finalize) => queue = <<>>

\* stop() comes back to the render loop, whatever the worker is doing.
StopReturns == phase = "join" ~> phase # "join"

\* A clip with a limit stops by itself, unless its source goes away or FFmpeg
\* fails before.
TimedClipEnds ==
    (recording /\ limit # "none") ~> (~recording \/ shown = NoFrame \/ error)

\* A recorder that has failed says so, and is stopped.
FailureFinalizes == (recording /\ error) ~> ~recording

(* What the code intends and does not keep on every path; see the README.   *)

\* Cancelling a countdown cancels it.
CancelCancels ==
    [][(toggle /\ ~toggle' /\ asked = "cancel") => ~counting']_vars

\* A recording has the limit of a timed clip only if the user asked for one.
LimitAsked == [][(~recording /\ recording' /\ limit' = "clip") => asked = "timed"]_vars

\* A frame is scaled with a context that was made for its dimensions.
ScalerFits == [][EncodeFrame => scaler' = frame]_vars
=============================================================================
