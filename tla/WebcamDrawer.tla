---------------------------- MODULE WebcamDrawer ---------------------------
(***************************************************************************)
(* The webcam drawer: media/webcam.cpp, whose worker thread captures from  *)
(* a camera; the renderer's launch, toggle and picker, which start and     *)
(* stop it from detached threads so that the window never waits; and the   *)
(* crash guard of settings.cpp, a file that says that a start has not come *)
(* to its first frame yet, by which the next launch knows of a camera that *)
(* brings the program down.                                                *)
(*                                                                         *)
(* The program may crash at any time; what is on disk survives.            *)
(***************************************************************************)
EXTENDS Naturals

CONSTANTS
    Nobody,     \* no camera
    Cameras,    \* devices
    Tasks       \* detached threads that exist at once

VARIABLES
    app,         \* the process: down, up, in its destructors, or aborted
    savedOpen,   \* settings.ini: webcam_drawer_open
    savedDevice, \* settings.ini: webcam_device_id
    marker,      \* webcam_pending.lock exists
    visible,     \* webcam_drawer_visible_
    manual,      \* webcam_requires_manual_pick_
    cleared,     \* webcam_pending_cleared_
    task,        \* the detached threads: where they are, and what is next
    worker,      \* worker_: whether it is joinable, and how far it is
    running,     \* WebcamCapture::running_
    latest,      \* latest_dirty_: a frame waits to be polled
    polled,      \* a frame the render loop has taken, from which capture
    shown,       \* the render loop has seen a frame of this capture
    spoiled,     \* threads of two clicks overlapped, or an old frame counted
    unproven     \* the last run crashed while a capture had shown no frame

webcamVars == <<app, savedOpen, savedDevice, marker, visible, manual, cleared, task,
                worker, running, latest, polled, shown, spoiled, unproven>>

savedVars == <<savedOpen, savedDevice>>
uiVars == <<visible, manual>>
captureVars == <<worker, running, latest>>
ghostVars == <<shown, spoiled, unproven>>

Devices == Cameras \cup {Nobody}

Idle == [at |-> "none", closes |-> FALSE, starts |-> FALSE]

TypeOK ==
    /\ app \in {"down", "up", "joining", "aborted"}
    /\ savedOpen \in BOOLEAN /\ savedDevice \in Devices /\ marker \in BOOLEAN
    /\ visible \in BOOLEAN /\ manual \in BOOLEAN /\ cleared \in BOOLEAN
    /\ task \in [Tasks -> [at : {"none", "stop", "join", "clear", "mark", "start",
                                 "spawn", "wait", "failed"},
                           closes : BOOLEAN, starts : BOOLEAN]]
    /\ worker \in {"none", "init", "failed", "run", "ended"}
    /\ running \in BOOLEAN /\ latest \in BOOLEAN
    /\ polled \in {"none", "new", "old"}
    /\ shown \in BOOLEAN /\ spoiled \in BOOLEAN /\ unproven \in BOOLEAN

\* The first launch is still to come.
Init ==
    /\ app = "down"
    /\ savedOpen = FALSE /\ savedDevice = Nobody /\ marker = FALSE
    /\ visible = FALSE /\ manual = FALSE /\ cleared = TRUE
    /\ task = [t \in Tasks |-> Idle]
    /\ worker = "none" /\ running = FALSE /\ latest = FALSE
    /\ polled = "none" /\ shown = FALSE /\ spoiled = FALSE /\ unproven = FALSE

Busy == \E t \in Tasks : task[t].at # "none"

\* A detached thread begins; where there are several they may overlap.
Begins(at, closes, starts) ==
    /\ \E t \in Tasks :
         /\ task[t].at = "none"
         /\ task' = [task EXCEPT ![t] = [at |-> at, closes |-> closes, starts |-> starts]]
    /\ spoiled' = (spoiled \/ Busy)

NoThread == UNCHANGED task /\ spoiled' = (spoiled \/ Busy)

(***************************************************************************)
(* init(): the launch.                                                     *)
(***************************************************************************)

\* The process is new.
FreshProcess ==
    /\ app \in {"down", "aborted"} /\ app' = "up"
    /\ worker' = "none" /\ running' = FALSE /\ latest' = FALSE /\ polled' = "none"
    /\ shown' = FALSE /\ unproven' = FALSE

\* The drawer is opened again as it was left.
Reopen ==
    /\ visible' = TRUE /\ manual' = FALSE
    /\ marker' = TRUE /\ cleared' = FALSE
    /\ \E t \in Tasks : task' = [task EXCEPT ![t].at = "start"]
    /\ UNCHANGED savedVars

\* Mutant: the guard is not looked at.
LaunchUnguarded ==
    /\ FreshProcess /\ spoiled' = FALSE
    /\ IF savedOpen THEN Reopen
       ELSE visible' = FALSE /\ manual' = FALSE /\ cleared' = TRUE
            /\ UNCHANGED <<savedVars, marker, task>>

\* A drawer that was left open is opened again, unless the guard says that
\* the last launch did not get past its first frame: then the camera is
\* forgotten and waits for the user's choice.
Launch ==
    /\ FreshProcess /\ spoiled' = FALSE
    /\ CASE savedOpen /\ ~marker -> Reopen
         [] savedOpen /\ marker ->
              /\ savedOpen' = FALSE /\ savedDevice' = Nobody /\ marker' = FALSE
              /\ visible' = FALSE /\ manual' = TRUE /\ cleared' = TRUE
              /\ UNCHANGED task
         [] ~savedOpen ->
              /\ visible' = FALSE /\ manual' = FALSE /\ cleared' = TRUE
              /\ UNCHANGED <<savedVars, marker, task>>

(***************************************************************************)
(* The render loop: the drawer's key, its picker, and its frames.          *)
(***************************************************************************)

clickKeeps == <<app, captureVars, polled, shown, unproven>>

\* Between two polls, for it is one thread.
CanClick == app = "up" /\ polled = "none"

\* toggle_webcam_drawer(), opening: a capture is started if none runs.
OpenDrawer ==
    /\ CanClick /\ ~visible
    /\ visible' = TRUE /\ savedOpen' = TRUE
    /\ IF manual \/ running
       THEN NoThread /\ UNCHANGED <<marker, cleared>>
       ELSE marker' = TRUE /\ cleared' = FALSE /\ Begins("start", FALSE, FALSE)
    /\ UNCHANGED <<savedDevice, manual, clickKeeps>>

\* Mutant: the capture goes on while the drawer is closed.
CloseDrawerOnly ==
    /\ CanClick /\ visible
    /\ visible' = FALSE /\ savedOpen' = FALSE
    /\ NoThread
    /\ UNCHANGED <<savedDevice, marker, manual, cleared, clickKeeps>>

\* toggle_webcam_drawer(), closing: a capture that runs is stopped.
CloseDrawer ==
    /\ CanClick /\ visible
    /\ visible' = FALSE /\ savedOpen' = FALSE
    /\ IF running THEN Begins("stop", TRUE, FALSE) ELSE NoThread
    /\ UNCHANGED <<savedDevice, marker, manual, cleared, clickKeeps>>

\* The picker or a dot in the drawer: another camera, stopped and started
\* by one thread, which does what was so at the click.
PickCamera(d) ==
    /\ CanClick /\ d # savedDevice
    /\ savedDevice' = d
    /\ manual' = FALSE
    /\ CASE running -> Begins("stop", FALSE, visible)
         [] ~running /\ visible -> Begins("mark", FALSE, TRUE)
         [] ~running /\ ~visible -> NoThread
    /\ UNCHANGED <<savedOpen, marker, visible, cleared, clickKeeps>>

pollKeeps == <<app, savedVars, uiVars, task, worker, running, unproven>>

\* poll_webcam_frame(): get_latest(), under its mutex.
PollTakes ==
    /\ CanClick /\ latest
    /\ latest' = FALSE
    /\ polled' = "new"
    /\ UNCHANGED <<marker, cleared, shown, spoiled, pollKeeps>>

\* The first frame clears the guard.
PollClears ==
    /\ app = "up" /\ polled # "none"
    /\ polled' = "none"
    /\ marker' = (marker /\ cleared)
    /\ cleared' = TRUE
    /\ shown' = (shown \/ polled = "new")
    /\ spoiled' = (spoiled \/ (polled = "old" /\ ~cleared))
    /\ UNCHANGED <<latest, pollKeeps>>

(***************************************************************************)
(* The detached threads: stop(), start() and the guard around them.        *)
(***************************************************************************)

taskKeeps == <<savedVars, uiVars, spoiled, unproven>>

Goes(t, to) == task' = [task EXCEPT ![t].at = to]

\* stop(): running_ is reset.
TaskStops(t) ==
    /\ task[t].at = "stop"
    /\ running' = FALSE
    /\ Goes(t, "join")
    /\ UNCHANGED <<app, marker, cleared, worker, latest, polled, shown, taskKeeps>>

\* The worker is joined, and a frame it left is dropped.
TaskJoins(t) ==
    /\ task[t].at = "join" /\ worker \in {"none", "failed", "ended"}
    /\ worker' = "none"
    /\ latest' = FALSE
    /\ polled' = IF polled = "new" THEN "old" ELSE polled
    /\ Goes(t, "clear")
    /\ UNCHANGED <<app, marker, cleared, running, shown, taskKeeps>>

\* The guard is cleared; a thread that closes the drawer ends.
TaskClears(t) ==
    /\ task[t].at = "clear"
    /\ marker' = FALSE
    /\ cleared' = (cleared \/ task[t].closes)
    /\ Goes(t, IF task[t].starts THEN "mark" ELSE "none")
    /\ UNCHANGED <<app, captureVars, polled, shown, taskKeeps>>

\* Mutant: another camera is started without the guard.
TaskMarksNothing(t) ==
    /\ task[t].at = "mark"
    /\ Goes(t, "start")
    /\ UNCHANGED <<app, marker, cleared, captureVars, polled, shown, taskKeeps>>

\* The guard is set.
TaskMarks(t) ==
    /\ task[t].at = "mark"
    /\ marker' = TRUE
    /\ cleared' = FALSE
    /\ Goes(t, "start")
    /\ UNCHANGED <<app, captureVars, polled, shown, taskKeeps>>

\* start(): it fails if a capture runs.
TaskStarts(t) ==
    /\ task[t].at = "start"
    /\ Goes(t, IF running THEN "failed" ELSE "spawn")
    /\ UNCHANGED <<app, marker, cleared, captureVars, polled, shown, taskKeeps>>

\* A thread is assigned to worker_; one that is joinable, be it at its end,
\* terminates the program.
TaskSpawns(t) ==
    /\ task[t].at = "spawn"
    /\ IF worker = "none"
       THEN worker' = "init" /\ shown' = FALSE /\ Goes(t, "wait") /\ UNCHANGED app
       ELSE app' = "aborted" /\ task' = [u \in Tasks |-> Idle]
            /\ UNCHANGED <<worker, shown>>
    /\ UNCHANGED <<marker, cleared, running, latest, polled, taskKeeps>>

\* The worker has said how its start went; one that failed is joined.
TaskLearns(t) ==
    /\ task[t].at = "wait" /\ worker # "init"
    /\ IF worker = "failed" THEN worker' = "none" /\ Goes(t, "failed")
                            ELSE UNCHANGED worker /\ Goes(t, "none")
    /\ UNCHANGED <<app, marker, cleared, running, latest, polled, shown, taskKeeps>>

\* start() returned false: the guard is cleared.
TaskFails(t) ==
    /\ task[t].at = "failed"
    /\ marker' = FALSE
    /\ cleared' = TRUE
    /\ Goes(t, "none")
    /\ UNCHANGED <<app, captureVars, polled, shown, taskKeeps>>

(***************************************************************************)
(* run_capture_worker().                                                   *)
(***************************************************************************)

workerKeeps == <<app, marker, cleared, savedVars, uiVars, task, polled, ghostVars>>

\* The camera is there and delivers: running_ is set, whatever it was.
WorkerRuns ==
    /\ worker = "init"
    /\ worker' = "run"
    /\ running' = TRUE
    /\ UNCHANGED <<latest, workerKeeps>>

\* Media Foundation, the camera or its format fails.
WorkerFails ==
    /\ worker = "init"
    /\ worker' = "failed"
    /\ UNCHANGED <<running, latest, workerKeeps>>

\* A sample is converted and kept as the latest.
WorkerCaptures ==
    /\ worker = "run"
    /\ latest' = TRUE
    /\ UNCHANGED <<worker, running, workerKeeps>>

\* A read failed, the stream ended or a buffer was invalid.
WorkerBreaks ==
    /\ worker = "run"
    /\ worker' = "ended"
    /\ running' = FALSE
    /\ UNCHANGED <<latest, workerKeeps>>

\* Mutant: the loop ends with the camera only.
WorkerGoesOn ==
    /\ worker = "run" /\ ~running /\ ~latest
    /\ worker' = "ended"
    /\ UNCHANGED <<running, latest, workerKeeps>>

\* The loop's condition.
WorkerEnds ==
    /\ worker = "run" /\ ~running
    /\ worker' = "ended"
    /\ UNCHANGED <<running, latest, workerKeeps>>

(***************************************************************************)
(* The end of the process.                                                 *)
(***************************************************************************)

exitKeeps == <<savedVars, uiVars, marker, cleared, latest, polled, shown, spoiled>>

\* The destructor of webcam_ calls stop().
Exit ==
    /\ CanClick
    /\ app' = "joining"
    /\ running' = FALSE
    /\ UNCHANGED <<task, worker, unproven, exitKeeps>>

Exited ==
    /\ app = "joining" /\ worker \in {"none", "failed", "ended"}
    /\ app' = "down"
    /\ worker' = "none"
    /\ task' = [t \in Tasks |-> Idle]
    /\ UNCHANGED <<running, unproven, exitKeeps>>

\* The process dies, in the capture stack or elsewhere.
Crash ==
    /\ app = "up"
    /\ app' = "down"
    /\ unproven' = (worker \in {"init", "run"} /\ ~shown /\ ~spoiled)
    /\ worker' = "none"
    /\ task' = [t \in Tasks |-> Idle]
    /\ UNCHANGED <<running, exitKeeps>>

(***************************************************************************)
(* The specification.                                                      *)
(***************************************************************************)

TaskStep(t) ==
    \/ TaskStops(t) \/ TaskJoins(t) \/ TaskClears(t) \/ TaskMarks(t)
    \/ TaskStarts(t) \/ TaskSpawns(t) \/ TaskLearns(t) \/ TaskFails(t)

Next ==
    \/ Launch \/ OpenDrawer \/ CloseDrawer \/ PollTakes \/ PollClears
    \/ Exit \/ Exited \/ Crash
    \/ \E d \in Cameras : PickCamera(d)
    \/ app \in {"up", "joining"} /\
         \/ \E t \in Tasks : TaskStep(t)
         \/ WorkerRuns \/ WorkerFails \/ WorkerCaptures \/ WorkerBreaks \/ WorkerEnds

Spec == Init /\ [][Next]_webcamVars

\* Threads that can run do; nothing is asked of user and camera.
Fairness ==
    /\ WF_webcamVars(WorkerEnds)
    /\ WF_webcamVars(Exited)
    /\ \A t \in Tasks : WF_webcamVars(TaskStep(t))

FairSpec == Spec /\ Fairness

(***************************************************************************)
(* Properties.                                                             *)
(***************************************************************************)

\* A camera with which the program died before its first frame is not
\* opened by the next launch, unless the threads of two clicks overlapped
\* or a frame of the capture before came too late ("a bad camera can't lock
\* the app", README.md:153).
CrashGuard == [][(unproven /\ app' = "up") => ~visible']_webcamVars

\* When everything has settled and the drawer is closed, no camera runs,
\* unless it was closed while its start was still under way.
ClosedMeansOff == app = "up" /\ ~visible /\ ~Busy /\ ~spoiled => worker # "run"

\* A camera is being started while the process ends, or was started after the
\* destructor had reset running_.
Starts == worker = "init" \/ (worker = "run" /\ running)

\* The process ends, unless its camera is started behind the destructor.
ExitReturns == []<>(app = "joining" => Starts)

(***************************************************************************)
(* What the code intends and does not keep on every path.                  *)
(***************************************************************************)

\* The camera may fail, the program goes on ("stop capture with an error
\* instead of crashing the app", README.md:149).
FailsSafe == app = "aborted" => spoiled

\* The guard disables a camera only after a crash.
GuardAfterCrash == [][(app = "down" /\ app' = "up" /\ manual') => unproven]_webcamVars

\* The process ends, whatever its camera does.
ExitAlwaysReturns == []<>(app # "joining")

\* Both without the exception for clicks that come too fast.
ClosedAlwaysOff == app = "up" /\ ~visible /\ ~Busy => worker # "run"
=============================================================================
