---------------------------- MODULE ConnectPanel ----------------------------
(***************************************************************************)
(* The panel that adds an Android phone (src/src/media/renderer.cpp): the  *)
(* render thread that opens, draws and closes it, the worker that asks adb *)
(* for phones while it is open, and the detached threads that connect.     *)
(*                                                                         *)
(* stop_android_discovery() gives the worker 300 ms to leave an adb call,  *)
(* detaches it if it does not, and joins it otherwise.  A detached worker  *)
(* shares running and polling with its successor.  An adb call may take    *)
(* forever.  The draw reads and clears `animating' without a lock, and a   *)
(* thread that connected writes `visible' and `animating'.                 *)
(***************************************************************************)
EXTENDS WindowParameters

VARIABLES
    ui,        \* what the render thread does
    after,     \* what it does after stop_android_discovery()
    visible,   \* android_panel_visible_
    animating, \* android_panel_animating_
    shown,     \* android_panel_anim_ > 0
    polls,     \* android_discover_running_
    polling,   \* android_discover_in_progress_
    handle,    \* the thread android_discover_thread_ holds, or Nobody
    worker,    \* where each discovery worker is
    found,     \* android_discovered_
    rows,      \* android_discover_btns_: the phones that the rows were drawn for
    busy,      \* android_busy_
    submits,   \* where each connecting thread is
    torn       \* (history) a draw cleared the `animating' of a close

panelVars == <<ui, after, visible, animating, shown, polls, polling, handle, worker,
               found, rows, busy, submits, torn>>

\* The threads that have been started and not ended.
Connecting == {s \in Submits : submits[s] \in {"connecting", "closing"}}

TypeOK ==
    /\ ui \in {"idle", "clear", "check", "wait", "decide", "join", "spawn", "gone"}
    /\ after \in {"idle", "spawn", "gone"}
    /\ visible \in BOOLEAN /\ animating \in BOOLEAN /\ shown \in BOOLEAN
    /\ polls \in BOOLEAN /\ polling \in BOOLEAN
    /\ handle \in Workers \cup {Nobody}
    /\ worker \in [Workers -> {"free", "test", "mark", "call", "publish", "sleep", "ended"}]
    /\ found \in Lists /\ rows \in Lists
    /\ busy \in BOOLEAN
    /\ submits \in [Submits -> {"free", "connecting", "closing", "done"}]
    /\ torn \in BOOLEAN

Init ==
    /\ ui = "idle" /\ after = "idle"
    /\ visible = FALSE /\ animating = FALSE /\ shown = FALSE
    /\ polls = FALSE /\ polling = FALSE /\ handle = Nobody
    /\ worker = [w \in Workers |-> "free"]
    /\ found = <<>> /\ rows = <<>>
    /\ busy = FALSE
    /\ submits = [s \in Submits |-> "free"]
    /\ torn = FALSE

-----------------------------------------------------------------------------
(* stop_android_discovery(), called by the render thread; then `next'.     *)

StopDiscovery(next) ==
    /\ polls' = FALSE
    /\ after' = next
    /\ ui' = IF polls /\ handle # Nobody THEN "wait" ELSE next

\* The wait ends when polling is false or after 300 ms; polling is read again.
WaitOver ==
    /\ ui = "wait"
    /\ ui' = "decide"
    /\ UNCHANGED <<after, visible, animating, shown, polls, polling, handle, worker,
                   found, rows, busy, submits, torn>>

\* Mutant: the worker in the adb call is neither detached nor joined.
DetachOrJoinLeaves ==
    /\ ui = "decide"
    /\ ui' = IF polling THEN after ELSE "join"
    /\ UNCHANGED <<after, visible, animating, shown, polls, polling, handle, worker,
                   found, rows, busy, submits, torn>>

DetachOrJoin ==
    /\ ui = "decide"
    /\ IF polling THEN handle' = Nobody /\ ui' = after
                  ELSE ui' = "join" /\ UNCHANGED handle
    /\ UNCHANGED <<after, visible, animating, shown, polls, polling, worker, found,
                   rows, busy, submits, torn>>

Joined ==
    /\ ui = "join"
    /\ worker[handle] = "ended"
    /\ handle' = Nobody
    /\ ui' = after
    /\ UNCHANGED <<after, visible, animating, shown, polls, polling, worker, found,
                   rows, busy, submits, torn>>

-----------------------------------------------------------------------------
(* The events of the render thread.                                        *)

\* show_android_panel(): start_android_discovery() first stops the last one.
Show ==
    /\ ui = "idle" /\ ~visible
    /\ \E w \in Workers : worker[w] = "free"  \* bound: openings
    /\ visible' = TRUE /\ animating' = TRUE
    /\ torn' = FALSE
    /\ StopDiscovery("spawn")
    /\ UNCHANGED <<shown, polling, handle, worker, found, rows, busy,
                   submits>>

StartDiscovery ==
    /\ ui = "spawn"
    /\ polls' = TRUE
    /\ found' = <<>>
    /\ \E w \in Workers :
          /\ worker[w] = "free"
          /\ worker' = [worker EXCEPT ![w] = "test"]
          /\ handle' = w
    /\ ui' = "idle"
    /\ UNCHANGED <<after, visible, animating, shown, polling, rows,
                   busy, submits, torn>>

\* Escape, the close button, or a click outside.
Close ==
    /\ ui = "idle" /\ visible
    /\ visible' = FALSE /\ animating' = TRUE
    /\ UNCHANGED <<ui, after, shown, polls, polling, handle, worker, found, rows, busy, submits, torn>>

\* android_submit(), by Enter, or by the button, which looks at busy.
Submit(s) ==
    /\ ui = "idle" /\ visible
    /\ submits[s] = "free"
    /\ busy' = TRUE
    /\ submits' = [submits EXCEPT ![s] = "connecting"]
    /\ UNCHANGED <<ui, after, visible, animating, shown, polls, polling, handle,
                   worker, found, rows, torn>>

\* shutdown(), after run() has returned.
Shutdown ==
    /\ ui = "idle"
    /\ StopDiscovery("gone")
    /\ UNCHANGED <<visible, animating, shown, polling, handle, worker, found, rows, busy, submits, torn>>

-----------------------------------------------------------------------------
(* draw_android_panel(), which is called while visible or animating.       *)

DrawMoving ==
    /\ ui = "idle" /\ animating /\ ~shown
    /\ shown' = TRUE
    /\ UNCHANGED <<ui, after, visible, animating, polls, polling, handle, worker,
                   found, rows, busy, submits, torn>>

\* The 200 ms are over: the position is that of `visible', then `animating' goes.
DrawSettled ==
    /\ ui = "idle" /\ animating
    /\ shown' = visible
    /\ ui' = "clear"
    /\ UNCHANGED <<after, visible, animating, polls, polling, handle, worker, found,
                   rows, busy, submits, torn>>

DrawClear ==
    /\ ui = "clear"
    /\ animating' = FALSE
    /\ torn' = (torn \/ (shown /\ ~visible /\ \A s \in Submits : submits[s] # "closing"))
    /\ ui' = "check"
    /\ UNCHANGED <<after, visible, shown, polls, polling, handle, worker, found, rows, busy, submits>>

DrawStill ==
    /\ ui = "idle" /\ ~animating /\ visible
    /\ shown' = TRUE
    /\ ui' = "check"
    /\ UNCHANGED <<after, visible, animating, polls, polling, handle, worker, found,
                   rows, busy, submits, torn>>

\* Mutant: the hidden panel leaves the discovery running.
DrawCheckOnly ==
    /\ ui = "check"
    /\ rows' = found /\ ui' = "idle"
    /\ UNCHANGED <<after, visible, animating, shown, polls, polling, handle, worker,
                   found, busy, submits, torn>>

\* A hidden panel stops the discovery; another one has its rows drawn.
DrawCheck ==
    /\ ui = "check"
    /\ IF ~shown /\ ~visible
       THEN StopDiscovery("idle") /\ UNCHANGED rows
       ELSE rows' = found /\ ui' = "idle" /\ UNCHANGED <<polls, after>>
    /\ UNCHANGED <<visible, animating, shown, polling, handle, worker, found, busy, submits, torn>>

Draw == DrawMoving \/ DrawSettled \/ DrawClear \/ DrawStill \/ DrawCheck

-----------------------------------------------------------------------------
(* The discovery worker.                                                   *)

WorkerTests(w) ==
    /\ worker[w] = "test"
    /\ worker' = [worker EXCEPT ![w] = IF polls THEN "mark" ELSE "ended"]
    /\ UNCHANGED <<polling, found>>

WorkerMarks(w) ==
    /\ worker[w] = "mark"
    /\ polling' = TRUE
    /\ worker' = [worker EXCEPT ![w] = "call"]
    /\ UNCHANGED found

\* android_discover_fn_() returns, or throws.
AdbReturns(w) ==
    /\ worker[w] = "call"
    /\ polling' = FALSE
    /\ worker' = [worker EXCEPT ![w] = "publish"]
    /\ UNCHANGED found

Publish(w) ==
    /\ worker[w] = "publish"
    /\ found' \in Lists
    /\ worker' = [worker EXCEPT ![w] = "sleep"]
    /\ UNCHANGED polling

SleepOver(w) ==
    /\ worker[w] = "sleep"
    /\ worker' = [worker EXCEPT ![w] = "test"]
    /\ UNCHANGED <<polling, found>>

\* What a worker does without waiting for adb.
WorkerRuns(w) == WorkerTests(w) \/ WorkerMarks(w) \/ Publish(w) \/ SleepOver(w)

WorkerStep ==
    /\ \E w \in Workers : WorkerRuns(w) \/ AdbReturns(w)
    /\ UNCHANGED <<ui, after, visible, animating, shown, polls, handle, rows, busy, submits, torn>>

-----------------------------------------------------------------------------
(* The thread of a submit.                                                 *)

\* Mutant: an error leaves the button busy.
ConnectFailsBusy(s) ==
    /\ submits[s] = "connecting"
    /\ submits' = [submits EXCEPT ![s] = "done"]
    /\ UNCHANGED <<ui, after, visible, animating, shown, polls, polling, handle,
                   worker, found, rows, busy, torn>>

\* Its function returns: a result that starts with "Mirroring " closes the panel.
ConnectFails(s) ==
    /\ submits[s] = "connecting"
    /\ busy' = FALSE
    /\ submits' = [submits EXCEPT ![s] = "done"]
    /\ UNCHANGED <<ui, after, visible, animating, shown, polls, polling, handle,
                   worker, found, rows, torn>>

ConnectSucceeds(s) ==
    /\ submits[s] = "connecting"
    /\ busy' = FALSE
    /\ visible' = FALSE
    /\ submits' = [submits EXCEPT ![s] = "closing"]
    /\ UNCHANGED <<ui, after, animating, shown, polls, polling, handle, worker, found,
                   rows, torn>>

ConnectAnimates(s) ==
    /\ submits[s] = "closing"
    /\ animating' = TRUE
    /\ submits' = [submits EXCEPT ![s] = "done"]
    /\ UNCHANGED <<ui, after, visible, shown, polls, polling, handle, worker, found,
                   rows, busy, torn>>

Next ==
    \/ WaitOver \/ DetachOrJoin \/ Joined
    \/ Show \/ StartDiscovery \/ Close
    \/ \E s \in Submits : Submit(s)
    \/ Shutdown
    \/ Draw
    \/ WorkerStep
    \/ \E s \in Submits : ConnectFails(s) \/ ConnectSucceeds(s) \/ ConnectAnimates(s)

\* The render thread draws every frame and goes on after a wait; the threads
\* run.  Nothing is said of adb and of the function that connects.
Fairness ==
    /\ WF_panelVars(WaitOver) /\ WF_panelVars(DetachOrJoin) /\ WF_panelVars(Joined)
    /\ WF_panelVars(StartDiscovery)
    /\ WF_panelVars(DrawSettled) /\ WF_panelVars(DrawClear) /\ WF_panelVars(DrawCheck)
    /\ \A s \in Submits : WF_panelVars(ConnectAnimates(s))
    /\ \A w \in Workers : WF_panelVars(WorkerStep /\ WorkerRuns(w))

Spec == Init /\ [][Next]_panelVars /\ Fairness

-----------------------------------------------------------------------------
(* Properties.                                                             *)

\* start_android_discovery() assigns to android_discover_thread_ and the
\* destructor destroys it: neither may find a thread that was neither joined
\* nor detached, which would terminate the program.
HandleEmpty == ui \in {"spawn", "gone"} => handle = Nobody

\* The button says "Working...", and refuses a click, only while a thread
\* connects; with two at once (Enter does not look at busy) it may say less.
BusyIsTrue == busy => \E s \in Submits : submits[s] = "connecting"

\* After the panel was closed, by whichever thread, the discovery is stopped, so
\* that adb is not asked every second for good; unless the draw that ended the
\* opening cleared the flag by which the closing thread asked for another draw.
DiscoveryStops == ~visible ~> (~polls \/ visible \/ torn)

\* (Not true.)  The same without the exception.
ClosedStops == ~visible ~> (~polls \/ visible)

\* (Not true.)  The worker that the render thread joins is not in an adb call:
\* lines 6415 and 6416 detach it "so we never freeze the UI / app shutdown
\* waiting on a stuck adb".
NeverJoinsAdb == ui = "join" => worker[handle] # "call"

\* (Not true.)  One worker at a time asks adb.
OnePoller == \A v, w \in Workers : worker[v] = "call" /\ worker[w] = "call" => v = w

\* (Not true.)  A click on a row fills in the phone the row shows: it takes the
\* i-th phone of the list of now for the i-th row of the last draw (1599 to 1607).
RowIsShown ==
    ui = "idle" /\ visible =>
       \A i \in DOMAIN rows \cap DOMAIN found : rows[i] = found[i]

\* (Not true.)  No thread writes to the renderer after it is gone.
NoThreadLeft ==
    ui = "gone" => /\ Connecting = {}
                   /\ \A w \in Workers : worker[w] \in {"free", "ended"}
=============================================================================
