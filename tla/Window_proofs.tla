----------------------------- MODULE Window_proofs -----------------------------
(***************************************************************************)
(* Proofs about the parts of the renderer as MCWindow composes them: the   *)
(* recording, the panel that adds a phone, the handover of frames, the     *)
(* modal editors, the pictures and their files, for any number of workers, *)
(* sources, jobs and pictures, any sizes of videos and cameras, and any    *)
(* bounds.                                                                 *)
(***************************************************************************)

EXTENDS MCWindow, SequenceTheorems, TLAPS

\* The bounds are numbers.
LEMMA Bounds == /\ MaxStrokes \in Nat /\ MaxJobs \in Nat
                /\ MaxShots \in Nat /\ MaxSeconds \in Nat
  BY MaxAssumption

(***************************************************************************)
(* Recording: start() and stop() bracket the worker thread, whatever the   *)
(* user, the source and FFmpeg do.                                         *)
(***************************************************************************)

\* stop() and the end of stream are one: the render loop waits in stop() from
\* the moment it has set the flag until the worker is joined.
StopSignals ==
    /\ (recording /\ eos) <=> phase = "join"
    /\ finalize => recording

\* A worker that is on its way out for no other reason has seen the end of
\* stream and an empty queue.
EndedByStop ==
    (worker \in {"flush", "done"} /\ ~error /\ ~finalize) => (eos /\ queue = <<>>)

RecordingInv == TypeOK /\ WorkerOwned /\ StopSignals /\ EndedByStop

\* start() leaves an empty queue.
LEMMA EmptyQueue == <<>> \in Seq(Dims) /\ Len(<<>>) <= MaxQueue
    BY MaxQueueAssumption

\* The types are an invariant of their own.
LEMMA RecordingTypes == TypeOK /\ [Next]_vars => TypeOK'
<1> SUFFICES ASSUME TypeOK, [Next]_vars PROVE TypeOK'
    OBVIOUS
<1> USE NoFrameAssumption, MaxQueueAssumption DEF TypeOK, requestVars, screenVars, takeVars, workerVars
<1>1. CASE Toggle
  BY <1>1 DEF Toggle, Request
<1>2. CASE MenuStart
  BY <1>2 DEF MenuStart, Request
<1>3. CASE MenuDelay
  BY <1>3 DEF MenuDelay, Request
<1>4. CASE MenuTimed
  BY <1>4 DEF MenuTimed, Request
<1>5. CASE Quit
  BY <1>5 DEF Quit, RecorderStop, Notified
<1>6. CASE Reset
  BY <1>6 DEF Reset
<1>7. CASE NoReset
  BY <1>7 DEF NoReset
<1>8. CASE Draw
  BY <1>8 DEF Draw, Status
<1>9. CASE NoToggle
  BY <1>9 DEF NoToggle
<1>10. CASE ToggleStops
  BY <1>10 DEF ToggleStops, RecorderStop, Notified
<1>11. CASE ToggleCounts
  BY <1>11 DEF ToggleCounts
<1>12. CASE ToggleStarts
  BY <1>12, EmptyQueue DEF ToggleStarts, StartRecording, RecorderStart
<1>13. CASE NoCountdown
  BY <1>13 DEF NoCountdown
<1>14. CASE CountdownEnds
  BY <1>14, EmptyQueue DEF CountdownEnds, StartRecording, RecorderStart
<1>15. CASE NoPush
  BY <1>15 DEF NoPush
<1>16. CASE Push
  <2> DEFINE room == IF Len(queue) >= MaxQueue THEN Tail(queue) ELSE queue
  <2>1. shown \in Dims
    BY <1>16 DEF Push
  <2>2. room \in Seq(Dims) /\ Len(room) < MaxQueue
    OBVIOUS
  <2>3. queue' \in Seq(Dims) /\ Len(queue') <= MaxQueue
    BY <1>16, <2>1, <2>2 DEF Push
  <2> QED
    BY <1>16, <2>3 DEF Push, Notified
<1>17. CASE NoPoll
  BY <1>17 DEF NoPoll
<1>18. CASE PollFinalizes
  BY <1>18 DEF PollFinalizes, RecorderStop, Notified
<1>19. CASE Joined
  BY <1>19 DEF Joined
<1>20. CASE InitEncoder
  BY <1>20 DEF InitEncoder, WorkerKeeps
<1>21. CASE InitEncoderFails
  BY <1>21 DEF InitEncoderFails, WorkerKeeps
<1>22. CASE TakeFrame
  <2>1. Head(queue) \in Dims /\ Tail(queue) \in Seq(Dims) /\ Len(Tail(queue)) <= MaxQueue
    BY <1>22 DEF TakeFrame
  <2> QED
    BY <1>22, <2>1 DEF TakeFrame, WorkerKeeps
<1>23. CASE LookAgain
  BY <1>23 DEF LookAgain, WorkerKeeps
<1>24. CASE SkipFrame
  BY <1>24 DEF SkipFrame, WorkerKeeps
<1>25. CASE EncodeFrame
  BY <1>25 DEF EncodeFrame, LimitReached, WorkerKeeps
<1>26. CASE EncodeFails
  BY <1>26 DEF EncodeFails, WorkerKeeps
<1>27. CASE Teardown
  BY <1>27 DEF Teardown, WorkerKeeps
<1>28. CASE SubmitFrame
  BY <1>28 DEF SubmitFrame
<1>29. CASE RequestReset
  BY <1>29 DEF RequestReset
<1>30. CASE CountdownClock
  BY <1>30 DEF CountdownClock
<1>31. CASE LimitClock
  BY <1>31 DEF LimitClock
<1>32. CASE SlotClock
  BY <1>32 DEF SlotClock
<1>33. CASE UNCHANGED vars
  BY <1>33 DEF vars
<1> QED
  BY <1>1, <1>2, <1>3, <1>4, <1>5, <1>6, <1>7, <1>8, <1>9, <1>10, <1>11, <1>12, <1>13,
     <1>14, <1>15, <1>16, <1>17, <1>18, <1>19, <1>20, <1>21, <1>22, <1>23, <1>24,
     <1>25, <1>26, <1>27, <1>28, <1>29, <1>30, <1>31, <1>32, <1>33 DEF Next, UserStep,
     LoopStep, WorkerStep

\* At the start nothing is recorded.
LEMMA RecordingBegins == Init => RecordingInv
    BY EmptyQueue DEF Init, RecordingInv, TypeOK, WorkerOwned, StopSignals,
       EndedByStop

\* Every step keeps the invariant: only stop() sets the end of stream, and only
\* start() and the join move `recording`, each together with the worker.
LEMMA RecordingKept == RecordingInv /\ [Next]_vars => RecordingInv'
<1> SUFFICES ASSUME RecordingInv, [Next]_vars PROVE (WorkerOwned /\ StopSignals /\ EndedByStop)'
    BY RecordingTypes DEF RecordingInv
<1> USE DEF RecordingInv, TypeOK, WorkerOwned, StopSignals, EndedByStop, requestVars, screenVars, takeVars, workerVars
<1>1. CASE Toggle
  BY <1>1 DEF Toggle, Request
<1>2. CASE MenuStart
  BY <1>2 DEF MenuStart, Request
<1>3. CASE MenuDelay
  BY <1>3 DEF MenuDelay, Request
<1>4. CASE MenuTimed
  BY <1>4 DEF MenuTimed, Request
<1>5. CASE Quit
  BY <1>5 DEF Quit, RecorderStop, Notified
<1>6. CASE Reset
  BY <1>6 DEF Reset
<1>7. CASE NoReset
  BY <1>7 DEF NoReset
<1>8. CASE Draw
  BY <1>8 DEF Draw, Status
<1>9. CASE NoToggle
  BY <1>9 DEF NoToggle
<1>10. CASE ToggleStops
  BY <1>10 DEF ToggleStops, RecorderStop, Notified
<1>11. CASE ToggleCounts
  BY <1>11 DEF ToggleCounts
<1>12. CASE ToggleStarts
  BY <1>12 DEF ToggleStarts, StartRecording, RecorderStart
<1>13. CASE NoCountdown
  BY <1>13 DEF NoCountdown
<1>14. CASE CountdownEnds
  BY <1>14 DEF CountdownEnds, StartRecording, RecorderStart
<1>15. CASE NoPush
  BY <1>15 DEF NoPush
<1>16. CASE Push
  BY <1>16 DEF Push, Notified
<1>17. CASE NoPoll
  BY <1>17 DEF NoPoll
<1>18. CASE PollFinalizes
  BY <1>18 DEF PollFinalizes, RecorderStop, Notified
<1>19. CASE Joined
  BY <1>19 DEF Joined
<1>20. CASE InitEncoder
  BY <1>20 DEF InitEncoder, WorkerKeeps
<1>21. CASE InitEncoderFails
  BY <1>21 DEF InitEncoderFails, WorkerKeeps
<1>22. CASE TakeFrame
  BY <1>22 DEF TakeFrame, WorkerKeeps
<1>23. CASE LookAgain
  BY <1>23 DEF LookAgain, WorkerKeeps
<1>24. CASE SkipFrame
  BY <1>24 DEF SkipFrame, WorkerKeeps
<1>25. CASE EncodeFrame
  BY <1>25 DEF EncodeFrame, LimitReached, WorkerKeeps
<1>26. CASE EncodeFails
  BY <1>26 DEF EncodeFails, WorkerKeeps
<1>27. CASE Teardown
  BY <1>27 DEF Teardown, WorkerKeeps
<1>28. CASE SubmitFrame
  BY <1>28 DEF SubmitFrame
<1>29. CASE RequestReset
  BY <1>29 DEF RequestReset
<1>30. CASE CountdownClock
  BY <1>30 DEF CountdownClock
<1>31. CASE LimitClock
  BY <1>31 DEF LimitClock
<1>32. CASE SlotClock
  BY <1>32 DEF SlotClock
<1>33. CASE UNCHANGED vars
  BY <1>33 DEF vars
<1> QED
  BY <1>1, <1>2, <1>3, <1>4, <1>5, <1>6, <1>7, <1>8, <1>9, <1>10, <1>11, <1>12, <1>13,
     <1>14, <1>15, <1>16, <1>17, <1>18, <1>19, <1>20, <1>21, <1>22, <1>23, <1>24,
     <1>25, <1>26, <1>27, <1>28, <1>29, <1>30, <1>31, <1>32, <1>33 DEF Next, UserStep,
     LoopStep, WorkerStep

(***************************************************************************)
(* ConnectPanel: the handle of the thread that looks for phones.           *)
(***************************************************************************)

PanelTypes ==
    /\ ui \in {"idle", "clear", "check", "wait", "decide", "join", "spawn", "gone"}
    /\ next \in {"idle", "spawn", "gone"}
    /\ handle \in Workers \cup {Nobody}
    /\ pollers \in [Workers -> {"free", "test", "mark", "call", "publish", "sleep", "ended"}]
    /\ found \in Lists /\ rows \in Lists
    /\ submits \in [Submits -> {"free", "connecting", "closing", "done"}]

PanelFlags ==
    /\ visible \in BOOLEAN /\ animating \in BOOLEAN /\ drawn \in BOOLEAN
    /\ polls \in BOOLEAN /\ polling \in BOOLEAN /\ busy \in BOOLEAN /\ torn \in BOOLEAN

\* Both are TypeOK.
LEMMA PanelTypesTogether == Panel!TypeOK <=> PanelTypes /\ PanelFlags
  BY DEF Panel!TypeOK, PanelTypes, PanelFlags

\* The handle that the panel's thread left goes on until stop_android_discovery
\* has waited for it.
HandlePlaces ==
    /\ handle # Nobody => polls \/ ui \in {"wait", "decide", "join"}
    /\ ui \in {"spawn", "gone"} => handle = Nobody

PanelInv == PanelTypes /\ PanelFlags /\ HandlePlaces /\ Panel!BusyIsTrue

\* Every step of the panel, its worker and its connecting threads keeps it.
LEMMA PanelKept ==
    ASSUME PanelInv, Panel!Next \/ UNCHANGED panelV
    PROVE  PanelInv'
<1> USE DEF PanelInv
<1>1. ASSUME Panel!WaitOver PROVE PanelInv'
  BY <1>1 DEF Panel!WaitOver, PanelTypes, PanelFlags, HandlePlaces, Panel!BusyIsTrue
<1>2. ASSUME Panel!DetachOrJoin PROVE PanelInv'
  BY <1>2 DEF Panel!DetachOrJoin, PanelTypes, PanelFlags, HandlePlaces,
     Panel!BusyIsTrue
<1>3. ASSUME Panel!Joined PROVE PanelInv'
  BY <1>3 DEF Panel!Joined, PanelTypes, PanelFlags, HandlePlaces, Panel!BusyIsTrue
<1>4. ASSUME Panel!Show PROVE PanelInv'
  BY <1>4 DEF Panel!Show, Panel!StopDiscovery, PanelTypes, PanelFlags, HandlePlaces,
     Panel!BusyIsTrue
<1>5. ASSUME Panel!StartDiscovery PROVE PanelInv'
  BY <1>5, ListsAssumption DEF Panel!StartDiscovery, PanelTypes, PanelFlags,
     HandlePlaces, Panel!BusyIsTrue
<1>6. ASSUME Panel!Close PROVE PanelInv'
  BY <1>6 DEF Panel!Close, PanelTypes, PanelFlags, HandlePlaces, Panel!BusyIsTrue
<1>7. ASSUME NEW s \in Submits, Panel!Submit(s) PROVE PanelInv'
  BY <1>7 DEF Panel!Submit, PanelTypes, PanelFlags, HandlePlaces, Panel!BusyIsTrue
<1>8. ASSUME Panel!Shutdown PROVE PanelInv'
  BY <1>8 DEF Panel!Shutdown, Panel!StopDiscovery, PanelTypes, PanelFlags,
     HandlePlaces, Panel!BusyIsTrue
<1>9. ASSUME Panel!DrawMoving PROVE PanelInv'
  BY <1>9 DEF Panel!DrawMoving, PanelTypes, PanelFlags, HandlePlaces, Panel!BusyIsTrue
<1>10. ASSUME Panel!DrawSettled PROVE PanelInv'
  BY <1>10 DEF Panel!DrawSettled, PanelTypes, PanelFlags, HandlePlaces,
     Panel!BusyIsTrue
<1>11. ASSUME Panel!DrawClear PROVE PanelInv'
  BY <1>11 DEF Panel!DrawClear, PanelTypes, PanelFlags, HandlePlaces, Panel!BusyIsTrue
<1>12. ASSUME Panel!DrawStill PROVE PanelInv'
  BY <1>12 DEF Panel!DrawStill, PanelTypes, PanelFlags, HandlePlaces, Panel!BusyIsTrue
<1>13. ASSUME Panel!DrawCheck PROVE PanelInv'
  BY <1>13 DEF Panel!DrawCheck, Panel!StopDiscovery, PanelTypes, PanelFlags,
     HandlePlaces, Panel!BusyIsTrue
<1>14. ASSUME Panel!WorkerStep PROVE PanelInv'
  <2>1. UNCHANGED <<ui, next, visible, animating, drawn, polls, handle, rows, busy, submits, torn>>
    BY <1>14 DEF Panel!WorkerStep
  <2>2. PICK w \in Workers : Panel!WorkerRuns(w) \/ Panel!AdbReturns(w)
    BY <1>14 DEF Panel!WorkerStep
  <2>3. found' \in Lists
    BY <2>2 DEF Panel!WorkerRuns, Panel!WorkerTests, Panel!WorkerMarks,
       Panel!AdbReturns, Panel!Publish, Panel!SleepOver, PanelTypes
  <2>4. pollers' \in [Workers -> {"free", "test", "mark", "call", "publish", "sleep", "ended"}]
    BY <2>2 DEF Panel!WorkerRuns, Panel!WorkerTests, Panel!WorkerMarks,
       Panel!AdbReturns, Panel!Publish, Panel!SleepOver, PanelTypes
  <2>5. polling' \in BOOLEAN
    BY <2>2 DEF Panel!WorkerRuns, Panel!WorkerTests, Panel!WorkerMarks,
       Panel!AdbReturns, Panel!Publish, Panel!SleepOver, PanelFlags
  <2> QED
    BY <2>1, <2>3, <2>4, <2>5 DEF PanelTypes, PanelFlags, HandlePlaces,
       Panel!BusyIsTrue
<1>15. ASSUME NEW s \in Submits, Panel!ConnectFails(s) PROVE PanelInv'
  <2>1. PanelTypes'
    BY <1>15 DEF Panel!ConnectFails, PanelTypes
  <2>2. PanelFlags' /\ ~busy'
    BY <1>15 DEF Panel!ConnectFails, PanelFlags
  <2> QED
    BY <1>15, <2>1, <2>2 DEF Panel!ConnectFails, HandlePlaces, Panel!BusyIsTrue
<1>16. ASSUME NEW s \in Submits, Panel!ConnectSucceeds(s) PROVE PanelInv'
  BY <1>16 DEF Panel!ConnectSucceeds, PanelTypes, PanelFlags, HandlePlaces,
     Panel!BusyIsTrue
<1>17. ASSUME NEW s \in Submits, Panel!ConnectAnimates(s) PROVE PanelInv'
  BY <1>17 DEF Panel!ConnectAnimates, PanelTypes, PanelFlags, HandlePlaces,
     Panel!BusyIsTrue
<1>18. ASSUME UNCHANGED panelV PROVE PanelInv'
  BY <1>18 DEF panelV, PanelTypes, PanelFlags, HandlePlaces, Panel!BusyIsTrue
<1> QED
  BY <1>1, <1>2, <1>3, <1>4, <1>5, <1>6, <1>7, <1>8, <1>9, <1>10, <1>11, <1>12, <1>13,
     <1>14, <1>15, <1>16, <1>17, <1>18 DEF Panel!Next, Panel!Draw

\* It holds of a panel that was never opened.
LEMMA PanelBegins == Panel!Init => PanelInv
  BY ListsAssumption DEF Panel!Init, PanelInv, PanelTypes, PanelFlags, HandlePlaces,
     Panel!BusyIsTrue

\* So it always holds.
LEMMA PanelAlways == WindowSpec => []PanelInv
<1>1. WindowInit => PanelInv
  BY PanelBegins DEF WindowInit
<1>2. PanelInv /\ [WindowNext]_windowVars => PanelInv'
  BY PanelKept DEF WindowNext, windowVars
<1> QED
  BY <1>1, <1>2, PTL DEF WindowSpec

(***************************************************************************)
(* FrameHandover: what is older than the last reset.                       *)
(***************************************************************************)

Slots == Frame!Frames \cup {Nobody}
FrameTypes ==
    /\ owner \in Sources \cup {Nobody}
    /\ live \subseteq Sources
    /\ passed \in [Sources -> Frame!Shapes \cup {Nobody}]
    /\ slot \in Slots /\ screen \in Slots
    /\ framed \in Frame!Shapes
    /\ overlay \in Sources \cup {Nobody}
FrameFlags == resetAsked \in BOOLEAN /\ clearing \in BOOLEAN /\ switched \in BOOLEAN

\* Both are TypeOK.
LEMMA FrameTypesTogether == Frame!TypeOK <=> FrameTypes /\ FrameFlags
  BY DEF Frame!TypeOK, FrameTypes, FrameFlags, Slots

\* A frame that is older than the last reset is in the slot only until it is dropped.
OldDropped == slot # Nobody /\ ~slot.fresh => clearing

FrameInv == FrameTypes /\ FrameFlags /\ OldDropped /\ Frame!NoOldFrame

\* Every step of the sources and of the render thread keeps it.
LEMMA FrameKept ==
    ASSUME FrameInv, Frame!Next \/ UNCHANGED frameV
    PROVE  FrameInv'
<1> USE DEF FrameInv
<1>1. ASSUME NEW s \in Sources, Frame!VideoCallback(s) PROVE FrameInv'
  BY <1>1 DEF Frame!VideoCallback, FrameTypes, FrameFlags, OldDropped,
     Frame!NoOldFrame
<1>2. ASSUME NEW s \in Sources, Frame!SubmitFrame(s) PROVE FrameInv'
  <2>1. /\ slot' = [source |-> s, shape |-> passed[s], fresh |-> TRUE] 
        /\ passed' = [passed EXCEPT ![s] = Nobody] /\ passed[s] \in Frame!Shapes
        /\ UNCHANGED <<owner, live, resetAsked, clearing, screen, framed, overlay, switched>>
    BY <1>2 DEF Frame!SubmitFrame, FrameTypes
  <2>2. slot' \in Frame!Frames /\ slot'.fresh
    BY <2>1 DEF Frame!Frames
  <2>3. FrameTypes'
    BY <2>1, <2>2 DEF FrameTypes, Slots
  <2> QED
    BY <2>1, <2>2, <2>3 DEF FrameFlags, OldDropped, Frame!NoOldFrame
<1>3. ASSUME NEW s \in Sources, Frame!StreamEnds(s) PROVE FrameInv'
  BY <1>3 DEF Frame!StreamEnds, Frame!Disconnect, FrameTypes, FrameFlags, OldDropped,
     Frame!NoOldFrame
<1>4. ASSUME NEW s \in Sources, Frame!Teardown(s) PROVE FrameInv'
  BY <1>4 DEF Frame!Teardown, Frame!Disconnect, FrameTypes, FrameFlags, OldDropped,
     Frame!NoOldFrame
<1>5. ASSUME NEW s \in Sources, Frame!StreamStarts(s) PROVE FrameInv'
  BY <1>5 DEF Frame!StreamStarts, FrameTypes, FrameFlags, OldDropped, Frame!NoOldFrame
<1>6. ASSUME NEW s \in Sources, Frame!ClickDot(s) PROVE FrameInv'
  BY <1>6 DEF Frame!ClickDot, FrameTypes, FrameFlags, OldDropped, Frame!NoOldFrame
<1>7. ASSUME NEW s \in Sources, Frame!KeyDot(s) PROVE FrameInv'
  BY <1>7 DEF Frame!KeyDot, FrameTypes, FrameFlags, OldDropped, Frame!NoOldFrame
<1>8. ASSUME Frame!ApplyReset PROVE FrameInv'
  <2>1. slot' \in Slots
    BY <1>8 DEF Frame!ApplyReset, Frame!Aged, FrameTypes, Slots, Frame!Frames
  <2> QED
    BY <1>8, <2>1 DEF Frame!ApplyReset, FrameTypes, FrameFlags, OldDropped,
       Frame!NoOldFrame, Slots
<1>9. ASSUME Frame!DropPending PROVE FrameInv'
  BY <1>9 DEF Frame!DropPending, FrameTypes, FrameFlags, OldDropped, Frame!NoOldFrame,
     Slots
<1>10. ASSUME Frame!RenderFrame PROVE FrameInv'
  <2>1. slot \in Frame!Frames /\ slot.shape \in Frame!Shapes /\ slot.fresh
    BY <1>10 DEF Frame!RenderFrame, FrameTypes, Slots, OldDropped, Frame!Frames
  <2>2. framed' \in Frame!Shapes
    BY <1>10, <2>1 DEF Frame!RenderFrame, FrameTypes
  <2>3. switched' \in BOOLEAN
    BY <1>10 DEF Frame!RenderFrame, FrameFlags
  <2> QED
    BY <1>10, <2>1, <2>2, <2>3 DEF Frame!RenderFrame, FrameTypes, FrameFlags,
       OldDropped, Frame!NoOldFrame, Slots
<1>11. ASSUME UNCHANGED frameV PROVE FrameInv'
  BY <1>11 DEF frameV, FrameTypes, FrameFlags, OldDropped, Frame!NoOldFrame
<1> QED
  BY <1>1, <1>2, <1>3, <1>4, <1>5, <1>6, <1>7, <1>8, <1>9, <1>10, <1>11 DEF Frame!Next

\* It holds before the first frame.
LEMMA FrameBegins == Frame!Init => FrameInv
  BY DEF Frame!Init, FrameInv, FrameTypes, FrameFlags, OldDropped, Frame!NoOldFrame,
     Slots, Frame!Shapes

\* So it always holds.
LEMMA FrameAlways == WindowSpec => []FrameInv
<1>1. WindowInit => FrameInv
  BY FrameBegins DEF WindowInit
<1>2. FrameInv /\ [WindowNext]_windowVars => FrameInv'
  BY FrameKept DEF WindowNext, windowVars
<1> QED
  BY <1>1, <1>2, PTL DEF WindowSpec

(***************************************************************************)
(* Modals: the editors, the text reader's jobs, the window's panels.       *)
(***************************************************************************)

EditTypes ==
    /\ tool \in {"shape", "text"}
    /\ strokes \in Seq({"shape", "text", "nothing"}) /\ Len(strokes) <= MaxStrokes
EditFlags ==
    /\ annotating \in BOOLEAN /\ drawing \in BOOLEAN
    /\ typing \in BOOLEAN /\ typed \in BOOLEAN
    /\ ocr \in BOOLEAN /\ region \in BOOLEAN
    /\ held \in BOOLEAN
JobTypes ==
    /\ jobs \in [1..MaxJobs -> {"free", "reads", "stored", "done"}]
    /\ pending \in 0..MaxJobs /\ clip \in 0..MaxJobs /\ mine \in 0..MaxJobs
    /\ running \in BOOLEAN
WindowTypes ==
    /\ drags \subseteq {"resize", "log", "version"}
    /\ panels \subseteq Modal!Panels

\* All four are TypeOK.
LEMMA ModalTypesTogether ==
  Modal!TypeOK <=> EditTypes /\ EditFlags /\ JobTypes /\ WindowTypes
  BY DEF Modal!TypeOK, EditTypes, EditFlags, JobTypes, WindowTypes

\* One editor is up; what an editor's drag draws belongs to the editor that is
\* up, the button is held, and the stroke has a place.
OneEditor ==
    /\ ~(annotating /\ ocr)
    /\ drawing => annotating /\ held /\ ~typing /\ Len(strokes) < MaxStrokes
    /\ region => ocr /\ held

\* Jobs are launched in their order, and one at a time.
JobsInTurn ==
    /\ \A i, j \in 1..MaxJobs : jobs[i] = "free" /\ i < j => jobs[j] = "free"
    /\ \A i, j \in 1..MaxJobs :
         jobs[i] \in {"reads", "stored"} /\ jobs[j] \in {"reads", "stored"} => i = j
    /\ \A j \in 1..MaxJobs : jobs[j] \in {"reads", "stored"} => running

\* A result that waits is newer than the copied one, and both are of jobs that have
\* ended, or of the one that is about to.
ResultsOld ==
    /\ pending # 0 => clip < pending /\ jobs[pending] \in {"stored", "done"}
    /\ clip # 0 => jobs[clip] \in {"stored", "done"}
    /\ \A j \in 1..MaxJobs : jobs[j] = "reads" => clip < j /\ pending < j

JobInv == JobTypes /\ JobsInTurn /\ ResultsOld

ModalInv ==
    /\ EditTypes /\ EditFlags /\ JobInv /\ WindowTypes
    /\ OneEditor /\ Modal!OnePanel

\* A stroke is put behind the others.
LEMMA StrokeAdded ==
    ASSUME EditTypes, NEW k \in {"shape", "text", "nothing"}
    PROVE  /\ Append(strokes, k) \in Seq({"shape", "text", "nothing"})
           /\ Len(Append(strokes, k)) = Len(strokes) + 1
           /\ Len(strokes) \in Nat
  BY DEF EditTypes

\* So is a text that was typed.
LEMMA CommittedType ==
    ASSUME EditTypes
    PROVE  /\ Modal!Committed \in Seq({"shape", "text", "nothing"})
           /\ Len(Modal!Committed) \in Nat /\ Len(strokes) \in Nat
           /\ ~typing => Modal!Committed = strokes
  BY StrokeAdded DEF EditTypes, Modal!Committed

\* Nothing of the jobs moves.
LEMMA JobsKept ==
    ASSUME JobInv, UNCHANGED <<running, jobs, pending, clip>>, mine' \in 0..MaxJobs
    PROVE  JobInv'
  BY DEF JobInv, JobTypes, JobsInTurn, ResultsOld

\* The annotator's events keep it.
LEMMA EditorEvents ==
    ASSUME ModalInv,
           \/ Modal!BeginAnnotation \/ Modal!Type \/ Modal!CancelText \/ Modal!CommitOnly
           \/ Modal!ToolKey \/ Modal!ToolButton \/ Modal!Undo \/ Modal!PressImage
           \/ Modal!Release \/ Modal!SaveAnnotated \/ Modal!CancelAnnotation
    PROVE  ModalInv'
<1> USE Bounds DEF Modal!ToAnnotator, Modal!ToWindow
<1>1. JobTypes /\ JobInv
  BY DEF ModalInv, JobInv
<1>2. UNCHANGED <<ocr, region, running, jobs, pending, clip, mine, drags, panels>>
  BY DEF Modal!BeginAnnotation, Modal!Type, Modal!CancelText, Modal!CommitOnly,
     Modal!ToolKey, Modal!ToolButton, Modal!Undo, Modal!PressImage, Modal!Release,
     Modal!SaveAnnotated, Modal!CancelAnnotation, Modal!ocrVars, Modal!windowVars
<1>3. JobInv' /\ WindowTypes' /\ Modal!OnePanel'
  BY <1>1, <1>2, JobsKept DEF ModalInv, JobTypes, WindowTypes, Modal!OnePanel
<1>4. Len(<<>>) = 0 /\ <<>> \in Seq({"shape", "text", "nothing"})
  OBVIOUS
<1> DEFINE Goal == EditTypes' /\ EditFlags' /\ OneEditor'
<1>5. ASSUME Modal!BeginAnnotation PROVE Goal
  <2>1. EditTypes'
    BY <1>2, <1>5, <1>4 DEF Modal!BeginAnnotation, ModalInv, EditTypes
  <2>2. EditFlags'
    BY <1>2, <1>5 DEF Modal!BeginAnnotation, ModalInv, EditFlags
  <2>3. OneEditor'
    BY <1>2, <1>5 DEF Modal!BeginAnnotation, ModalInv, OneEditor
  <2> QED
    BY <2>1, <2>2, <2>3
<1>6. ASSUME Modal!Type PROVE Goal
  BY <1>2, <1>6 DEF Modal!Type, ModalInv, EditTypes, EditFlags, OneEditor
<1>7. ASSUME Modal!CancelText PROVE Goal
  BY <1>2, <1>7 DEF Modal!CancelText, ModalInv, EditTypes, EditFlags, OneEditor
<1>8. ASSUME Modal!CommitOnly PROVE Goal
  BY <1>2, <1>8, CommittedType DEF Modal!CommitOnly, Modal!CommitText, ModalInv,
     EditTypes, EditFlags, OneEditor
<1>9. ASSUME Modal!ToolKey PROVE Goal
  BY <1>2, <1>9 DEF Modal!ToolKey, ModalInv, EditTypes, EditFlags, OneEditor
<1>10. ASSUME Modal!ToolButton PROVE Goal
  BY <1>2, <1>10, CommittedType DEF Modal!ToolButton, Modal!CommitText, ModalInv,
     EditTypes, EditFlags, OneEditor
<1>11. ASSUME Modal!Undo PROVE Goal
  <2>1. /\ SubSeq(strokes, 1, Len(strokes) - 1) \in Seq({"shape", "text", "nothing"})
        /\ Len(SubSeq(strokes, 1, Len(strokes) - 1)) = Len(strokes) - 1
    <3>1. strokes \in Seq({"shape", "text", "nothing"}) /\ strokes # <<>>
      BY <1>11 DEF Modal!Undo, ModalInv, EditTypes
    <3>2. Len(strokes) \in Nat /\ Len(strokes) # 0
      BY <3>1, EmptySeq
    <3> DEFINE n == Len(strokes) - 1
    <3>3. n \in Nat /\ \A i \in 1..n : strokes[i] \in {"shape", "text", "nothing"}
      BY <3>1, <3>2
    <3> HIDE DEF n
    <3>4. /\ SubSeq(strokes, 1, n) \in Seq({"shape", "text", "nothing"})
          /\ Len(SubSeq(strokes, 1, n)) = IF 1 <= n THEN n - 1 + 1 ELSE 0
      BY <3>3, SubSeqProperties
    <3>5. Len(SubSeq(strokes, 1, n)) = n
      BY <3>3, <3>4
    <3> QED
      BY <3>4, <3>5, Zenon DEF n
  <2> QED
    BY <1>2, <1>11, <2>1 DEF Modal!Undo, ModalInv, EditTypes, EditFlags, OneEditor
<1>12. ASSUME Modal!PressImage PROVE Goal
  <2>1. EditTypes'
    BY <1>2, <1>12, CommittedType DEF Modal!PressImage, ModalInv, EditTypes
  <2>2. EditFlags'
    BY <1>2, <1>12 DEF Modal!PressImage, ModalInv, EditFlags
  <2>3. OneEditor'
    BY <1>2, <1>12, CommittedType DEF Modal!PressImage, ModalInv, OneEditor
  <2> QED
    BY <2>1, <2>2, <2>3
<1>13. ASSUME Modal!Release PROVE Goal
  <2>1. EditTypes'
    <3>1. tool' = tool /\ EditTypes
      BY <1>13 DEF Modal!Release, ModalInv
    <3>2. CASE UNCHANGED strokes
      BY <3>1, <3>2 DEF EditTypes
    <3>3. CASE drawing /\ strokes' = Append(strokes, IF tool = "text" THEN "nothing" ELSE "shape")
      <4>1. PICK k \in {"shape", "text", "nothing"} : strokes' = Append(strokes, k)
        BY <3>3
      <4>2. Len(strokes) < MaxStrokes
        BY <3>3 DEF ModalInv, OneEditor
      <4> QED
        BY <3>1, <4>1, <4>2, StrokeAdded DEF EditTypes
    <3> QED
      BY <1>13, <3>2, <3>3 DEF Modal!Release
  <2>2. EditFlags'
    BY <1>2, <1>13 DEF Modal!Release, ModalInv, EditFlags
  <2>3. OneEditor'
    BY <1>2, <1>13, StrokeAdded DEF Modal!Release, ModalInv, OneEditor, EditFlags
  <2> QED
    BY <2>1, <2>2, <2>3
<1>14. ASSUME Modal!SaveAnnotated PROVE Goal
  <2>1. tool' = tool /\ held' = held /\ Len(Modal!Committed) <= MaxStrokes
        /\ (Modal!EndAnnotation \/ (Modal!CommitText /\ UNCHANGED <<annotating, drawing>>))
    BY <1>14 DEF Modal!SaveAnnotated
  <2>2. EditTypes'
    <3>1. EditTypes /\ Len(<<>>) <= MaxStrokes
      BY <1>4 DEF ModalInv
    <3>2. strokes' = <<>> \/ strokes' = Modal!Committed
      BY <2>1 DEF Modal!EndAnnotation, Modal!CommitText
    <3> QED
      BY <1>4, <2>1, <3>1, <3>2, CommittedType DEF EditTypes
  <2>3. EditFlags'
    BY <1>2, <2>1 DEF Modal!EndAnnotation, Modal!CommitText, ModalInv, EditFlags
  <2>4. OneEditor'
    <3>1. CASE Modal!EndAnnotation
      BY <1>2, <2>1, <3>1 DEF Modal!EndAnnotation, ModalInv, OneEditor
    <3>2. CASE Modal!CommitText /\ UNCHANGED <<annotating, drawing>>
      <4>1. drawing => strokes' = strokes
        BY <3>2, CommittedType DEF Modal!CommitText, ModalInv, OneEditor
      <4> QED
        BY <1>2, <2>1, <3>2, <4>1 DEF Modal!CommitText, ModalInv, OneEditor
    <3> QED
      BY <2>1, <3>1, <3>2
  <2> QED
    BY <2>2, <2>3, <2>4
<1>15. ASSUME Modal!CancelAnnotation PROVE Goal
  <2>1. EditTypes'
    BY <1>2, <1>15, <1>4 DEF Modal!CancelAnnotation, Modal!EndAnnotation, ModalInv,
       EditTypes
  <2>2. EditFlags'
    BY <1>2, <1>15 DEF Modal!CancelAnnotation, Modal!EndAnnotation, ModalInv,
       EditFlags
  <2>3. OneEditor'
    BY <1>2, <1>15 DEF Modal!CancelAnnotation, Modal!EndAnnotation, ModalInv,
       OneEditor
  <2> QED
    BY <2>1, <2>2, <2>3
<1>16. Goal
  BY <1>5, <1>6, <1>7, <1>8, <1>9, <1>10, <1>11, <1>12, <1>13, <1>14, <1>15
<1> QED
  BY <1>3, <1>16 DEF ModalInv

\* So do those of the text reader and of its jobs, which copy in their order.
LEMMA ReaderEvents ==
    ASSUME ModalInv,
           \/ Modal!BeginOcr \/ Modal!OcrEscape \/ Modal!OcrPress \/ Modal!OcrRelease
           \/ Modal!ProcessResult
           \/ \E j \in 1..MaxJobs : Modal!JobStores(j) \/ Modal!JobEnds(j)
    PROVE  ModalInv' /\ (clip' # clip => clip' > clip)
<1> USE Bounds DEF Modal!ToOcr, Modal!ToWindow
<1>1. UNCHANGED <<annotating, tool, drawing, typing, typed, strokes, drags, panels>>
  BY DEF Modal!BeginOcr, Modal!OcrEscape, Modal!OcrPress, Modal!OcrRelease,
     Modal!ProcessResult, Modal!JobStores, Modal!JobEnds, Modal!editVars, Modal!windowVars
<1>2. EditTypes' /\ WindowTypes' /\ Modal!OnePanel'
  BY <1>1 DEF ModalInv, EditTypes, WindowTypes, Modal!OnePanel
<1>3. EditFlags' /\ OneEditor'
  <2>1. EditFlags /\ OneEditor
    BY DEF ModalInv
  <2> DEFINE Acts ==
        \/ Modal!BeginOcr \/ Modal!OcrEscape \/ Modal!OcrPress \/ Modal!OcrRelease
        \/ Modal!ProcessResult
        \/ UNCHANGED <<ocr, region, held>>
  <2>2. Acts
    BY DEF Modal!JobStores, Modal!JobEnds
  <2>3. EditFlags'
    BY <1>1, <2>1, <2>2 DEF Modal!BeginOcr, Modal!OcrEscape, Modal!OcrPress,
       Modal!OcrRelease,
       Modal!ProcessResult, Modal!EndOcr, EditFlags
  <2>4. OneEditor'
    BY <1>1, <2>1, <2>2 DEF Modal!BeginOcr, Modal!OcrEscape, Modal!OcrPress,
       Modal!OcrRelease,
       Modal!ProcessResult, Modal!EndOcr, EditFlags, OneEditor
  <2> QED
    BY <2>3, <2>4
<1>4. JobInv' /\ (clip' # clip => clip' > clip)
  <2> DEFINE Goal == JobInv' /\ (clip' # clip => clip' > clip)
  <2>0. JobInv /\ JobTypes
    BY DEF ModalInv, JobInv
  <2>1. ASSUME Modal!BeginOcr \/ Modal!OcrEscape \/ Modal!OcrPress PROVE Goal
    BY <2>0, <2>1, JobsKept DEF Modal!BeginOcr, Modal!OcrEscape, Modal!OcrPress,
       JobTypes
  <2>2. ASSUME Modal!OcrRelease PROVE Goal
    <3>1. CASE UNCHANGED <<jobs, running, mine>>
      BY <2>0, <2>2, <3>1, JobsKept DEF Modal!OcrRelease, JobTypes
    <3>2. CASE ~running /\ Modal!Launch
      <4>1. PICK j \in 1..MaxJobs :
              /\ jobs[j] = "free" /\ \A i \in 1..(j - 1) : jobs[i] # "free"
              /\ jobs' = [jobs EXCEPT ![j] = "reads"]
              /\ running' = TRUE /\ mine' = j
        BY <3>2 DEF Modal!Launch
      <4>2. pending' = pending /\ clip' = clip
        BY <2>2 DEF Modal!OcrRelease
      <4>3. \A i \in 1..MaxJobs : jobs[i] # "free" <=> i < j
        BY <2>0, <4>1 DEF JobInv, JobTypes, JobsInTurn
      <4>4. \A i \in 1..MaxJobs : jobs[i] \notin {"reads", "stored"}
        BY <2>0, <3>2 DEF JobInv, JobsInTurn
      <4>5. JobTypes'
        BY <2>0, <4>1, <4>2 DEF JobTypes
      <4>6. \A i \in 1..MaxJobs : jobs'[i] = IF i = j THEN "reads" ELSE jobs[i]
        BY <2>0, <4>1 DEF JobTypes
      <4>7. JobsInTurn'
        BY <4>1, <4>3, <4>4, <4>6 DEF JobsInTurn
      <4>8. ResultsOld'
        BY <2>0, <4>2, <4>3, <4>4, <4>6 DEF ResultsOld, JobInv, JobTypes
      <4> QED
        BY <4>2, <4>5, <4>7, <4>8 DEF JobInv
    <3> QED
      BY <2>2, <3>1, <3>2 DEF Modal!OcrRelease
  <2>3. ASSUME Modal!ProcessResult PROVE Goal
    BY <2>0, <2>3 DEF Modal!ProcessResult, JobInv, JobTypes, JobsInTurn, ResultsOld
  <2>4. ASSUME NEW j \in 1..MaxJobs, Modal!JobStores(j) PROVE Goal
    <3>1. /\ jobs[j] = "reads" /\ jobs' = [jobs EXCEPT ![j] = "stored"]
          /\ pending' = j /\ UNCHANGED <<running, clip, mine>>
      BY <2>4 DEF Modal!JobStores
    <3>2. \A i \in 1..MaxJobs : jobs'[i] = IF i = j THEN "stored" ELSE jobs[i]
      BY <2>0, <3>1 DEF JobTypes
    <3>3. JobTypes'
      BY <2>0, <3>1 DEF JobTypes
    <3>4. JobsInTurn'
      BY <2>0, <3>1, <3>2 DEF JobInv, JobsInTurn
    <3>5. ResultsOld'
      BY <2>0, <3>1, <3>2 DEF JobInv, JobsInTurn, ResultsOld, JobTypes
    <3> QED
      BY <3>1, <3>3, <3>4, <3>5 DEF JobInv
  <2>5. ASSUME NEW j \in 1..MaxJobs, Modal!JobEnds(j) PROVE Goal
    <3>1. /\ jobs[j] = "stored" /\ jobs' = [jobs EXCEPT ![j] = "done"]
          /\ running' = FALSE /\ UNCHANGED <<pending, clip, mine>>
      BY <2>5 DEF Modal!JobEnds
    <3>2. \A i \in 1..MaxJobs : jobs'[i] = IF i = j THEN "done" ELSE jobs[i]
      BY <2>0, <3>1 DEF JobTypes
    <3>3. JobTypes'
      BY <2>0, <3>1 DEF JobTypes
    <3>4. JobsInTurn'
      BY <2>0, <3>1, <3>2 DEF JobInv, JobsInTurn
    <3>5. ResultsOld'
      BY <2>0, <3>1, <3>2 DEF JobInv, JobsInTurn, ResultsOld, JobTypes
    <3> QED
      BY <3>1, <3>3, <3>4, <3>5 DEF JobInv
  <2> QED
    BY <2>1, <2>2, <2>3, <2>4, <2>5
<1> QED
  BY <1>2, <1>3, <1>4 DEF ModalInv

\* So do the window's.
LEMMA WindowEvents ==
    ASSUME ModalInv,
           \/ \E d \in {"resize", "log", "version"} : Modal!PressWindow(d)
           \/ Modal!ReleaseWindow
           \/ Modal!KeyInfo \/ Modal!KeyVersion \/ Modal!KeySettings
           \/ Modal!ClickIcon \/ Modal!ClickVersionLink \/ Modal!ClickGear \/ Modal!Dismiss
    PROVE  ModalInv'
<1> USE Bounds DEF Modal!ToWindow
<1>1. UNCHANGED <<annotating, tool, drawing, typing, typed, strokes,
                  ocr, region, running, jobs, pending, clip, mine>>
  BY DEF Modal!PressWindow, Modal!ReleaseWindow, Modal!KeyInfo, Modal!KeyVersion,
     Modal!KeySettings, Modal!ClickIcon, Modal!ClickVersionLink, Modal!ClickGear,
     Modal!Dismiss, Modal!Toggle, Modal!editVars, Modal!ocrVars
<1>2. JobInv' /\ EditTypes'
  BY <1>1, JobsKept DEF ModalInv, JobInv, JobTypes, EditTypes
<1>3. EditFlags' /\ OneEditor'
  BY <1>1 DEF Modal!PressWindow, Modal!ReleaseWindow, Modal!KeyInfo, Modal!KeyVersion,
     Modal!KeySettings, Modal!ClickIcon, Modal!ClickVersionLink, Modal!ClickGear,
     Modal!Dismiss, Modal!Toggle, ModalInv, EditFlags, OneEditor
<1>4. WindowTypes' /\ Modal!OnePanel'
  <2>0. WindowTypes /\ Modal!OnePanel
    BY DEF ModalInv
  <2>1. ASSUME NEW d \in {"resize", "log", "version"}, Modal!PressWindow(d)
        PROVE  WindowTypes' /\ Modal!OnePanel'
    BY <2>0, <2>1 DEF Modal!PressWindow, WindowTypes, Modal!OnePanel
  <2>2. ASSUME Modal!ReleaseWindow \/ Modal!Dismiss
        PROVE  WindowTypes' /\ Modal!OnePanel'
    BY <2>0, <2>2 DEF Modal!ReleaseWindow, Modal!Dismiss, WindowTypes, Modal!OnePanel
  <2>3. ASSUME NEW p \in Modal!Panels, Modal!Toggle(p, Modal!Panels \ {p})
        PROVE WindowTypes' /\ Modal!OnePanel'
    BY <2>0, <2>3 DEF Modal!Toggle, WindowTypes, Modal!OnePanel
  <2>4. /\ {"version", "settings"} = Modal!Panels \ {"info"}
        /\ {"info", "settings"} = Modal!Panels \ {"version"}
        /\ {"info", "version"} = Modal!Panels \ {"settings"}
    BY DEF Modal!Panels
  <2>5. "info" \in Modal!Panels /\ "version" \in Modal!Panels /\ "settings" \in Modal!Panels
    BY DEF Modal!Panels
  <2> QED
    BY <2>1, <2>2, <2>3, <2>4, <2>5 DEF Modal!KeyInfo, Modal!KeyVersion,
       Modal!KeySettings, Modal!ClickIcon, Modal!ClickVersionLink, Modal!ClickGear
<1> QED
  BY <1>2, <1>3, <1>4 DEF ModalInv

\* Every step is one of them.
LEMMA ModalKept ==
    ASSUME ModalInv, Modal!Next \/ UNCHANGED modalV
    PROVE  ModalInv' /\ (clip' # clip => clip' > clip)
<1> USE Bounds
<1>1. CASE UNCHANGED modalV
  <2>1. UNCHANGED <<running, jobs, pending, clip, mine>>
    BY <1>1 DEF modalV
  <2>2. JobInv'
    BY <2>1, JobsKept DEF ModalInv, JobInv, JobTypes
  <2> QED
    BY <1>1, <2>1, <2>2 DEF modalV, ModalInv, EditTypes, EditFlags, WindowTypes,
       OneEditor, Modal!OnePanel
<1>2. CASE Modal!Next
  <2>1. \/ \/ Modal!BeginAnnotation \/ Modal!Type \/ Modal!CancelText \/ Modal!CommitOnly
           \/ Modal!ToolKey \/ Modal!ToolButton \/ Modal!Undo \/ Modal!PressImage
           \/ Modal!Release \/ Modal!SaveAnnotated \/ Modal!CancelAnnotation
        \/ \/ Modal!BeginOcr \/ Modal!OcrEscape \/ Modal!OcrPress \/ Modal!OcrRelease
           \/ Modal!ProcessResult
           \/ \E j \in 1..MaxJobs : Modal!JobStores(j) \/ Modal!JobEnds(j)
        \/ \/ \E d \in {"resize", "log", "version"} : Modal!PressWindow(d)
           \/ Modal!ReleaseWindow
           \/ Modal!KeyInfo \/ Modal!KeyVersion \/ Modal!KeySettings
           \/ Modal!ClickIcon \/ Modal!ClickVersionLink \/ Modal!ClickGear \/ Modal!Dismiss
    BY <1>2 DEF Modal!Next
  <2>2. clip' = clip \/ Modal!BeginOcr \/ Modal!OcrEscape \/ Modal!OcrPress
          \/ Modal!OcrRelease \/ Modal!ProcessResult
          \/ \E j \in 1..MaxJobs : Modal!JobStores(j) \/ Modal!JobEnds(j)
    BY <2>1 DEF Modal!BeginAnnotation, Modal!Type, Modal!CancelText, Modal!CommitOnly,
     Modal!ToolKey, Modal!ToolButton, Modal!Undo, Modal!PressImage, Modal!Release,
     Modal!SaveAnnotated, Modal!CancelAnnotation, Modal!ocrVars,
     Modal!PressWindow, Modal!ReleaseWindow, Modal!KeyInfo, Modal!KeyVersion,
     Modal!KeySettings, Modal!ClickIcon, Modal!ClickVersionLink, Modal!ClickGear,
     Modal!Dismiss, Modal!Toggle
  <2> QED
    BY <2>1, <2>2, EditorEvents, ReaderEvents, WindowEvents
<1> QED
  BY <1>1, <1>2

\* It holds of a window without editors.
LEMMA ModalBegins == Modal!Init => ModalInv
<1> USE Bounds
<1> SUFFICES ASSUME Modal!Init PROVE ModalInv
  OBVIOUS
<1>1. EditTypes
  <2>1. Len(<<>>) = 0 /\ <<>> \in Seq({"shape", "text", "nothing"})
    OBVIOUS
  <2> QED
    BY <2>1 DEF Modal!Init, EditTypes
<1>2. JobInv
  <2>1. jobs \in [1..MaxJobs -> {"free"}] /\ pending = 0 /\ clip = 0 /\ mine = 0 /\ running = FALSE
    BY DEF Modal!Init
  <2>2. \A j \in 1..MaxJobs : jobs[j] = "free"
    BY <2>1
  <2>3. JobTypes
    <3>1. 0 \in 0..MaxJobs
      OBVIOUS
    <3>2. jobs \in [1..MaxJobs -> {"free", "reads", "stored", "done"}]
      BY <2>1
    <3>3. running \in BOOLEAN
      BY <2>1
    <3> QED
      BY <2>1, <3>1, <3>2, <3>3 DEF JobTypes
  <2>4. JobsInTurn /\ ResultsOld
    BY <2>1, <2>2 DEF JobsInTurn, ResultsOld
  <2> QED
    BY <2>3, <2>4 DEF JobInv
<1> QED
  BY <1>1, <1>2 DEF Modal!Init, ModalInv, EditFlags, WindowTypes, OneEditor,
     Modal!OnePanel

\* So it always holds.
LEMMA ModalAlways == WindowSpec => []ModalInv
<1>1. WindowInit => ModalInv
  BY ModalBegins DEF WindowInit
<1>2. ModalInv /\ [WindowNext]_windowVars => ModalInv'
  BY ModalKept DEF WindowNext, windowVars
<1> QED
  BY <1>1, <1>2, PTL DEF WindowSpec

(***************************************************************************)
(* Screenshots: sizes and where things lie in them.                        *)
(***************************************************************************)

\* The larger and the smaller of two numbers.
LEMMA Larger ==
    ASSUME NEW a \in Int, NEW b \in Int
    PROVE  Shot!Max({a, b}) = IF a >= b THEN a ELSE b
<1>1. \E x \in {a, b} : \A y \in {a, b} : x >= y
  OBVIOUS
<1>2. Shot!Max({a, b}) \in {a, b} /\ \A y \in {a, b} : Shot!Max({a, b}) >= y
  BY <1>1 DEF Shot!Max
<1> QED
  BY <1>2

LEMMA NotBelow ==
    ASSUME NEW n \in Int, NEW x \in Int
    PROVE  Shot!AtLeast(n, x) = IF n >= x THEN n ELSE x
  BY Larger DEF Shot!AtLeast

LEMMA Smaller ==
    ASSUME NEW a \in Int, NEW b \in Int
    PROVE  Shot!Min({a, b}) = IF a <= b THEN a ELSE b
<1>1. \E x \in {a, b} : \A y \in {a, b} : x <= y
  OBVIOUS
<1>2. Shot!Min({a, b}) \in {a, b} /\ \A y \in {a, b} : Shot!Min({a, b}) <= y
  BY <1>1 DEF Shot!Min
<1> QED
  BY <1>2

\* A quotient is a number between its bounds.
LEMMA Quotient ==
    ASSUME NEW a \in Nat, NEW b \in Nat \ {0}
    PROVE  /\ a \div b \in Nat
           /\ b * (a \div b) <= a
           /\ a < b * (a \div b) + b
  OBVIOUS

\* What fits times b fits.
LEMMA Fits ==
    ASSUME NEW n \in Nat, NEW m \in Nat, NEW b \in Nat \ {0}, b * n <= b * m
    PROVE  n <= m
  OBVIOUS

Rectangle == Int \X Int \X Nat \X Nat
Positive == (Nat \ {0}) \X (Nat \ {0})

\* A video that is scaled for a rectangle lies inside it.
LEMMA ScaledFits ==
    ASSUME NEW video \in Positive, NEW x \in Int, NEW y \in Int, NEW w \in Nat, NEW h \in Nat
    PROVE  LET r == Shot!Scaled(video, <<x, y, w, h>>) IN
           /\ r[1] \in Int /\ r[2] \in Int /\ r[3] \in Nat /\ r[4] \in Nat
           /\ x <= r[1] /\ r[1] + r[3] <= x + w
           /\ y <= r[2] /\ r[2] + r[4] <= y + h
<1> DEFINE a == video[1]
           b == video[2]
<1>1. a \in Nat \ {0} /\ b \in Nat \ {0}
  BY DEF Positive
<1> HIDE DEF a, b
<1>2. /\ a * h \in Nat /\ b * w \in Nat /\ w * b = b * w
  BY <1>1
<1> DEFINE p == (b * w) \div a
           q == (a * h) \div b
<1>3. /\ p \in Nat /\ a * p <= b * w
      /\ q \in Nat /\ b * q <= a * h
  BY <1>1, <1>2, Quotient
<1> HIDE DEF p, q
<1>4. a * h > w * b => p <= h
  <2> SUFFICES ASSUME a * h > w * b PROVE p <= h
    OBVIOUS
  <2>1. a * p <= a * h
    BY <1>1, <1>2, <1>3
  <2> QED
    BY <1>1, <1>3, <2>1, Fits
<1>5. ~(a * h > w * b) => q <= w
  <2> SUFFICES ASSUME ~(a * h > w * b) PROVE q <= w
    OBVIOUS
  <2>1. b * q <= b * w
    BY <1>1, <1>2, <1>3
  <2> QED
    BY <1>1, <1>3, <2>1, Fits
<1>6. Shot!Scaled(video, <<x, y, w, h>>) =
        IF a * h > w * b
        THEN <<x + (w - w) \div 2, y + (h - p) \div 2, w, p>>
        ELSE <<x + (w - q) \div 2, y + (h - h) \div 2, q, h>>
  BY DEF Shot!Scaled, a, b, p, q
<1>7. CASE a * h > w * b
  <2>1. Shot!Scaled(video, <<x, y, w, h>>) = <<x + (w - w) \div 2, y + (h - p) \div 2, w, p>>
    BY <1>6, <1>7
  <2> QED
    BY <1>3, <1>4, <1>7, <2>1
<1>8. CASE ~(a * h > w * b)
  <2>1. Shot!Scaled(video, <<x, y, w, h>>) = <<x + (w - q) \div 2, y + (h - h) \div 2, q, h>>
    BY <1>6, <1>8
  <2> QED
    BY <1>3, <1>5, <1>8, <2>1
<1> QED
  BY <1>7, <1>8

\* The frame around a picture has sides, and is not thinner above.
LEMMA Bezels ==
    ASSUME NEW picture \in Positive
    PROVE  LET bezel == Shot!Bezel(picture) IN
           /\ bezel.side \in Nat /\ bezel.top \in Nat
           /\ bezel.side >= 8 /\ bezel.top >= bezel.side
<1>1. picture[1] \in Nat \ {0} /\ picture[2] \in Nat \ {0}
  BY DEF Positive
<1> DEFINE short == Shot!Min({picture[1], picture[2]})
           side(k) == (short * k) \div 1000
<1>2. short \in Nat
  BY <1>1, Smaller
<1>3. \A k \in {25, 28, 42} : side(k) \in Nat
  BY <1>2
<1>4. side(28) <= side(42)
  BY <1>2
<1>5. \A k \in {25, 28, 42}, n \in {8, 12} :
          Shot!AtLeast(n, side(k)) = IF n >= side(k) THEN n ELSE side(k)
  <2> SUFFICES ASSUME NEW k \in {25, 28, 42}, NEW n \in {8, 12}
               PROVE  Shot!AtLeast(n, side(k)) = IF n >= side(k) THEN n ELSE side(k)
    OBVIOUS
  <2> HIDE DEF side
  <2>1. side(k) \in Int /\ n \in Int
    BY <1>3
  <2> QED
    BY <2>1, NotBelow
<1>6. Shot!Bezel(picture) =
        IF Shot!IsTablet(picture)
        THEN [side |-> Shot!AtLeast(8, side(25)), top |-> Shot!AtLeast(8, side(25))]
        ELSE [side |-> Shot!AtLeast(8, side(28)), top |-> Shot!AtLeast(12, side(42))]
  BY DEF Shot!Bezel
<1> HIDE DEF side
<1>7. CASE Shot!IsTablet(picture)
  <2>1. Shot!Bezel(picture) = [side |-> Shot!AtLeast(8, side(25)), top |-> Shot!AtLeast(8, side(25))]
    BY <1>6, <1>7
  <2> QED
    BY <1>3, <1>5, <2>1
<1>8. CASE ~Shot!IsTablet(picture)
  <2>1. Shot!Bezel(picture) = [side |-> Shot!AtLeast(8, side(28)), top |-> Shot!AtLeast(12, side(42))]
    BY <1>6, <1>8
  <2> QED
    BY <1>3, <1>4, <1>5, <2>1
<1> QED
  BY <1>7, <1>8

\* The frame around a picture has a size.
LEMMA FrameAround ==
    ASSUME NEW picture \in Positive
    PROVE  Shot!FrameSize(picture) \in Positive
<1>1. picture[1] \in Nat \ {0} /\ picture[2] \in Nat \ {0}
  BY DEF Positive
<1> DEFINE side == Shot!Bezel(picture).side
           top == Shot!Bezel(picture).top
<1>2. side \in Nat /\ top \in Nat /\ side >= 8 /\ top >= side
  BY Bezels
<1>3. Shot!FrameSize(picture) = <<picture[1] + 2 * side, picture[2] + 2 * top>>
  BY DEF Shot!FrameSize
<1> QED
  BY <1>1, <1>2, <1>3 DEF Positive

\* The strip of the webcam below a picture: tucked by less than it is high, if it is
\* high enough to show anything.
LEMMA Strips ==
    ASSUME NEW w \in Nat \ {0}
    PROVE  /\ Shot!PanelWidth(w) \in Nat \ {0} /\ Shot!PanelHeight(w) \in Nat
           /\ Shot!Tuck(w) \in Nat
           /\ Shot!PanelWidth(w) + w \div 16 <= w
           /\ Shot!PanelHeight(w) > 12 => Shot!PanelHeight(w) > Shot!Tuck(w)
<1>1. Shot!PanelWidth(w) \in Nat \ {0} /\ Shot!PanelWidth(w) + w \div 16 <= w
  BY DEF Shot!PanelWidth
<1> DEFINE p == Shot!PanelWidth(w)
<1>2. p \in Nat \ {0}
  BY <1>1
<1>3. Shot!PanelHeight(w) = (p * 9) \div 16 /\ Shot!Tuck(w) = p \div 30
  BY DEF Shot!PanelHeight, Shot!Tuck
<1> HIDE DEF p
<1> QED
  BY <1>1, <1>2, <1>3

\* Sides an encoder takes.
Sized(e) == e[1] > 0 /\ e[2] > 0 /\ e[1] % 2 = 0 /\ e[2] % 2 = 0

\* Even() makes even numbers.
LEMMA Halves ==
    ASSUME NEW n \in Nat
    PROVE  Shot!Even(n) \in Nat /\ Shot!Even(n) % 2 = 0
  BY DEF Shot!Even

\* What the recorder accepts can be encoded, as a video and as a GIF.
LEMMA Encoded ==
    ASSUME NEW size \in Positive, NEW gif \in BOOLEAN,
           Shot!Accepts(Shot!EncodedSize(size, gif))
    PROVE  Sized(Shot!EncodedSize(size, gif))
<1> DEFINE w == size[1]
           h == size[2]
           q == (h * 480) \div w
           e == Shot!EncodedSize(size, gif)
<1>1. w \in Nat \ {0} /\ h \in Nat \ {0}
  BY DEF Positive
<1> HIDE DEF w, h
<1>2. q \in Nat
  BY <1>1, Quotient
<1>3. e = IF gif /\ Shot!Even(w) > 480 THEN <<480, Shot!Even(q)>>
          ELSE <<Shot!Even(w), Shot!Even(h)>>
  BY DEF Shot!EncodedSize, w, h
<1> HIDE DEF q, e
<1>4. /\ Shot!Even(w) \in Nat /\ Shot!Even(w) % 2 = 0
      /\ Shot!Even(h) \in Nat /\ Shot!Even(h) % 2 = 0
      /\ Shot!Even(q) \in Nat /\ Shot!Even(q) % 2 = 0
  BY <1>1, <1>2, Halves
<1>5. e[1] > 0 /\ e[2] > 0
  BY DEF Shot!Accepts, e
<1>6. Sized(e)
  <2>1. CASE gif /\ Shot!Even(w) > 480
    <3>1. e[1] = 480 /\ e[2] = Shot!Even(q)
      BY <1>3, <2>1
    <3> QED
      BY <1>4, <1>5, <3>1 DEF Sized
  <2>2. CASE ~(gif /\ Shot!Even(w) > 480)
    <3>1. e[1] = Shot!Even(w) /\ e[2] = Shot!Even(h)
      BY <1>3, <2>2
    <3> QED
      BY <1>4, <1>5, <3>1 DEF Sized
  <2> QED
    BY <2>1, <2>2
<1> QED
  BY <1>6 DEF e

ShotTypes ==
    /\ fresh \in BOOLEAN
    /\ canvas \in Canvases \cup {Shot!NoSize}
    /\ phone \in [screen : Canvases \cup {Shot!Upright}, drawn : BOOLEAN]

\* The editor got the picture of a screenshot.
Marked == marking # <<>> => marking[1] = marking[2]

\* The sizes of a clip fit each other: its strip is tucked by less than it is high.
\* It can be encoded.
Clip(c) ==
    /\ c.base \in Positive /\ c.panel \in Nat /\ c.overlap \in Nat
    /\ c.overlap <= c.panel
    /\ c.size = <<c.base[1], c.base[2] + c.panel - c.overlap>>
    /\ c.framed => c.size = c.shot
    /\ Sized(c.encoded)

Taped == \A i \in DOMAIN taping : Clip(taping[i])

ShotInv == ShotTypes /\ Marked /\ Taped

\* All sizes but NoSize are sizes.
LEMMA Sizes ==
    /\ Canvases \subseteq Positive /\ Cameras \subseteq Positive
    /\ Shot!Upright \in Positive /\ Shot!NoSize \notin Positive
  BY SizesAssumption DEF Positive, Shot!Upright, Shot!NoSize

\* What is captured has a size.
LEMMA BaseSize ==
    ASSUME ShotTypes, canvas # Shot!NoSize
    PROVE  Shot!Base \in Positive
<1>1. canvas \in Positive /\ phone.screen \in Positive
  BY Sizes DEF ShotTypes
<1> QED
  BY <1>1, FrameAround DEF Shot!Base

\* The editor's picture is the screenshot's.
LEMMA MarkedAsShot ==
    ASSUME Shot!Base \in Positive, NEW camera \in BOOLEAN
    PROVE  Shot!MarkedSize(camera) = Shot!ShotSize(camera)
<1> DEFINE w == Shot!Base[1]
           t == Shot!Tuck(w)
           p == Shot!PanelHeight(w)
           overlap == IF Shot!Framed THEN t ELSE 0
<1>1. Shot!Base = <<w, Shot!Base[2]>> /\ w \in Nat \ {0} /\ Shot!Base[2] \in Nat
  BY DEF Positive
<1>2. t \in Nat /\ p \in Nat /\ Shot!PanelWidth(w) > 0
  BY <1>1, Strips
<1>3. overlap \in Nat
  BY <1>2
<1>4. Shot!ShotSize(camera) =
          IF camera /\ p > overlap THEN <<w, Shot!Base[2] + p - overlap>> ELSE Shot!Base
  BY DEF Shot!ShotSize
<1> DEFINE wanted == IF camera /\ Shot!PanelWidth(w) > 0 THEN p ELSE 0
           tucked == IF Shot!Framed /\ wanted > 0 THEN t ELSE 0
           panel == IF wanted <= tucked THEN 0 ELSE wanted
           below == panel - (IF panel = 0 THEN 0 ELSE tucked)
<1>5. Shot!MarkedSize(camera) = <<w, Shot!Base[2] + Shot!AtLeast(0, below)>>
  BY DEF Shot!MarkedSize
<1>6. wanted = IF camera THEN p ELSE 0
  BY <1>2
<1>7. CASE camera /\ p > overlap
  <2>1. wanted = p /\ tucked = overlap /\ panel = p
    BY <1>2, <1>3, <1>6, <1>7
  <2>2. below = p - overlap
    BY <1>2, <1>3, <1>7, <2>1
  <2>3. p - overlap \in Int /\ p - overlap >= 0
    BY <1>2, <1>3, <1>7
  <2>4. Shot!AtLeast(0, below) = p - overlap
    BY <2>2, <2>3, Larger DEF Shot!AtLeast
  <2> QED
    BY <1>1, <1>2, <1>3, <1>4, <1>5, <1>7, <2>4
<1>8. CASE ~(camera /\ p > overlap)
  <2>1. panel = 0
    BY <1>2, <1>3, <1>6, <1>8
  <2>2. below = 0
    BY <2>1
  <2>3. Shot!AtLeast(0, below) = 0
    BY <2>2, Larger DEF Shot!AtLeast
  <2> QED
    BY <1>1, <1>4, <1>5, <1>8, <2>3
<1> QED
  BY <1>7, <1>8

\* The picture around a video is made anew or kept.
LEMMA Generated ==
    ASSUME ShotTypes, NEW size \in Canvases \cup {Shot!Upright}, NEW kept \in BOOLEAN,
           Shot!Generate(size, kept)
    PROVE  phone' \in [screen : Canvases \cup {Shot!Upright}, drawn : BOOLEAN]
  BY DEF Shot!Generate, ShotTypes

\* Every step keeps the sizes in order.
LEMMA ShotKept ==
    ASSUME ShotInv, Shot!Next \/ UNCHANGED shotV
    PROVE  ShotInv'
<1>0. ShotTypes /\ Marked /\ Taped
  BY DEF ShotInv
<1>1. ASSUME Shot!NewFrame PROVE ShotInv'
  <2>1. UNCHANGED <<marking, taping>> /\ fresh' = FALSE
    BY <1>1 DEF Shot!NewFrame
  <2>2. PICK size \in Canvases \ {canvas} :
          /\ canvas' = size
          /\ Shot!Generate(size, TRUE) \/ phone' = phone
    BY <1>1 DEF Shot!NewFrame
  <2>3. phone' \in [screen : Canvases \cup {Shot!Upright}, drawn : BOOLEAN]
    BY <1>0, <2>2, Generated DEF ShotTypes
  <2> QED
    BY <1>0, <2>1, <2>2, <2>3 DEF ShotInv, ShotTypes, Marked, Taped
<1>2. ASSUME Shot!Switch PROVE ShotInv'
  BY <1>0, <1>2 DEF Shot!Switch, ShotInv, ShotTypes, Marked, Taped
<1>3. ASSUME Shot!Reset PROVE ShotInv'
  BY <1>0, <1>3 DEF Shot!Reset, ShotInv, ShotTypes, Marked, Taped
<1>4. ASSUME Shot!ApplyColor PROVE ShotInv'
  <2>1. UNCHANGED <<canvas, fresh, marking, taping>>
    BY <1>4 DEF Shot!ApplyColor
  <2>2. PICK kept \in BOOLEAN :
          Shot!Generate(IF canvas = Shot!NoSize THEN Shot!Upright ELSE canvas, kept)
    BY <1>4 DEF Shot!ApplyColor
  <2>3. (IF canvas = Shot!NoSize THEN Shot!Upright ELSE canvas) \in Canvases \cup {Shot!Upright}
    BY <1>0 DEF ShotTypes
  <2>4. phone' \in [screen : Canvases \cup {Shot!Upright}, drawn : BOOLEAN]
    BY <1>0, <2>2, <2>3, Generated
  <2> QED
    BY <1>0, <2>1, <2>4 DEF ShotInv, ShotTypes, Marked, Taped
<1>5. ASSUME Shot!BeginAnnotation PROVE ShotInv'
  <2>1. UNCHANGED <<canvas, fresh, phone, taping>> /\ canvas # Shot!NoSize
    BY <1>5 DEF Shot!BeginAnnotation, Shot!viewVars
  <2>2. PICK camera \in BOOLEAN : marking' = <<Shot!MarkedSize(camera), Shot!ShotSize(camera)>>
    BY <1>5 DEF Shot!BeginAnnotation
  <2>3. Marked'
    BY <1>0, <2>1, <2>2, BaseSize, MarkedAsShot DEF Marked
  <2> QED
    BY <1>0, <2>1, <2>3 DEF ShotInv, ShotTypes, Taped
<1>6. ASSUME Shot!EndAnnotation PROVE ShotInv'
  BY <1>0, <1>6 DEF Shot!EndAnnotation, Shot!viewVars, ShotInv, ShotTypes, Marked,
     Taped
<1>7. ASSUME Shot!StartRecording PROVE ShotInv'
  <2>1. UNCHANGED <<canvas, fresh, phone, marking>> /\ Shot!Base \in Positive
    BY <1>0, <1>7, BaseSize DEF Shot!StartRecording, Shot!viewVars
  <2> DEFINE w == Shot!Base[1]
             t == Shot!Tuck(w)
             p == Shot!PanelHeight(w)
             PanelOf(strip) == IF strip THEN p ELSE 0
             OverlapOf(strip) == IF strip THEN t ELSE 0
             SizeOf(strip) == <<w, Shot!Base[2] + PanelOf(strip) - OverlapOf(strip)>>
  <2>2. PICK camera \in BOOLEAN, gif \in BOOLEAN, strip \in BOOLEAN :
          /\ strip <=> camera /\ Shot!PanelWidth(w) > 0 /\ p > t
          /\ taping' = IF Shot!Accepts(Shot!EncodedSize(SizeOf(strip), gif))
                       THEN <<[base |-> Shot!Base,
                               panel |-> PanelOf(strip), overlap |-> OverlapOf(strip),
                               size |-> SizeOf(strip),
                               encoded |-> Shot!EncodedSize(SizeOf(strip), gif),
                               shot |-> Shot!ShotSize(camera), framed |-> Shot!Framed]>>
                       ELSE <<>>
    BY <1>7 DEF Shot!StartRecording
  <2> DEFINE panel == PanelOf(strip)
             overlap == OverlapOf(strip)
             size == SizeOf(strip)
             encoded == Shot!EncodedSize(size, gif)
  <2>3. w \in Nat \ {0} /\ Shot!Base[2] \in Nat \ {0} /\ Shot!Base = <<w, Shot!Base[2]>>
    BY <2>1 DEF Positive
  <2>4. t \in Nat /\ p \in Nat /\ Shot!PanelWidth(w) > 0
    BY <2>3, Strips
  <2>5. Shot!Framed =>
          Shot!ShotSize(camera) = IF strip THEN <<w, Shot!Base[2] + p - t>> ELSE Shot!Base
    BY <2>2, <2>4 DEF Shot!ShotSize
  <2> HIDE DEF w, t, p
  <2>6. panel \in Nat /\ overlap \in Nat /\ overlap <= panel
    BY <2>2, <2>4
  <2>7. size = <<w, Shot!Base[2] + panel - overlap>>
    OBVIOUS
  <2> HIDE DEF panel, overlap
  <2>8. Shot!Base[2] + panel - overlap \in Nat \ {0}
    BY <2>3, <2>6
  <2> HIDE DEF size
  <2>9. size \in Positive
    BY <2>3, <2>7, <2>8 DEF Positive
  <2>10. Shot!Framed => size = Shot!ShotSize(camera)
    <3>1. CASE strip
      BY <2>5, <2>7, <3>1 DEF panel, overlap
    <3>2. CASE ~strip
      <4>1. size = <<w, Shot!Base[2] + 0 - 0>>
        BY <2>7, <3>2 DEF panel, overlap
      <4>2. Shot!Base[2] + 0 - 0 = Shot!Base[2]
        BY <2>3
      <4> QED
        BY <2>3, <2>5, <3>2, <4>1, <4>2
    <3> QED
      BY <3>1, <3>2
  <2>11. ASSUME Shot!Accepts(encoded) PROVE Taped'
    <3> DEFINE c == taping'[1]
    <3>1. DOMAIN taping' = {1} /\ Sized(encoded)
      BY <2>2, <2>11, <2>9, Encoded DEF panel, overlap, size
    <3>2. /\ c.base = Shot!Base /\ c.panel = panel /\ c.overlap = overlap
          /\ c.size = size /\ c.encoded = encoded
          /\ c.shot = Shot!ShotSize(camera) /\ c.framed = Shot!Framed
      BY <2>2, <2>11 DEF panel, overlap, size
    <3> HIDE DEF c, encoded
    <3>3. c.size = <<c.base[1], c.base[2] + c.panel - c.overlap>>
      BY <2>7, <3>2 DEF w
    <3>4. c.framed => c.size = c.shot
      BY <2>10, <3>2
    <3>5. Sized(c.encoded)
      BY <3>1, <3>2
    <3>6. c.base \in Positive /\ c.panel \in Nat /\ c.overlap \in Nat /\ c.overlap <= c.panel
      BY <2>1, <2>6, <3>2
    <3>7. Clip(c)
      BY <3>3, <3>4, <3>5, <3>6 DEF Clip
    <3>8. Clip(taping'[1])
      BY <3>7 DEF c
    <3> QED
      BY <3>1, <3>8 DEF Taped
  <2>12. ASSUME ~Shot!Accepts(encoded) PROVE Taped'
    <3>1. taping' = <<>>
      BY <2>2, <2>12 DEF panel, overlap, size
    <3>2. DOMAIN taping' = {}
      BY <3>1
    <3> QED
      BY <3>2 DEF Taped
  <2>13. Taped'
    BY <2>11, <2>12
  <2> QED
    BY <1>0, <2>1, <2>13 DEF ShotInv, ShotTypes, Marked
<1>8. ASSUME Shot!StopRecording PROVE ShotInv'
  <2>1. UNCHANGED <<canvas, fresh, phone, marking>> /\ DOMAIN taping' = {}
    BY <1>8 DEF Shot!StopRecording, Shot!viewVars
  <2> QED
    BY <1>0, <2>1 DEF ShotInv, ShotTypes, Marked, Taped
<1>9. ASSUME UNCHANGED shotV PROVE ShotInv'
  BY <1>0, <1>9 DEF shotV, ShotInv, ShotTypes, Marked, Taped
<1> QED
  BY <1>1, <1>2, <1>3, <1>4, <1>5, <1>6, <1>7, <1>8, <1>9 DEF Shot!Next

\* They are at the start.
LEMMA ShotBegins == Shot!Init => ShotInv
<1> SUFFICES ASSUME Shot!Init PROVE ShotInv
  OBVIOUS
<1>1. ShotTypes
  BY DEF Shot!Init, ShotTypes
<1>2. DOMAIN taping = {} /\ marking = <<>>
  BY DEF Shot!Init
<1> QED
  BY <1>1, <1>2 DEF ShotInv, Marked, Taped

\* What the pictures copy lies inside what they make.
LEMMA CopiedInside ==
    ASSUME ShotTypes
    PROVE  Shot!PicturesInside
<1> SUFFICES ASSUME canvas # Shot!NoSize PROVE Shot!PicturesInside
  BY DEF Shot!PicturesInside
<1>1. canvas \in Positive /\ phone.screen \in Positive /\ Shot!Base \in Positive
  BY Sizes, BaseSize DEF ShotTypes
<1>2. Shot!Inside(Shot!Scaled(canvas, Shot!ScreenArea(phone.screen)),
                  Shot!ScreenArea(phone.screen))
  <2> DEFINE side == Shot!Bezel(phone.screen).side
             top == Shot!Bezel(phone.screen).top
             w == phone.screen[1]
             h == phone.screen[2]
  <2>1. side \in Int /\ top \in Int /\ w \in Nat /\ h \in Nat
    BY <1>1, Bezels DEF Positive
  <2>2. Shot!ScreenArea(phone.screen) = <<side, top, w, h>>
    BY DEF Shot!ScreenArea
  <2> HIDE DEF side, top, w, h
  <2> QED
    BY <1>1, <2>1, <2>2, ScaledFits DEF Shot!Inside
<1>3. ASSUME NEW picture \in Cameras
      PROVE  LET top == Shot!Base[2] - IF Shot!Framed THEN Shot!Tuck(Shot!Base[1]) ELSE 0
                 area == Shot!CameraArea(Shot!Base[1], top, Shot!PanelHeight(Shot!Base[1]), picture)
                 size == Shot!ShotSize(TRUE)
             IN  area[3] > 0 => Shot!Inside(area, <<0, top, size[1], size[2] - top>>)
  <2> DEFINE w == Shot!Base[1]
             t == Shot!Tuck(w)
             overlap == IF Shot!Framed THEN t ELSE 0
             top == Shot!Base[2] - overlap
             panel == Shot!PanelHeight(w)
             wide == Shot!PanelWidth(w)
             border == Shot!AtLeast(2, Shot!Min({3, wide \div 200 + 2}))
             area == Shot!CameraArea(w, top, panel, picture)
             x == w \div 16 + border + 2
             y == top + border + 2
             iw == wide - 2 * (border + 2)
             ih == panel - 2 * (border + 2)
  <2>1. /\ w \in Nat \ {0} /\ Shot!Base[2] \in Nat /\ t \in Nat
        /\ panel \in Nat /\ wide \in Nat /\ wide + w \div 16 <= w
        /\ panel > 12 => panel > t
    BY <1>1, Strips DEF Positive
  <2>2. overlap \in Nat /\ overlap <= t /\ top \in Int
    BY <2>1
  <2>3. border \in Nat /\ border >= 2
    <3>1. wide \div 200 + 2 \in Nat
      BY <2>1
    <3>2. Shot!Min({3, wide \div 200 + 2}) \in Int
      BY <3>1, Smaller
    <3>3. border = IF 2 >= Shot!Min({3, wide \div 200 + 2}) THEN 2
                   ELSE Shot!Min({3, wide \div 200 + 2})
      BY <3>2, NotBelow
    <3> QED
      BY <3>2, <3>3
  <2>4. area = IF wide < 8 \/ iw <= 4 \/ ih <= 4 THEN <<0, 0, 0, 0>>
               ELSE Shot!Scaled(picture, <<x, y, iw, ih>>)
    BY DEF Shot!CameraArea
  <2>5. w \div 16 \in Nat
    BY <2>1
  <2> SUFFICES ASSUME area[3] > 0
               PROVE  Shot!Inside(area, <<0, top, Shot!ShotSize(TRUE)[1],
                                          Shot!ShotSize(TRUE)[2] - top>>)
    OBVIOUS
  <2> HIDE DEF area
  <2>6. iw > 4 /\ ih > 4 /\ area = Shot!Scaled(picture, <<x, y, iw, ih>>)
    <3>1. CASE wide < 8 \/ iw <= 4 \/ ih <= 4
      BY <2>4, <3>1
    <3>2. CASE ~(wide < 8 \/ iw <= 4 \/ ih <= 4)
      BY <2>1, <2>3, <2>4, <3>2
    <3> QED
      BY <3>1, <3>2
  <2>7. panel > 12 /\ panel > overlap
    BY <2>1, <2>2, <2>3, <2>6
  <2>8. Shot!ShotSize(TRUE) = <<w, Shot!Base[2] + panel - overlap>>
    BY <2>7 DEF Shot!ShotSize
  <2>9. x \in Int /\ y \in Int /\ iw \in Nat /\ ih \in Nat
    BY <2>1, <2>2, <2>3, <2>5, <2>6
  <2>10. picture \in Positive
    BY Sizes
  <2>11. /\ 0 <= x /\ x + iw <= w
         /\ top <= y /\ y + ih <= top + panel
    BY <2>1, <2>2, <2>3, <2>5
  <2> DEFINE u == Shot!ShotSize(TRUE)
             s == <<0, top, u[1], u[2] - top>>
  <2>12. u = <<w, Shot!Base[2] + panel - overlap>> /\ top = Shot!Base[2] - overlap
    BY <2>8
  <2> HIDE DEF u, overlap
  <2> HIDE DEF x, y, iw, ih, top, panel, w
  <2>13. /\ area[1] \in Int /\ area[2] \in Int /\ area[3] \in Nat /\ area[4] \in Nat
         /\ x <= area[1] /\ area[1] + area[3] <= x + iw
         /\ y <= area[2] /\ area[2] + area[4] <= y + ih
    BY <2>6, <2>9, <2>10, ScaledFits
  <2>14. panel \in Nat /\ w \in Nat /\ top \in Int /\ Shot!Base[2] \in Nat /\ overlap \in Nat
    BY <2>1, <2>2 DEF panel, w, top
  <2>15. s[1] = 0 /\ s[2] = top /\ s[1] + s[3] = w /\ s[2] + s[4] = top + panel
    <3>1. u[1] = w /\ u[2] = Shot!Base[2] + panel - overlap
      BY <2>12
    <3>2. s[1] = 0 /\ s[2] = top /\ s[3] = u[1] /\ s[4] = u[2] - top
      OBVIOUS
    <3> QED
      BY <2>12, <2>14, <3>1, <3>2
  <2> HIDE DEF s
  <2>16. Shot!Inside(area, s)
    BY <2>9, <2>11, <2>13, <2>14, <2>15 DEF Shot!Inside
  <2> QED
    BY <2>16 DEF s, u
<1> QED
  BY <1>2, <1>3 DEF Shot!PicturesInside

\* What the properties say.
LEMMA ShotHolds == ShotInv => Shot!PicturesInside /\ Shot!MarkedIsShot /\ Shot!ClipKeepsSize
<1> SUFFICES ASSUME ShotInv PROVE Shot!ClipKeepsSize
  BY CopiedInside DEF ShotInv, Marked, Shot!MarkedIsShot
<1> SUFFICES ASSUME NEW i \in DOMAIN taping, Clip(taping[i])
             PROVE  /\ canvas # Shot!NoSize /\ Shot!Base = taping[i].base =>
                           Shot!PushedSize(taping[i]) = taping[i].size
                    /\ taping[i].framed => taping[i].size = taping[i].shot
  BY DEF ShotInv, Taped, Shot!ClipKeepsSize
<1>1. taping[i].framed => taping[i].size = taping[i].shot
  BY DEF Clip
<1>2. ASSUME Shot!Base = taping[i].base
      PROVE  Shot!PushedSize(taping[i]) = taping[i].size
  <2>1. CASE taping[i].panel > 0
    BY <1>2, <2>1 DEF Shot!PushedSize, Clip
  <2>2. CASE ~(taping[i].panel > 0)
    BY <1>2, <2>2 DEF Shot!PushedSize, Clip, Positive
  <2> QED
    BY <2>1, <2>2
<1> QED
  BY <1>1, <1>2

\* So it always holds.
LEMMA ShotAlways == WindowSpec => []ShotInv
<1>1. WindowInit => ShotInv
  BY ShotBegins DEF WindowInit
<1>2. ShotInv /\ [WindowNext]_windowVars => ShotInv'
  BY ShotKept DEF WindowNext, windowVars
<1> QED
  BY <1>1, <1>2, PTL DEF WindowSpec

\* All of it is TypeOK.
LEMMA ShotTypesTogether == ShotInv => Shot!TypeOK
  BY DEF ShotInv, ShotTypes, Taped, Clip, Sized, Shot!TypeOK

(***************************************************************************)
(* PictureFiles: what a toast says is saved.                               *)
(***************************************************************************)

FileTypes ==
    /\ now \in 0 .. MaxSeconds /\ shots \in 0 .. MaxShots
    /\ DOMAIN disk \subseteq Files!Names
    /\ told.shot \in 0 .. shots /\ told.parts \subseteq Files!Outputs
    /\ done \subseteq told.parts
FileFlags == alive \in BOOLEAN /\ editing \in BOOLEAN

\* Each file holds a picture of the kind that its name says.
KindNamed == \A n \in DOMAIN disk : disk[n][1] = n[2]

FileInv == FileTypes /\ FileFlags /\ KindNamed

\* Both are TypeOK.
LEMMA FileTypesTogether == Files!TypeOK <=> FileTypes /\ FileFlags
  BY DEF Files!TypeOK, FileTypes, FileFlags

\* What a step does to the files: SavedIsThere's two halves.
Told ==
    told' # told /\ "save" \in told'.parts =>
        told'.name \in DOMAIN disk' /\ disk'[told'.name][2] = told'.shot
Kept ==
    \A n \in DOMAIN disk :
        \/ n \in DOMAIN disk' /\ disk'[n] = disk[n]
        \/ n[1] = now /\ (n \in DOMAIN disk' => disk'[n][1] = disk[n][1])

\* One file, or two of a resized picture, are written, or not, or in part.
LEMMA OneWritten ==
    ASSUME FileInv, NEW kind \in Files!Kinds, NEW name \in Files!Names, NEW names,
           name \in names,
           \A n \in names : n \in Files!Names /\ n[1] = now /\ n[2] = kind,
           NEW result \in Files!Results,
           disk' = Files!Written(kind, name, names, result)
    PROVE  /\ KindNamed' /\ DOMAIN disk' \subseteq Files!Names /\ Kept
           /\ result = "written" => name \in DOMAIN disk' /\ disk'[name][2] = shots + 1
<1>1. CASE result = "written"
  <2>1. disk' = [n \in DOMAIN disk \cup names |->
                    IF n \in names THEN <<kind, shots + 1>> ELSE disk[n]]
    BY <1>1 DEF Files!Written
  <2>2. /\ DOMAIN disk' = DOMAIN disk \cup names
        /\ \A n \in names : disk'[n] = <<kind, shots + 1>>
        /\ \A n \in DOMAIN disk \ names : disk'[n] = disk[n]
    BY <2>1
  <2> QED
    BY <1>1, <2>2 DEF FileInv, FileTypes, KindNamed, Kept
<1>2. CASE result = "refused"
  <2>1. disk' = disk
    BY <1>2 DEF Files!Written
  <2> QED
    BY <1>2, <2>1 DEF FileInv, FileTypes, KindNamed, Kept
<1>3. CASE result = "cut"
  <2>1. disk' = [n \in DOMAIN disk \ {name} |-> disk[n]]
    BY <1>3 DEF Files!Written
  <2>2. /\ DOMAIN disk' = DOMAIN disk \ {name}
        /\ \A n \in DOMAIN disk \ {name} : disk'[n] = disk[n]
    BY <2>1
  <2> QED
    BY <1>3, <2>2 DEF FileInv, FileTypes, KindNamed, Kept
<1> QED
  BY <1>1, <1>2, <1>3 DEF Files!Results

\* The name of a picture of now.
LEMMA Named ==
    ASSUME FileTypes, NEW kind \in Files!Kinds, NEW resized \in BOOLEAN
    PROVE  /\ Files!NameOf(kind, resized) \in Files!Names
           /\ Files!NameOf(kind, resized)[1] = now /\ Files!NameOf(kind, resized)[2] = kind
  BY DEF Files!NameOf, Files!Names, FileTypes

\* What emit_screenshot_output() does.
LEMMA Emitted ==
    ASSUME FileInv, NEW kind \in Files!Kinds, NEW outputs \in SUBSET Files!Outputs,
           NEW temp \in BOOLEAN, Files!Emit(kind, outputs, temp), shots < MaxShots,
           shots' = shots + 1
    PROVE  /\ KindNamed' /\ DOMAIN disk' \subseteq Files!Names /\ Kept /\ Told
           /\ told'.shot \in 0..shots' /\ told'.parts \subseteq Files!Outputs
           /\ done' \subseteq told'.parts /\ shots' \in 0..MaxShots
<1> DEFINE Name(resized) == Files!NameOf(kind, resized)
           Made(resized, original) ==
               {Name(resized)} \cup IF resized /\ original THEN {Name(FALSE)} ELSE {}
           writes == "save" \in outputs \/ ("snag" \in outputs /\ temp)
<1>1. PICK resized \in BOOLEAN, original \in BOOLEAN, result \in Files!Results,
           really \in SUBSET outputs :
          /\ disk' = IF "save" \in outputs
                     THEN Files!Written(kind, Name(resized), Made(resized, original), result)
                     ELSE disk
          /\ told' = IF writes => result = "written"
                     THEN [shot |-> shots + 1, name |-> Name(resized), parts |-> outputs]
                     ELSE told
          /\ done' = IF writes => result = "written" THEN really ELSE done
  BY DEF Files!Emit
<1> DEFINE name == Name(resized)
           names == Made(resized, original)
<1>2. name \in names /\ \A n \in names : n \in Files!Names /\ n[1] = now /\ n[2] = kind
  BY Named DEF FileInv
<1> HIDE DEF name, names
<1>3. disk' = IF "save" \in outputs THEN Files!Written(kind, name, names, result) ELSE disk
  BY <1>1 DEF name, names
<1>4. /\ KindNamed' /\ DOMAIN disk' \subseteq Files!Names /\ Kept
      /\ "save" \in outputs /\ result = "written" =>
             name \in DOMAIN disk' /\ disk'[name][2] = shots + 1
  <2>1. CASE "save" \in outputs
    BY <1>2, <1>3, <2>1, OneWritten
  <2>2. CASE "save" \notin outputs
    BY <1>3, <2>2 DEF FileInv, FileTypes, KindNamed, Kept
  <2> QED
    BY <2>1, <2>2
<1>5. shots' \in 0..MaxShots /\ shots \in Nat /\ told.shot \in 0..shots
  BY Bounds DEF FileInv, FileTypes
<1>6. CASE writes => result = "written"
  <2>1. told'.shot = shots + 1 /\ told'.name = name /\ told'.parts = outputs /\ done' = really
    BY <1>1, <1>6 DEF name
  <2>2. "save" \in outputs => result = "written"
    BY <1>6
  <2> QED
    BY <1>4, <1>5, <2>1, <2>2 DEF Told
<1>7. CASE ~(writes => result = "written")
  <2>1. told' = told /\ done' = done
    BY <1>1, <1>7
  <2> QED
    BY <1>4, <1>5, <2>1 DEF Told, FileInv, FileTypes
<1> QED
  BY <1>6, <1>7

\* Every step keeps it, and tells and loses nothing else.
LEMMA FileKept ==
    ASSUME FileInv, Files!Next \/ UNCHANGED fileV
    PROVE  FileInv' /\ Told /\ Kept
<1> DEFINE Goal == FileInv' /\ Told /\ Kept
<1>0. FileTypes /\ FileFlags /\ KindNamed
  BY DEF FileInv
<1>1. ASSUME UNCHANGED <<shots, disk, told, done>>, now' \in 0..MaxSeconds, FileFlags'
      PROVE  Goal
  BY <1>0, <1>1 DEF FileInv, FileTypes, KindNamed, Told, Kept
<1>2. ASSUME Files!Dies PROVE Goal
  BY <1>0, <1>1, <1>2 DEF Files!Dies, FileTypes, FileFlags
<1>3. ASSUME Files!TakeScreenshot PROVE Goal
  <2>1. PICK outputs \in SUBSET Files!Outputs, temp \in BOOLEAN :
          \/ Files!Dies
          \/ /\ Files!Emit("screenshot", outputs, temp) /\ shots' = shots + 1
             /\ UNCHANGED <<alive, editing, now>>
    BY <1>3 DEF Files!TakeScreenshot
  <2>2. "screenshot" \in Files!Kinds /\ shots < MaxShots
    BY <1>3 DEF Files!Kinds, Files!TakeScreenshot
  <2> QED
    BY <1>0, <1>2, <2>1, <2>2, Emitted DEF FileInv, FileTypes, FileFlags
<1>4. ASSUME Files!SaveAnnotated PROVE Goal
  <2>1. PICK outputs \in SUBSET Files!Outputs, temp \in BOOLEAN :
          \/ Files!Dies
          \/ /\ Files!Emit("annotated", outputs, temp) /\ shots' = shots + 1
             /\ editing' = FALSE /\ UNCHANGED <<alive, now>>
    BY <1>4 DEF Files!SaveAnnotated
  <2>2. "annotated" \in Files!Kinds /\ shots < MaxShots
    BY <1>4 DEF Files!Kinds, Files!SaveAnnotated
  <2>3. CASE Files!Dies
    BY <1>2, <2>3
  <2>4. CASE /\ Files!Emit("annotated", outputs, temp) /\ shots' = shots + 1
             /\ editing' = FALSE /\ UNCHANGED <<alive, now>>
    <3>1. FileFlags'
      BY <1>0, <2>4 DEF FileFlags
    <3> QED
      BY <1>0, <2>2, <2>4, <3>1, Emitted DEF FileInv, FileTypes
  <2> QED
    BY <2>1, <2>3, <2>4
<1>5. ASSUME Files!SaveWebcam PROVE Goal
  <2> DEFINE name == Files!NameOf("webcam", FALSE)
  <2>1. PICK result \in Files!Results :
          /\ disk' = Files!Written("webcam", name, {name}, result)
          /\ told' = [shot |-> shots + 1, name |-> name,
                      parts |-> IF result = "written" THEN {"save"} ELSE {}]
          /\ done' = told'.parts
    BY <1>5 DEF Files!SaveWebcam
  <2>2. "webcam" \in Files!Kinds /\ FALSE \in BOOLEAN
    BY DEF Files!Kinds
  <2>3. name \in Files!Names /\ name[1] = now /\ name[2] = "webcam"
    BY <1>0, <2>2, Named
  <2> HIDE DEF name
  <2>4. /\ KindNamed' /\ DOMAIN disk' \subseteq Files!Names /\ Kept
        /\ result = "written" => name \in DOMAIN disk' /\ disk'[name][2] = shots + 1
    BY <2>1, <2>2, <2>3, OneWritten
  <2>5. /\ told'.shot = shots + 1 /\ told'.name = name
        /\ told'.parts = (IF result = "written" THEN {"save"} ELSE {})
    BY <2>1
  <2>6. Told
    BY <2>4, <2>5 DEF Told
  <2>7. shots < MaxShots /\ shots' = shots + 1 /\ UNCHANGED <<alive, editing, now>>
    BY <1>5 DEF Files!SaveWebcam
  <2>8. FileTypes'
    <3>1. told'.parts \subseteq Files!Outputs /\ done' = told'.parts
      BY <2>1, <2>5 DEF Files!Outputs
    <3>2. told'.shot \in 0..shots' /\ shots' \in 0..MaxShots
      BY <1>0, <2>5, <2>7, Bounds DEF FileTypes
    <3> QED
      BY <1>0, <2>4, <2>7, <3>1, <3>2 DEF FileTypes
  <2> QED
    BY <1>0, <2>4, <2>6, <2>7, <2>8 DEF FileInv, FileFlags
<1>6. ASSUME Files!BeginAnnotation \/ Files!EndAnnotation PROVE Goal
  <2>1. FileFlags'
    BY <1>0, <1>6 DEF Files!BeginAnnotation, Files!EndAnnotation, FileFlags
  <2> QED
    BY <1>0, <1>1, <1>6, <2>1 DEF Files!BeginAnnotation, Files!EndAnnotation,
       FileTypes
<1>7. ASSUME Files!Tick PROVE Goal
  <2>1. FileFlags'
    BY <1>0, <1>7 DEF Files!Tick, FileFlags
  <2> QED
    BY <1>0, <1>1, <1>7, <2>1, Bounds DEF Files!Tick, FileTypes
<1>8. ASSUME UNCHANGED fileV PROVE Goal
  BY <1>0, <1>1, <1>8 DEF fileV, FileTypes, FileFlags
<1> QED
  BY <1>3, <1>4, <1>5, <1>6, <1>7, <1>8 DEF Files!Next

\* It holds before the first picture.
LEMMA FileBegins == Files!Init => FileInv
<1> SUFFICES ASSUME Files!Init PROVE FileInv
  OBVIOUS
<1>1. DOMAIN disk = {} /\ now = 0 /\ shots = 0 /\ told.shot = 0 /\ told.parts = {} /\ done = {}
  BY DEF Files!Init
<1>2. FileTypes /\ KindNamed
  BY <1>1, Bounds DEF FileTypes, KindNamed
<1> QED
  BY <1>2 DEF Files!Init, FileInv, FileFlags

\* So it always holds.
LEMMA FileAlways == WindowSpec => []FileInv
<1>1. WindowInit => FileInv
  BY FileBegins DEF WindowInit
<1>2. FileInv /\ [WindowNext]_windowVars => FileInv'
  BY FileKept DEF WindowNext, windowVars
<1> QED
  BY <1>1, <1>2, PTL DEF WindowSpec

(***************************************************************************)
(* The theorems.                                                           *)
(***************************************************************************)

\* A recording has a worker and a worker a recording, in every state: start()
\* (recorder.cpp) never assigns a thread to worker_ while one is joinable.
THEOREM WorkerLifetime == Spec => []WorkerOwned
<1>1. RecordingInv => WorkerOwned
  BY DEF RecordingInv
<1> QED
  BY <1>1, RecordingBegins, RecordingKept, PTL DEF Spec

\* A recording that ends without an error and not at its limit leaves no frame
\* in the queue: stop() (recorder.cpp) lets the worker empty it first.
THEOREM TailKept == Spec => []StopKeepsTail
<1>1. RecordingInv => StopKeepsTail
  BY DEF RecordingInv, EndedByStop, StopKeepsTail
<1> QED
  BY <1>1, RecordingBegins, RecordingKept, PTL DEF Spec

\* The handle of the thread that looks for phones is joined, or left to itself,
\* before it is assigned again or destroyed, whatever the panel was doing when it
\* was closed; and the button says "Working..." only while a thread connects.
THEOREM HandleJoined == WindowSpec => []PanelSafe
<1>1. PanelInv => PanelSafe
  BY DEF PanelInv, HandlePlaces, PanelSafe, Panel!HandleEmpty
<1> QED
  BY <1>1, PanelAlways, PTL

\* The last frame of a source that is gone does not come back over the waiting
\* screen, whichever of its callbacks overlaps the reset.
THEOREM WaitingScreen == WindowSpec => []NoOldFrame
<1>1. FrameInv => NoOldFrame
  BY DEF FrameInv, NoOldFrame
<1> QED
  BY <1>1, FrameAlways, PTL

\* One editor and one panel are up, an editor's drag ends with the button; the
\* pictures that are copied lie inside those that are made, the annotator has the
\* screenshot's picture and a clip's frames have the clip's size, for all sizes.
THEOREM EditorsExclude == WindowSpec => []ModalsSafe
<1>1. ModalInv => Modal!ModalsExclude /\ Modal!OnePanel /\ Modal!EditorFollowsButton
  BY DEF ModalInv, OneEditor, Modal!ModalsExclude, Modal!EditorFollowsButton
<1>2. ModalInv /\ ShotInv => ModalsSafe
  BY <1>1, ShotHolds DEF ModalsSafe
<1> QED
  BY <1>2, ModalAlways, ShotAlways, PTL

\* Recognised texts are copied in the order in which their regions were chosen,
\* and a toast that says "saved" names a file that has the picture.
THEOREM ResultsKept == WindowSpec => ResultsInOrder
<1>1. ModalInv /\ [WindowNext]_windowVars => [clip' # clip => clip' > clip]_clip
  BY ModalKept DEF WindowNext, windowVars
<1>2. FileInv /\ [WindowNext]_windowVars => [Told /\ Kept]_(Files!fileVars)
  BY FileKept DEF WindowNext, windowVars, Files!fileVars, fileV
<1>3. WindowSpec => Modal!ResultsInOrder
  BY <1>1, ModalAlways, PTL DEF WindowSpec, Modal!ResultsInOrder
<1>4. WindowSpec => Files!SavedIsThere
  BY <1>2, FileAlways, PTL DEF WindowSpec, Files!SavedIsThere, Told, Kept
<1> QED
  BY <1>3, <1>4, PTL DEF ResultsInOrder

\* Every variable keeps its type; and what is recorded has even sides that are not 0,
\* whatever the sizes of the videos: what would not have is not begun.
THEOREM WindowTyped == WindowSpec => []PartsTypeOK
<1> DEFINE Parts == part \in {"recording", "panel", "modal", "frame", "shot", "file"}
<1>1. WindowSpec => []Parts
  <2>1. WindowInit => Parts
    BY DEF WindowInit
  <2>2. Parts /\ [WindowNext]_windowVars => Parts'
    BY DEF WindowNext, windowVars
  <2> QED
    BY <2>1, <2>2, PTL DEF WindowSpec
<1>2. WindowSpec => []TypeOK
  <2>1. WindowInit => TypeOK
    BY RecordingBegins DEF WindowInit, RecordingInv
  <2>2. [WindowNext]_windowVars => [Next]_vars
    BY DEF WindowNext, windowVars
  <2>3. TypeOK /\ [WindowNext]_windowVars => TypeOK'
    BY <2>2, RecordingTypes
  <2> QED
    BY <2>1, <2>3, PTL DEF WindowSpec
<1>3. PanelInv => Panel!TypeOK
  BY PanelTypesTogether DEF PanelInv
<1>4. ModalInv => Modal!TypeOK
  BY ModalTypesTogether DEF ModalInv, JobInv
<1>5. FrameInv => Frame!TypeOK
  BY FrameTypesTogether DEF FrameInv
<1>6. FileInv => Files!TypeOK
  BY FileTypesTogether DEF FileInv
<1> HIDE DEF Parts
<1>7. /\ Parts /\ TypeOK /\ PanelInv /\ ModalInv /\ FrameInv
      /\ ShotInv /\ FileInv
      => PartsTypeOK
  BY <1>3, <1>4, <1>5, <1>6, ShotTypesTogether DEF PartsTypeOK, Parts
<1> QED
  BY <1>1, <1>2, <1>7, PanelAlways, ModalAlways, FrameAlways, ShotAlways,
     FileAlways, PTL
=============================================================================
