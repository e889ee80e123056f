------------------------------ MODULE MCWindow ------------------------------
(***************************************************************************)
(* The parts of the renderer, for TLC: the recording, of which this module *)
(* is an extension, the panel that adds a phone, the modal editors, the    *)
(* handover of frames, the pictures that are made of what is shown, and    *)
(* the files they go to.  What they share is left to each of them, so they *)
(* are not multiplied: `part' is chosen by Init and never changes, and     *)
(* only the part it names moves.                                           *)
(***************************************************************************)
EXTENDS Recording, WindowParameters

VARIABLES
    part,
    ui, next, visible, animating, drawn, polls, polling, handle, pollers, found,
    rows, busy, submits, torn,
    annotating, tool, drawing, typing, typed, strokes, ocr, region, running, jobs,
    pending, clip, mine, held, drags, panels,
    owner, live, passed, slot, resetAsked, clearing, screen, framed, overlay, switched,
    canvas, fresh, phone, marking, taping,
    alive, editing, now, shots, disk, told, done

Panel == INSTANCE ConnectPanel WITH after <- next, shown <- drawn, worker <- pollers
Modal == INSTANCE Modals
Frame == INSTANCE FrameHandover WITH pending <- slot, reset <- resetAsked
Shot  == INSTANCE Screenshots
Files == INSTANCE PictureFiles

panelV == <<ui, next, visible, animating, drawn, polls, polling, handle, pollers, found,
            rows, busy, submits, torn>>
modalV == <<annotating, tool, drawing, typing, typed, strokes, ocr, region, running,
            jobs, pending, clip, mine, held, drags, panels>>
frameV == <<owner, live, passed, slot, resetAsked, clearing, screen, framed, overlay,
            switched>>
shotV  == <<canvas, fresh, phone, marking, taping>>
fileV  == <<alive, editing, now, shots, disk, told, done>>
windowVars == <<part, vars, panelV, modalV, frameV, shotV, fileV>>

WindowInit ==
    /\ part \in {"recording", "panel", "modal", "frame", "shot", "file"}
    /\ Init /\ Panel!Init /\ Modal!Init /\ Frame!Init
    /\ Shot!Init /\ Files!Init /\ (part # "shot" => phone.drawn)

WindowNext ==
    /\ UNCHANGED part
    /\ \/ part = "recording" /\ Next
          /\ UNCHANGED <<panelV, modalV, frameV, shotV, fileV>>
       \/ part = "panel" /\ Panel!Next
          /\ UNCHANGED <<vars, modalV, frameV, shotV, fileV>>
       \/ part = "modal" /\ Modal!Next
          /\ UNCHANGED <<vars, panelV, frameV, shotV, fileV>>
       \/ part = "frame" /\ Frame!Next
          /\ UNCHANGED <<vars, panelV, modalV, shotV, fileV>>
       \/ part = "shot" /\ Shot!Next
          /\ UNCHANGED <<vars, panelV, modalV, frameV, fileV>>
       \/ part = "file" /\ Files!Next
          /\ UNCHANGED <<vars, panelV, modalV, frameV, shotV>>

\* Fairness of the recording is asked of it only when it moves; a panel that
\* does not move has nothing of its fairness enabled.
WindowSpec ==
    /\ WindowInit /\ [][WindowNext]_windowVars
    /\ WF_vars(part = "recording" /\ LoopStep)
    /\ WF_vars(part = "recording" /\ WorkerStep)
    /\ WF_vars(part = "recording" /\ LimitClock)
    /\ WF_vars(part = "recording" /\ CountdownClock)
    /\ WF_vars(part = "recording" /\ SlotClock)
    /\ Panel!Fairness

\* What adb finds: no property that holds depends on it.
MCLists == {<<>>}

\* A phone, turned, one whose frame is as wide as it may be, and one too flat for a GIF.
MCCanvases == {<<1080, 2400>>, <<2400, 1080>>, <<15, 20>>, <<720, 2>>}
MCCameras == {<<1280, 720>>, <<640, 480>>, <<9, 16>>}

\* The types of the parts.
PartsTypeOK ==
    CASE part = "recording" -> TypeOK
      [] part = "panel"     -> Panel!TypeOK
      [] part = "modal"     -> Modal!TypeOK
      [] part = "frame"     -> Frame!TypeOK
      [] part = "shot"      -> Shot!TypeOK
      [] part = "file"      -> Files!TypeOK

\* ConnectPanel: the worker's thread is never overwritten nor destroyed running,
\* and "Working..." is true.
PanelSafe == part = "panel" => Panel!HandleEmpty /\ Panel!BusyIsTrue

\* Modals: one editor and one panel at a time, whose drag ends with the button.
\* Screenshots: what they copy is inside what they make, the editor has the picture
\* that a screenshot would be, a clip's frames have its size.
ModalsSafe ==
    /\ part = "modal" => Modal!ModalsExclude /\ Modal!OnePanel /\ Modal!EditorFollowsButton
    /\ part = "shot" => Shot!PicturesInside /\ Shot!MarkedIsShot /\ Shot!ClipKeepsSize

\* Modals: texts are copied in the order of their regions, each once.  PictureFiles:
\* what a toast says is saved is there.
ResultsInOrder == Modal!ResultsInOrder /\ Files!SavedIsThere

\* FrameHandover: no frame from before a reset comes back.
NoOldFrame == part = "frame" => Frame!NoOldFrame

\* Recording: stop() comes back, a timed clip ends.  ConnectPanel: a closed panel
\* stops the discovery, but for one race.
ThingsEnd == StopReturns /\ TimedClipEnds /\ Panel!DiscoveryStops

\* (Not true.)  ConnectPanel: closing the panel never waits for adb.
NeverJoinsAdb == part = "panel" => Panel!NeverJoinsAdb
=============================================================================
