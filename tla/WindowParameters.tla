-------------------------- MODULE WindowParameters --------------------------
(***************************************************************************)
(* The parameters of the modules of the window: ConnectPanel, Modals,      *)
(* FrameHandover and Screenshots.                                          *)
(***************************************************************************)
EXTENDS Naturals, Sequences

CONSTANTS
    Nobody,     \* ConnectPanel: no thread
    Workers,    \* ConnectPanel: discovery workers, one for each opening
    Submits,    \* ConnectPanel: the connecting threads, one for each submit
    Phones,     \* ConnectPanel: Android phones that adb may find
    Lists,      \* ConnectPanel: the lists of phones that adb returns
    MaxStrokes, \* Modals: strokes in a picture
    MaxJobs,    \* Modals: recognition jobs
    Sources,    \* FrameHandover: sources of frames
    Canvases,   \* Screenshots: sizes of the video
    Cameras,    \* Screenshots: sizes of the webcam's picture
    MaxShots,   \* Screenshots: pictures
    MaxSeconds  \* Screenshots: seconds of the clock

ASSUME WorkersAssumption == Nobody \notin Workers /\ Nobody \notin Sources

ASSUME ListsAssumption == <<>> \in Lists /\ Lists \subseteq Seq(Phones)

ASSUME MaxAssumption ==
    {MaxStrokes, MaxJobs, MaxShots, MaxSeconds} \subseteq Nat

ASSUME SizesAssumption ==
    Canvases \cup Cameras \subseteq (Nat \ {0}) \X (Nat \ {0})
=============================================================================
