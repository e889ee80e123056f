--------------------------- MODULE FrameHandover ---------------------------
(***************************************************************************)
(* How a decoded frame reaches the screen (src/src/media/renderer.cpp and  *)
(* the callbacks of src/src/app.cpp): the threads of the sources put it    *)
(* into a slot, the render thread takes it from there, and a source's end  *)
(* asks for the waiting screen.                                            *)
(*                                                                         *)
(* A frame's size is one of three shapes: the phone upright, the phone     *)
(* turned, and a wide canvas of an app, which is not the phone turned.     *)
(***************************************************************************)
EXTENDS WindowParameters

VARIABLES
    owner,    \* App::active_source_, or Nobody
    live,     \* the sources that stream
    passed,   \* the shape of a frame that passed the owner's test, or Nobody
    pending,  \* pending_frame_ with has_new_frame_, or Nobody
    reset,    \* reset_requested_
    clearing, \* the render thread is about to drop the pending frame
    screen,   \* the frame in the texture (ever_received_frame_), or Nobody
    framed,   \* the shape phone_frame_ was generated for
    overlay,  \* the source that pending_source_name_ waits for, or Nobody
    switched  \* source_just_switched_

frameVars == <<owner, live, passed, pending, reset, clearing, screen, framed,
               overlay, switched>>

Shapes == {"upright", "turned", "canvas"}

\* `fresh' (history): it was submitted after the last reset was applied.
Frames == [source : Sources, shape : Shapes, fresh : BOOLEAN]

TypeOK ==
    /\ owner \in Sources \cup {Nobody}
    /\ live \subseteq Sources
    /\ passed \in [Sources -> Shapes \cup {Nobody}]
    /\ pending \in Frames \cup {Nobody} /\ screen \in Frames \cup {Nobody}
    /\ reset \in BOOLEAN /\ clearing \in BOOLEAN /\ switched \in BOOLEAN
    /\ framed \in Shapes
    /\ overlay \in Sources \cup {Nobody}

Init ==
    /\ owner = Nobody /\ live = Sources
    /\ passed = [s \in Sources |-> Nobody]
    /\ pending = Nobody /\ screen = Nobody
    /\ reset = FALSE /\ clearing = FALSE /\ switched = FALSE
    /\ framed = "upright" /\ overlay = Nobody

-----------------------------------------------------------------------------
(* The threads of the sources.                                             *)

\* The video callback: it takes the screen if nobody has it, and tests.
VideoCallback(s) ==
    /\ s \in live /\ passed[s] = Nobody
    /\ owner \in {s, Nobody}
    /\ owner' = s
    /\ \E h \in Shapes : passed' = [passed EXCEPT ![s] = h]
    /\ UNCHANGED <<live, pending, reset, clearing, screen, framed, overlay, switched>>

\* Mutant: a callback submits without a frame.
SubmitFrameless(s) ==
    /\ s \in live
    /\ pending' = [source |-> s, shape |-> passed[s], fresh |-> TRUE]
    /\ passed' = [passed EXCEPT ![s] = Nobody]
    /\ UNCHANGED <<owner, live, reset, clearing, screen, framed, overlay, switched>>

\* submit_frame(): the newer frame replaces one that was not drawn.
SubmitFrame(s) ==
    /\ passed[s] # Nobody
    /\ pending' = [source |-> s, shape |-> passed[s], fresh |-> TRUE]
    /\ passed' = [passed EXCEPT ![s] = Nobody]
    /\ UNCHANGED <<owner, live, reset, clearing, screen, framed, overlay, switched>>

\* The disconnect callback.
Disconnect(s) ==
    IF owner = s THEN owner' = Nobody /\ reset' = TRUE
                 ELSE UNCHANGED <<owner, reset>>

\* The stream's own thread ends.
StreamEnds(s) ==
    /\ s \in live /\ passed[s] = Nobody
    /\ live' = live \ {s}
    /\ Disconnect(s)
    /\ UNCHANGED <<passed, pending, clearing, screen, framed, overlay, switched>>

\* TEARDOWN: another thread calls the callback, whatever the stream is doing.
Teardown(s) ==
    /\ s \in live
    /\ Disconnect(s)
    /\ UNCHANGED <<live, passed, pending, clearing, screen, framed, overlay, switched>>

StreamStarts(s) ==
    /\ s \notin live
    /\ live' = live \cup {s}
    /\ UNCHANGED <<owner, passed, pending, reset, clearing, screen, framed, overlay,
                   switched>>

-----------------------------------------------------------------------------
(* The render thread.                                                      *)

\* A source's dot.
ClickDot(s) ==
    /\ ~clearing
    /\ s \in live
    /\ overlay' = IF owner # s THEN s ELSE overlay
    /\ switched' = TRUE
    /\ owner' = s
    /\ UNCHANGED <<live, passed, pending, reset, clearing, screen, framed>>

\* Ctrl+1 to Ctrl+9, which asks for another frame only for another source.
KeyDot(s) ==
    /\ ~clearing
    /\ s \in live
    /\ IF owner # s THEN overlay' = s /\ switched' = TRUE
                    ELSE UNCHANGED <<overlay, switched>>
    /\ owner' = s
    /\ UNCHANGED <<live, passed, pending, reset, clearing, screen, framed>>

\* What is left in the slot is older than the reset.
Aged == IF pending = Nobody THEN Nobody ELSE [pending EXCEPT !.fresh = FALSE]

\* The reset that a source's end asked for.
ApplyReset ==
    /\ reset /\ ~clearing
    /\ reset' = FALSE
    /\ screen' = Nobody /\ overlay' = Nobody
    /\ pending' = Aged
    /\ clearing' = TRUE
    /\ UNCHANGED <<owner, live, passed, framed, switched>>

\* Mutant: the frame that waits is kept.
KeepPending ==
    /\ clearing
    /\ clearing' = FALSE
    /\ UNCHANGED <<owner, live, passed, pending, reset, screen, framed, overlay, switched>>

DropPending ==
    /\ clearing
    /\ clearing' = FALSE
    /\ pending' = Nobody
    /\ UNCHANGED <<owner, live, passed, reset, screen, framed, overlay, switched>>

Resized == screen = Nobody \/ screen.shape # pending.shape

\* The width and the height were swapped.
RealRotation == screen # Nobody /\ {screen.shape, pending.shape} = {"upright", "turned"}

\* render_frame(): the phone frame is made anew for a first frame, a rotation,
\* or a source that was picked; another change of size is a canvas.
RenderFrame ==
    /\ ~clearing
    /\ pending # Nobody
    /\ framed' = IF Resized /\ (screen = Nobody \/ RealRotation \/ switched)
                   THEN pending.shape ELSE framed
    /\ switched' = (switched /\ ~Resized)
    /\ screen' = pending
    /\ pending' = Nobody
    /\ overlay' = Nobody
    /\ UNCHANGED <<owner, live, passed, reset, clearing>>

Next ==
    \/ \E s \in Sources :
          \/ VideoCallback(s) \/ SubmitFrame(s)
          \/ StreamEnds(s) \/ Teardown(s) \/ StreamStarts(s)
          \/ ClickDot(s) \/ KeyDot(s)
    \/ ApplyReset \/ DropPending \/ RenderFrame

Spec == Init /\ [][Next]_frameVars

-----------------------------------------------------------------------------
(* Properties.                                                             *)

\* A frame that was submitted before the waiting screen came up does not take
\* it away again (2524 to 2529: "the last image of the just-disconnected
\* device hanging on the waiting screen").
NoOldFrame == screen # Nobody => screen.fresh

\* (Not true.)  The waiting screen stays while no source has the screen: a
\* callback that has passed the owner's test submits after the reset.
WaitingStays == [][screen = Nobody /\ screen' # Nobody => owner # Nobody]_frameVars

\* (Not true.)  "Waiting for screen updates from <name>" stays until that source
\* sends one: a frame of the source before it is enough.
OverlayWaits ==
    [][overlay # Nobody /\ overlay' = Nobody /\ screen' # Nobody
         => screen'.source = overlay]_frameVars

\* (Not true.)  After a frame in which the phone is held as `framed' has it or
\* turned, the phone frame fits: a turn that follows a canvas is not seen, nor is
\* another device that takes over without a pick.
FrameFits == screen # Nobody /\ screen.shape # "canvas" => framed = screen.shape
=============================================================================
