------------------------------- MODULE Modals -------------------------------
(***************************************************************************)
(* The events of the window (src/src/media/renderer.cpp) with two modal    *)
(* editors over it: the screenshot annotator and the picker of a region    *)
(* for text recognition, whose jobs run on detached threads.  While an     *)
(* editor is up, run() gives it every event first; what the editor leaves  *)
(* alone goes on to the handlers of the window.                            *)
(*                                                                         *)
(* A stroke is what it shows: a shape, a text, or nothing.  Of a text only *)
(* whether something was typed is kept.  Jobs are numbered as launched.    *)
(***************************************************************************)
EXTENDS WindowParameters

VARIABLES
    annotating, \* annotator_active_
    tool,       \* annotator_tool_
    drawing,    \* annotator_drawing_
    typing,     \* annotator_text_input_active_
    typed,      \* annotator_text_buf_ is not empty
    strokes,    \* annotator_strokes_
    ocr,        \* ocr_active_
    region,     \* ocr_drawing_
    running,    \* ocr_running_
    jobs,       \* the jobs of launch_ocr_job()
    pending,    \* the job whose result waits, or 0 (ocr_result_pending_)
    clip,       \* the job whose text was copied last, or 0
    mine,       \* (history) the last job launched from this overlay, or 0
    held,       \* the left button is down
    drags,      \* what the window follows the pointer with
    panels      \* the visible ones of the info, version and settings panels

editVars == <<annotating, tool, drawing, typing, typed, strokes>>
ocrVars == <<ocr, region, running, jobs, pending, clip, mine>>
windowVars == <<drags, panels>>
modalVars == <<editVars, ocrVars, windowVars, held>>

Panels == {"info", "version", "settings"}

TypeOK ==
    /\ annotating \in BOOLEAN /\ drawing \in BOOLEAN
    /\ typing \in BOOLEAN /\ typed \in BOOLEAN
    /\ tool \in {"shape", "text"}
    /\ strokes \in Seq({"shape", "text", "nothing"}) /\ Len(strokes) <= MaxStrokes
    /\ ocr \in BOOLEAN /\ region \in BOOLEAN /\ running \in BOOLEAN
    /\ jobs \in [1..MaxJobs -> {"free", "reads", "stored", "done"}]
    /\ {pending, clip, mine} \subseteq 0..MaxJobs
    /\ held \in BOOLEAN
    /\ drags \subseteq {"resize", "log", "version"}
    /\ panels \subseteq Panels

Init ==
    /\ annotating = FALSE /\ tool = "shape" /\ drawing = FALSE
    /\ typing = FALSE /\ typed = FALSE /\ strokes = <<>>
    /\ ocr = FALSE /\ region = FALSE /\ running = FALSE
    /\ jobs = [j \in 1..MaxJobs |-> "free"]
    /\ pending = 0 /\ clip = 0 /\ mine = 0
    /\ held = FALSE /\ drags = {} /\ panels = {}

\* Which handler an event reaches.
ToAnnotator == annotating
ToOcr == ~annotating /\ ocr
ToWindow == ~annotating /\ ~ocr

-----------------------------------------------------------------------------
(* The annotator.                                                          *)

\* Mutant: the region picker lets Ctrl+Shift+S through.
BeginAnnotationOverOcr ==
    /\ ~annotating
    /\ annotating' = TRUE /\ strokes' = <<>> /\ drawing' = FALSE
    /\ UNCHANGED <<tool, typing, typed, ocrVars, windowVars, held>>

\* begin_annotation(), by Ctrl+Shift+S or the menu; nothing without a frame.
BeginAnnotation ==
    /\ ToWindow
    /\ annotating' = TRUE /\ strokes' = <<>> /\ drawing' = FALSE
    /\ UNCHANGED <<tool, typing, typed, ocrVars, windowVars, held>>

\* Mutant: the drag is not ended with the editor.
EndAnnotationDrawing ==
    /\ annotating' = FALSE /\ strokes' = <<>>
    /\ typing' = FALSE /\ typed' = FALSE
    /\ UNCHANGED drawing

\* end_annotation()
EndAnnotation ==
    /\ annotating' = FALSE /\ strokes' = <<>> /\ drawing' = FALSE
    /\ typing' = FALSE /\ typed' = FALSE

\* What commit_text_stroke() leaves in strokes.
Committed == IF typing /\ typed THEN Append(strokes, "text") ELSE strokes

CommitText ==
    /\ strokes' = Committed
    /\ typing' = FALSE /\ typed' = FALSE

\* A character, or a backspace that leaves none.
Type ==
    /\ ToAnnotator /\ typing
    /\ typed' \in BOOLEAN
    /\ UNCHANGED <<annotating, tool, drawing, typing, strokes, ocrVars, windowVars, held>>

\* Escape cancels the text first, then the editor.
CancelText ==
    /\ ToAnnotator /\ typing
    /\ typing' = FALSE /\ typed' = FALSE
    /\ UNCHANGED <<annotating, tool, drawing, strokes, ocrVars, windowVars, held>>

\* Enter while typing, or a click beside the image.
CommitOnly ==
    /\ ToAnnotator /\ typing
    /\ Len(Committed) <= MaxStrokes
    /\ CommitText
    /\ UNCHANGED <<annotating, tool, drawing, ocrVars, windowVars, held>>

\* A tool's key, which is not read while typing, also in the middle of a drag.
ToolKey ==
    /\ ToAnnotator /\ ~typing
    /\ tool' \in {"shape", "text"}
    /\ UNCHANGED <<annotating, drawing, typing, typed, strokes, ocrVars,
                   windowVars, held>>

\* A tool's button.
ToolButton ==
    /\ ToAnnotator /\ ~held
    /\ Len(Committed) <= MaxStrokes
    /\ CommitText
    /\ tool' \in {"shape", "text"}
    /\ UNCHANGED <<annotating, drawing, ocrVars, windowVars, held>>

\* Ctrl+Z, which is not read while typing, and the button, which is.
Undo ==
    /\ ToAnnotator /\ strokes # <<>> /\ (typing => ~held)
    /\ strokes' = SubSeq(strokes, 1, Len(strokes) - 1)
    /\ UNCHANGED <<annotating, tool, drawing, typing, typed, ocrVars, windowVars, held>>

\* The left button goes down on the image: a new text, or a new shape.
PressImage ==
    /\ ToAnnotator /\ ~held
    /\ Len(Committed) < MaxStrokes
    /\ strokes' = Committed
    /\ typed' = FALSE
    /\ IF tool = "text" THEN typing' = TRUE /\ UNCHANGED drawing
                        ELSE typing' = FALSE /\ drawing' = TRUE
    /\ held' = TRUE
    /\ UNCHANGED <<annotating, tool, ocrVars, windowVars>>

\* It comes up: a short drag is discarded, a longer one is a stroke of the
\* tool of now.
Release ==
    /\ ToAnnotator /\ held
    /\ held' = FALSE /\ drawing' = FALSE
    /\ \/ UNCHANGED strokes
       \/ /\ drawing
          /\ strokes' = Append(strokes, IF tool = "text" THEN "nothing" ELSE "shape")
    /\ UNCHANGED <<annotating, tool, typing, typed, ocrVars, windowVars>>

\* save_annotated(): it keeps the editor open if no output is enabled.
SaveAnnotated ==
    /\ ToAnnotator /\ (typing => ~held)
    /\ Len(Committed) <= MaxStrokes
    /\ \/ EndAnnotation
       \/ CommitText /\ UNCHANGED <<annotating, drawing>>
    /\ UNCHANGED <<tool, ocrVars, windowVars, held>>

CancelAnnotation ==
    /\ ToAnnotator /\ (typing => ~held)
    /\ EndAnnotation
    /\ UNCHANGED <<tool, ocrVars, windowVars, held>>

-----------------------------------------------------------------------------
(* Text recognition.                                                       *)

\* begin_ocr()
BeginOcr ==
    /\ ToWindow
    /\ ocr' = TRUE /\ region' = FALSE /\ mine' = 0
    /\ UNCHANGED <<running, jobs, pending, clip, editVars, windowVars, held>>

\* end_ocr()
EndOcr == ocr' = FALSE /\ region' = FALSE

OcrEscape ==
    /\ ToOcr
    /\ EndOcr
    /\ UNCHANGED <<running, jobs, pending, clip, mine, editVars, windowVars, held>>

OcrPress ==
    /\ ToOcr /\ ~held
    /\ held' = TRUE
    /\ region' \in {region, region \/ ~running}
    /\ UNCHANGED <<ocr, running, jobs, pending, clip, mine, editVars, windowVars>>

\* launch_ocr_job(), unless a job runs.
Launch ==
    \E j \in 1..MaxJobs :
       /\ jobs[j] = "free" /\ \A i \in 1..(j - 1) : jobs[i] # "free"
       /\ jobs' = [jobs EXCEPT ![j] = "reads"]
       /\ running' = TRUE
       /\ mine' = j

OcrRelease ==
    /\ ToOcr /\ held
    /\ held' = FALSE /\ region' = FALSE
    /\ \/ UNCHANGED <<jobs, running, mine>>  \* no region, or one too small
       \/ region /\ ~running /\ Launch
    /\ UNCHANGED <<ocr, pending, clip, editVars, windowVars>>

\* The worker stores its result, and then says that it has ended.
JobStores(j) ==
    /\ jobs[j] = "reads"
    /\ jobs' = [jobs EXCEPT ![j] = "stored"]
    /\ pending' = j
    /\ UNCHANGED <<ocr, region, running, clip, mine, editVars, windowVars, held>>

\* Mutant: the worker may say that it has ended before it stores its result.
JobEndsEarly(j) ==
    /\ jobs[j] \in {"reads", "stored"}
    /\ jobs' = IF jobs[j] = "stored" THEN [jobs EXCEPT ![j] = "done"] ELSE jobs
    /\ running' = FALSE
    /\ UNCHANGED <<ocr, region, pending, clip, mine, editVars, windowVars, held>>

JobEnds(j) ==
    /\ jobs[j] = "stored"
    /\ jobs' = [jobs EXCEPT ![j] = "done"]
    /\ running' = FALSE
    /\ UNCHANGED <<ocr, region, pending, clip, mine, editVars, windowVars, held>>

\* process_ocr_result(), every frame: a text is copied, the overlay closed.
ProcessResult ==
    /\ pending # 0
    /\ pending' = 0
    /\ clip' \in {clip, pending}
    /\ EndOcr
    /\ UNCHANGED <<running, jobs, mine, editVars, windowVars, held>>

-----------------------------------------------------------------------------
(* The window.                                                             *)

\* The left button goes down on the resize grip, or on a scroll bar.
PressWindow(d) ==
    /\ ToWindow /\ ~held
    /\ d = "version" => "version" \in panels
    /\ drags' = drags \cup {d}
    /\ held' = TRUE
    /\ UNCHANGED <<panels, editVars, ocrVars>>

ReleaseWindow ==
    /\ ToWindow /\ held
    /\ drags' = {} /\ held' = FALSE
    /\ UNCHANGED <<panels, editVars, ocrVars>>

\* A panel is toggled; one that comes up hides the others.
Toggle(p, others) ==
    /\ ToWindow
    /\ panels' = IF p \in panels THEN panels \ {p} ELSE (panels \ others) \cup {p}
    /\ UNCHANGED <<drags, editVars, ocrVars, held>>

\* Mutant: the link leaves the settings panel open.
ClickVersionLinkOnly == ~held /\ Toggle("version", {"info"})

KeyInfo == Toggle("info", {"version", "settings"})
KeyVersion == Toggle("version", {"info", "settings"})
KeySettings == Toggle("settings", {"info", "version"})
ClickIcon == ~held /\ Toggle("info", {"version", "settings"})
ClickVersionLink == ~held /\ Toggle("version", {"info", "settings"})
ClickGear == ~held /\ Toggle("settings", {"info", "version"})

\* A click beside the info or the version panel.
Dismiss ==
    /\ ToWindow /\ ~held
    /\ \E p \in panels \cap {"info", "version"} : panels' = panels \ {p}
    /\ UNCHANGED <<drags, editVars, ocrVars, held>>

Next ==
    \/ BeginAnnotation \/ Type \/ CancelText \/ CommitOnly \/ ToolKey \/ ToolButton
    \/ Undo \/ PressImage \/ Release \/ SaveAnnotated \/ CancelAnnotation
    \/ BeginOcr \/ OcrEscape \/ OcrPress \/ OcrRelease \/ ProcessResult
    \/ \E j \in 1..MaxJobs : JobStores(j) \/ JobEnds(j)
    \/ \E d \in {"resize", "log", "version"} : PressWindow(d)
    \/ ReleaseWindow
    \/ KeyInfo \/ KeyVersion \/ KeySettings
    \/ ClickIcon \/ ClickVersionLink \/ ClickGear \/ Dismiss

Spec == Init /\ [][Next]_modalVars

-----------------------------------------------------------------------------
(* Properties.                                                             *)

\* The annotator and the region picker are never up together, although
\* begin_annotation() does not look at ocr_active_.
ModalsExclude == ~(annotating /\ ocr)

\* One panel at a time, by whichever of the six ways it was opened.
OnePanel == \A p, q \in panels : p = q

\* What follows the pointer in an editor has the button held: no drag goes on
\* in an editor that was closed and opened in the middle of it.
EditorFollowsButton == drawing \/ region => held

\* The clipboard gets the texts in the order in which their regions were
\* chosen, and none twice, also if the overlay was closed in between.
ResultsInOrder == [][clip' # clip => clip' > clip]_clip

\* (Not true.)  What follows the pointer in the window has the button held: an
\* editor that a key opens in the middle of a drag swallows its end.
WindowFollowsButton == ~held => drags = {}

\* (Not true.)  "Discard zero-length drags so a stray click doesn't litter the
\* stroke list with invisible entries" (8601): the key of the text tool in the
\* middle of a drag does.
NoInvisibleStroke == \A i \in DOMAIN strokes : strokes[i] # "nothing"

\* (Not true.)  A result closes only the overlay that asked for it.
OwnResultCloses == [][pending # 0 /\ pending' = 0 /\ ocr => mine = pending]_modalVars
=============================================================================
