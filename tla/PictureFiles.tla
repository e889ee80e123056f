---------------------------- MODULE PictureFiles ----------------------------
(***************************************************************************)
(* Where a picture goes (src/src/media/renderer.cpp): the screenshot, the  *)
(* annotator's and the webcam's picture are written to files named by the  *)
(* second, put on the clipboard and opened in Snagit, as the settings say, *)
(* and a toast tells what was done.                                        *)
(*                                                                         *)
(* A picture is its number.  Settings that only the user changes are what  *)
(* they are at the time.                                                   *)
(***************************************************************************)
EXTENDS WindowParameters

VARIABLES
    alive,   \* no exception has ended the program
    editing, \* annotator_active_
    now,     \* the second of the wall clock
    shots,   \* pictures there have been
    disk,    \* the files, by name: what kind of picture, and its number
    told,    \* the toast: the picture it is about, its name, what was done
    done     \* what really was

fileVars == <<alive, editing, now, shots, disk, told, done>>

Outputs == {"save", "clip", "snag"}
Kinds == {"screenshot", "annotated", "webcam"}
Names == (0 .. MaxSeconds) \X Kinds \X BOOLEAN  \* second, kind, resized

Init ==
    /\ alive = TRUE /\ editing = FALSE /\ now = 0
    /\ shots = 0 /\ disk = [n \in {} |-> <<>>]
    /\ told = [shot |-> 0, name |-> <<>>, parts |-> {}] /\ done = {}

-----------------------------------------------------------------------------
(* One file                                                                *)

\* A file that cannot be opened is as it was; one that cannot be written to its end
\* is not a picture.
Results == {"written", "refused", "cut"}
Written(kind, name, names, result) ==
    CASE result = "written" -> [n \in DOMAIN disk \cup names |->
                                    IF n \in names THEN <<kind, shots + 1>> ELSE disk[n]]
      [] result = "refused" -> disk
      [] result = "cut"     -> [n \in DOMAIN disk \ {name} |-> disk[n]]

\* Mutant: the kind is not in the name.
NameOfSecond(kind, resized) == <<now, "screenshot", resized>>

\* The name: the second, the kind, and the height if it was resized.
NameOf(kind, resized) == <<now, kind, resized>>

-----------------------------------------------------------------------------
(* The window's thread                                                     *)

\* Mutant: the toast does not wait for the file.
EmitHasty(kind, outputs, temp) ==
    \E resized \in BOOLEAN, result \in Results :
        LET name == NameOf(kind, resized) IN
        /\ disk' = IF "save" \in outputs THEN Written(kind, name, {name}, result) ELSE disk
        /\ told' = [shot |-> shots + 1, name |-> name, parts |-> outputs]
        /\ done' = outputs

\* emit_screenshot_output(), and its caller's toast.  A resized picture may leave the
\* one it was made of beside it.  What is not saved is written for Snagit, if there
\* is a folder for it.  Whether the clipboard and Snagit take the picture is not asked.
Emit(kind, outputs, temp) ==
    \E resized, original \in BOOLEAN, result \in Results, really \in SUBSET outputs :
        LET name == NameOf(kind, resized)
            names == {name} \cup IF resized /\ original THEN {NameOf(kind, FALSE)} ELSE {}
            writes == "save" \in outputs \/ ("snag" \in outputs /\ temp)
            wrote == writes => result = "written"
        IN  /\ "save" \in really <=> "save" \in outputs
            /\ "snag" \in really => writes
            /\ disk' = IF "save" \in outputs THEN Written(kind, name, names, result) ELSE disk
            /\ told' = IF wrote THEN [shot |-> shots + 1, name |-> name, parts |-> outputs]
                                ELSE told
            /\ done' = IF wrote THEN really ELSE done

\* create_directories() throws.
Dies ==
    /\ alive' = FALSE
    /\ UNCHANGED <<editing, now, shots, disk, told, done>>

TakeScreenshot ==
    /\ alive /\ shots < MaxShots
    /\ \E outputs \in SUBSET Outputs \ {{}}, temp, folder \in BOOLEAN :
        IF "save" \in outputs /\ ~folder THEN Dies
        ELSE /\ Emit("screenshot", outputs, temp)
             /\ shots' = shots + 1
             /\ UNCHANGED <<alive, editing, now>>

BeginAnnotation ==
    /\ alive /\ ~editing
    /\ editing' = TRUE
    /\ UNCHANGED <<alive, now, shots, disk, told, done>>

EndAnnotation ==
    /\ alive /\ editing
    /\ editing' = FALSE
    /\ UNCHANGED <<alive, now, shots, disk, told, done>>

\* With no output wanted, the editor stays; otherwise it ends, written or not.
SaveAnnotated ==
    /\ alive /\ editing /\ shots < MaxShots
    /\ \E outputs \in SUBSET Outputs \ {{}}, temp, folder \in BOOLEAN :
        IF "save" \in outputs /\ ~folder THEN Dies
        ELSE /\ Emit("annotated", outputs, temp)
             /\ shots' = shots + 1
             /\ editing' = FALSE
             /\ UNCHANGED <<alive, now>>

\* The webcam's own picture, whose toast says also that it failed.
SaveWebcam ==
    /\ alive /\ shots < MaxShots
    /\ \E result \in Results :
        LET name == NameOf("webcam", FALSE) IN
        /\ disk' = Written("webcam", name, {name}, result)
        /\ told' = [shot |-> shots + 1, name |-> name,
                    parts |-> IF result = "written" THEN {"save"} ELSE {}]
        /\ done' = told'.parts
    /\ shots' = shots + 1
    /\ UNCHANGED <<alive, editing, now>>

Tick ==
    /\ now < MaxSeconds /\ now' = now + 1
    /\ UNCHANGED <<alive, editing, shots, disk, told, done>>

Next ==
    \/ TakeScreenshot \/ BeginAnnotation \/ EndAnnotation \/ SaveAnnotated
    \/ SaveWebcam \/ Tick

-----------------------------------------------------------------------------
(* Properties *)

TypeOK ==
    /\ {alive, editing} \subseteq BOOLEAN
    /\ now \in 0 .. MaxSeconds /\ shots \in 0 .. MaxShots
    /\ DOMAIN disk \subseteq Names
    /\ told.shot \in 0 .. shots /\ told.parts \subseteq Outputs /\ done \subseteq told.parts

\* What a toast says is saved is there, under that name; and a picture is lost only to
\* a later one of its second and kind.
SavedIsThere ==
    [][/\ (told' # told /\ "save" \in told'.parts) =>
            told'.name \in DOMAIN disk' /\ disk'[told'.name][2] = told'.shot
       /\ \A n \in DOMAIN disk :
            \/ n \in DOMAIN disk' /\ disk'[n] = disk[n]
            \/ n[1] = now /\ (n \in DOMAIN disk' => disk'[n][1] = disk[n][1])]_fileVars

\* Violated: what the toast says has been done.
ToldIsDone == told.parts \subseteq done

\* Violated: a picture that could not be saved is not passed over in silence.
FailureTold == [][shots' # shots => told' # told]_fileVars

\* Violated: two pictures of one second are both kept.
PicturesKept == [][\A n \in DOMAIN disk : n \in DOMAIN disk' /\ disk'[n] = disk[n]]_fileVars

\* Violated: a folder that cannot be made does not end the program.
StaysAlive == alive
=============================================================================
