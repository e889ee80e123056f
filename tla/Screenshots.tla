---------------------------- MODULE Screenshots ----------------------------
(***************************************************************************)
(* What the pictures and clips look like that the program makes of what it *)
(* shows: the phone frame around the video (src/src/media/phone_frame.cpp),*)
(* the screenshot, the annotator's and the text reader's picture, and the  *)
(* frames of a recording, with the webcam's strip below                    *)
(* (src/src/media/renderer.cpp).                                           *)
(*                                                                         *)
(* Pixels are abstracted to the rectangles they fill: <<x, y, w, h>>.  A   *)
(* setting that only the user changes is what it is at the time.           *)
(***************************************************************************)
EXTENDS WindowParameters, Integers, FiniteSetsExt

VARIABLES
    canvas,  \* tex_width_ and tex_height_, also last_frame_w_ and last_frame_h_
    fresh,   \* source_just_switched_
    phone,   \* phone_frame_: its screen's size, and whether it has a texture
    marking, \* annotator_bg_w_ and _h_, and take_screenshot()'s at that time
    taping   \* <<>>, or the sizes start_recording() has fixed

viewVars == <<canvas, fresh, phone>>
shotVars == <<viewVars, marking, taping>>

NoSize == <<0, 0>>

Upright == <<390, 844>>  \* while nothing is shown

AtLeast(n, x) == Max({n, x})

-----------------------------------------------------------------------------
(* PhoneFrame                                                              *)

\* The sides are thinner on a tablet, and the top is not thicker there.
IsTablet(screen) == 10 * Max({screen[1], screen[2]}) < 16 * Min({screen[1], screen[2]})
Bezel(screen) ==
    LET short == Min({screen[1], screen[2]}) IN
    IF IsTablet(screen)
    THEN [side |-> AtLeast(8, (short * 25) \div 1000), top |-> AtLeast(8, (short * 25) \div 1000)]
    ELSE [side |-> AtLeast(8, (short * 28) \div 1000), top |-> AtLeast(12, (short * 42) \div 1000)]
FrameSize(screen) ==
    <<screen[1] + 2 * Bezel(screen).side, screen[2] + 2 * Bezel(screen).top>>
ScreenArea(screen) ==
    <<Bezel(screen).side, Bezel(screen).top, screen[1], screen[2]>>

\* generate(): nothing if it has a texture of that size; the texture may fail.
\* set_bezel_color() with another colour drops the texture first.
Generate(size, kept) ==
    IF kept /\ phone.drawn /\ phone.screen = size
    THEN phone' = phone
    ELSE \E made \in BOOLEAN : phone' = [screen |-> size, drawn |-> made]

\* Mutant: the video fills the screen's width.
ScaledWide(video, area) ==
    <<area[1], area[2] + (area[4] - (video[2] * area[3]) \div video[1]) \div 2,
      area[3], (video[2] * area[3]) \div video[1]>>

\* composite_screenshot(): the video, scaled to fit the middle of the screen (by a
\* float, which may leave a pixel out).
Scaled(video, area) ==
    LET wide == video[1] * area[4] > area[3] * video[2]
        w == IF wide THEN area[3] ELSE (video[1] * area[4]) \div video[2]
        h == IF wide THEN (video[2] * area[3]) \div video[1] ELSE area[4]
    IN  <<area[1] + (area[3] - w) \div 2, area[2] + (area[4] - h) \div 2, w, h>>

-----------------------------------------------------------------------------
(* What is captured                                                        *)

\* phone_frame_enabled_ is never cleared.
Framed == phone.drawn
Base == IF Framed THEN FrameSize(phone.screen) ELSE canvas

\* The webcam's panel below a picture so wide, and how far it is tucked under it.
PanelWidth(w) == w - 2 * (w \div 16)
PanelHeight(w) == (PanelWidth(w) * 9) \div 16
Tuck(w) == PanelWidth(w) \div 30

\* take_screenshot(), with the webcam's strip or without.
ShotSize(camera) ==
    LET overlap == IF Framed THEN Tuck(Base[1]) ELSE 0 IN
    IF camera /\ PanelHeight(Base[1]) > overlap
    THEN <<Base[1], Base[2] + PanelHeight(Base[1]) - overlap>>
    ELSE Base

\* Mutant: the annotator's strip is not tucked.
MarkedSizeLonger(camera) ==
    <<Base[1], Base[2] + IF camera THEN PanelHeight(Base[1]) ELSE 0>>

\* begin_annotation(), which has a copy of that.
MarkedSize(camera) ==
    LET wanted == IF camera /\ PanelWidth(Base[1]) > 0 THEN PanelHeight(Base[1]) ELSE 0
        tucked == IF Framed /\ wanted > 0 THEN Tuck(Base[1]) ELSE 0
        panel == IF wanted <= tucked THEN 0 ELSE wanted
    IN  <<Base[1], Base[2] + AtLeast(0, panel - IF panel = 0 THEN 0 ELSE tucked)>>

\* begin_ocr(), which leaves the strip out.
ReadSize(camera) == Base

\* paint_webcam_strip(): the rectangle the webcam's picture is copied to, without a
\* test of the bounds, on a canvas so wide whose row `top' is the panel's first.
CameraArea(w, top, panel, picture) ==
    LET border == AtLeast(2, Min({3, PanelWidth(w) \div 200 + 2}))
        inner == <<w \div 16 + border + 2, top + border + 2,
                   PanelWidth(w) - 2 * (border + 2), panel - 2 * (border + 2)>>
    IN  IF PanelWidth(w) < 8 \/ inner[3] <= 4 \/ inner[4] <= 4 THEN <<0, 0, 0, 0>>
        ELSE Scaled(picture, inner)

-----------------------------------------------------------------------------
(* The window's thread: frames                                             *)

Init ==
    /\ canvas = NoSize /\ fresh = FALSE
    /\ phone \in [screen : {Upright}, drawn : BOOLEAN]
    /\ marking = <<>> /\ taping = <<>>

\* The sides have swapped, to within 15 %.
Turned(size) ==
    /\ (canvas[2] >= canvas[1]) # (size[2] >= size[1])
    /\ LET d == size[1] * canvas[1] - canvas[2] * size[2]
       IN  100 * Max({d, -d}) < 15 * canvas[2] * size[2]

\* render_frame() with a frame of another size.  The frame around it changes for the
\* first one, a rotation, and another source that the user has picked.
NewFrame ==
    /\ \E size \in Canvases \ {canvas} :
        /\ canvas' = size
        /\ IF canvas = NoSize \/ fresh \/ Turned(size)
           THEN Generate(size, TRUE)
           ELSE phone' = phone
    /\ fresh' = FALSE
    /\ UNCHANGED <<marking, taping>>

\* The user picks another source.
Switch ==
    /\ canvas # NoSize
    /\ fresh' = TRUE
    /\ UNCHANGED <<canvas, phone, marking, taping>>

\* The source is gone.
Reset ==
    /\ canvas # NoSize
    /\ canvas' = NoSize
    /\ UNCHANGED <<fresh, phone, marking, taping>>

\* apply_bezel_color()
ApplyColor ==
    /\ \E kept \in BOOLEAN :
        Generate(IF canvas = NoSize THEN Upright ELSE canvas, kept)
    /\ UNCHANGED <<canvas, fresh, marking, taping>>

-----------------------------------------------------------------------------
(* The annotator                                                           *)

\* begin_annotation() makes a texture first, which may fail.
BeginAnnotation ==
    /\ canvas # NoSize /\ marking = <<>>
    /\ \E camera \in BOOLEAN : marking' = <<MarkedSize(camera), ShotSize(camera)>>
    /\ UNCHANGED <<viewVars, taping>>

\* It is saved, or given up.
EndAnnotation ==
    /\ marking # <<>>
    /\ marking' = <<>>
    /\ UNCHANGED <<viewVars, taping>>

-----------------------------------------------------------------------------
(* Recording                                                               *)

\* What the encoder is opened with: even, and a GIF not wider than 480.
Even(n) == 2 * (n \div 2)
EncodedSize(size, gif) ==
    IF gif /\ Even(size[1]) > 480
    THEN <<480, Even((size[2] * 480) \div size[1])>>
    ELSE <<Even(size[1]), Even(size[2])>>

\* Mutant: the recorder takes any size.
AcceptsAny(size) == TRUE

\* Recorder::start() refuses to begin without a size: a line, or a GIF of a picture
\* more than 240 times as wide as high.
Accepts(size) == size[1] > 0 /\ size[2] > 0

\* start_recording(): the sizes are fixed for the clip, also the webcam's.
StartRecording ==
    /\ canvas # NoSize /\ taping = <<>>
    /\ \E camera \in BOOLEAN, gif \in BOOLEAN :
        LET strip == /\ camera /\ PanelWidth(Base[1]) > 0
                     /\ PanelHeight(Base[1]) > Tuck(Base[1])
            panel == IF strip THEN PanelHeight(Base[1]) ELSE 0
            overlap == IF strip THEN Tuck(Base[1]) ELSE 0
            size == <<Base[1], Base[2] + panel - overlap>>
        IN  taping' = IF Accepts(EncodedSize(size, gif))
                      THEN <<[base |-> Base, panel |-> panel, overlap |-> overlap,
                              size |-> size, encoded |-> EncodedSize(size, gif),
                              shot |-> ShotSize(camera), framed |-> Framed]>>
                      ELSE <<>>
    /\ UNCHANGED <<viewVars, marking>>

\* Mutant: the strip follows the frame below the picture, not under it.
PushedSizeLonger(clip) ==
    IF clip.panel > 0 /\ Base = clip.base
    THEN <<clip.base[1], clip.base[2] + clip.panel>> ELSE Base

\* What is pushed: the strip only while the picture has the size it had.
PushedSize(clip) ==
    IF clip.panel > 0 /\ Base = clip.base
    THEN <<clip.base[1], clip.base[2] + clip.panel - clip.overlap>> ELSE Base

StopRecording ==
    /\ taping # <<>>
    /\ taping' = <<>>
    /\ UNCHANGED <<viewVars, marking>>

Next ==
    \/ NewFrame \/ Switch \/ Reset \/ ApplyColor
    \/ BeginAnnotation \/ EndAnnotation
    \/ StartRecording \/ StopRecording

-----------------------------------------------------------------------------
(* Properties *)

\* Whatever the size of the video, what is encoded has even sides that are not 0.
TypeOK ==
    /\ fresh \in BOOLEAN
    /\ canvas \in Canvases \cup {NoSize}
    /\ phone \in [screen : Canvases \cup {Upright}, drawn : BOOLEAN]
    /\ \A i \in DOMAIN taping :
        LET e == taping[i].encoded
        IN  e[1] > 0 /\ e[2] > 0 /\ e[1] % 2 = 0 /\ e[2] % 2 = 0

Inside(r, s) ==
    /\ s[1] <= r[1] /\ r[1] + r[3] <= s[1] + s[3]
    /\ s[2] <= r[2] /\ r[2] + r[4] <= s[2] + s[4]

\* The video is inside the screen of the frame around it, whatever its size and the
\* frame's, and the webcam's picture inside the picture that is made, below the first
\* row of its panel: nothing is written past the buffer's end.
PicturesInside ==
    canvas # NoSize =>
        /\ Framed => Inside(Scaled(canvas, ScreenArea(phone.screen)), ScreenArea(phone.screen))
        /\ \A picture \in Cameras :
            LET top == Base[2] - IF Framed THEN Tuck(Base[1]) ELSE 0
                area == CameraArea(Base[1], top, PanelHeight(Base[1]), picture)
                size == ShotSize(TRUE)
            IN  area[3] > 0 => Inside(area, <<0, top, size[1], size[2] - top>>)

\* The editor has the picture that a screenshot would have been.
MarkedIsShot == marking # <<>> => marking[1] = marking[2]

\* A clip's frames have its size as long as the picture keeps the size it had; and
\* that is the screenshot's, if there is a frame around it.
ClipKeepsSize ==
    \A i \in DOMAIN taping :
        /\ canvas # NoSize /\ Base = taping[i].base => PushedSize(taping[i]) = taping[i].size
        /\ taping[i].framed => taping[i].size = taping[i].shot

\* Violated: what can be shown can be recorded, as a video and as a GIF.
ClipBegins == \A gif \in BOOLEAN : canvas # NoSize => Accepts(EncodedSize(Base, gif))

\* Violated: the clip has the size of a screenshot.  Without a frame around it, the
\* clip's strip is tucked under the video and the screenshot's is not.
ClipIsShot == \A i \in DOMAIN taping : taping[i].size = taping[i].shot

\* Violated: the text reader's picture is the annotator's.
ReadIsMarked == \A camera \in BOOLEAN : canvas # NoSize => ReadSize(camera) = MarkedSize(camera)

\* Violated: the frame around the video keeps its shape unless the video turns, is the
\* first one, or the user has picked another source since the last one.
FrameKept ==
    [][phone'.screen # phone.screen =>
        canvas' # canvas /\ (canvas = NoSize \/ Turned(canvas'))]_shotVars
=============================================================================
