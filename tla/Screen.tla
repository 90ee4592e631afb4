------------------------------- MODULE Screen -------------------------------
(***************************************************************************)
(* The three video pages of lib/video_graphics.c: display draws a frame    *)
(* into page_address, put_buffer flips the pages, and the card goes over   *)
(* to the scanline it was given at the next vertical retrace, while the    *)
(* program is drawing the next frame already.                              *)
(*                                                                         *)
(* Page k of the video memory is at address k and at scanline k * v_res;   *)
(* both are written as k here.  The pixels of a page are the number of the *)
(* frame they belong to, or PARTIAL.                                       *)
(***************************************************************************)
EXTENDS Integers

CONSTANT MaxFrames   \* bound: frames drawn

ASSUME ScreenConstants == MaxFrames \in Nat

VARIABLES
    address,         \* page_address, third_address and drawing_address
    scanline,        \* physical_page_scanline and the two others
    pixels,          \* what is in each page
    shown, asked,    \* the scanline the card shows, the one it was asked for
    frame, flipped,  \* the frame being drawn, and the last one flipped
    at               \* what display does now

vars == <<address, scanline, pixels, shown, asked, frame, flipped, at>>

Page == 0..2
Role == {"page", "third", "drawing"}
PARTIAL == -1

TypeOK ==
    /\ address \in [Role -> Page] /\ scanline \in [Role -> Page]
    /\ pixels \in [Page -> {PARTIAL} \cup 0..MaxFrames]
    /\ shown \in Page /\ asked \in Page
    /\ frame \in 0..MaxFrames /\ flipped \in 0..frame /\ at \in {"idle", "drawing", "flip"}

-----------------------------------------------------------------------------
\* init_graphics_mode clears the three pages.
Init ==
    /\ address = [page |-> 1, third |-> 2, drawing |-> 0] /\ scanline = address
    /\ pixels = [k \in Page |-> 0] /\ shown = 0 /\ asked = 0
    /\ frame = 0 /\ flipped = 0 /\ at = "idle"

\* display: clear_screen, and everything that set_px draws after it.
StartFrame ==
    /\ at = "idle" /\ frame < MaxFrames
    /\ at' = "drawing" /\ frame' = frame + 1
    /\ pixels' = [pixels EXCEPT ![address.page] = PARTIAL]
    /\ UNCHANGED <<address, scanline, shown, asked, flipped>>

FinishFrame ==
    /\ at = "drawing" /\ at' = "flip"
    /\ pixels' = [pixels EXCEPT ![address.page] = frame]
    /\ UNCHANGED <<address, scanline, shown, asked, frame, flipped>>

Rotate(r) == [page |-> r.third, third |-> r.drawing, drawing |-> r.page]

\* The BIOS takes a new display start once the last one is in effect.
page_flip_swap ==
    /\ at = "flip" /\ asked = shown
    /\ asked' = scanline.page
    /\ address' = [address EXCEPT !.page = address.drawing, !.drawing = address.page]
    /\ scanline' = [scanline EXCEPT !.page = scanline.drawing, !.drawing = scanline.page]
    /\ flipped' = frame /\ at' = "idle"
    /\ UNCHANGED <<pixels, shown, frame>>

page_flip_next_scanline ==
    /\ at = "flip" /\ asked = shown
    /\ asked' = scanline.page
    /\ address' = Rotate(address)
    /\ scanline' = [scanline EXCEPT !.page = @ + 1, !.drawing = scanline.page]
    /\ flipped' = frame /\ at' = "idle"
    /\ UNCHANGED <<pixels, shown, frame>>

page_flip ==
    /\ at = "flip" /\ asked = shown
    /\ asked' = scanline.page
    /\ address' = Rotate(address) /\ scanline' = Rotate(scanline)
    /\ flipped' = frame /\ at' = "idle"
    /\ UNCHANGED <<pixels, shown, frame>>

\* sys_int86 fails: nothing is rotated, and display ignores put_buffer's 2.
page_flip_fails ==
    /\ at = "flip" /\ at' = "idle"
    /\ UNCHANGED <<address, scanline, pixels, shown, asked, frame, flipped>>

Retrace ==
    /\ asked # shown /\ shown' = asked
    /\ UNCHANGED <<address, scanline, pixels, asked, frame, flipped, at>>

Next == StartFrame \/ FinishFrame \/ page_flip \/ page_flip_fails \/ Retrace
Spec == Init /\ [][Next]_vars

-----------------------------------------------------------------------------
(***************************************************************************)
(* Nobody sees a frame being drawn, and what the card is asked to show is  *)
(* the last frame that was flipped: page_address never is the page on the  *)
(* screen, although a flip may take effect as late as just before the next *)
(* one and some flips fail, and the addresses are rotated as the scanlines *)
(* are.  Two pages, as the comment on page_flip has it, would not do.      *)
(***************************************************************************)
WholeFrames == pixels[shown] # PARTIAL /\ pixels[asked] = flipped
=============================================================================
