------------------------------ MODULE MCInput -------------------------------
(***************************************************************************)
(* Keyboard and mouse for TLC: module Input under three sets of constants, *)
(* and the gesture detector of lab4 (module Gesture).  In a behaviour one  *)
(* part moves: "keys" has W, S and both Ctrl keys and the values of the    *)
(* cfg file; "mouse" has reports with any payload while Escape is pressed  *)
(* and released; "noise" has Escape with another key before or after it,   *)
(* damaged bytes and small movements, in which no payload byte has bit 3   *)
(* set; "gesture" is the lab's detector.                                   *)
(***************************************************************************)
EXTENDS Input

CONSTANTS
    XLen, Tolerance, SLOPE_COUNT, Bound, Rise, Fall, Other   \* of module Gesture

VARIABLES part, currState, lb, rb, x_desl, x_tol, y_tol, line, packet_count, left, right,
          came, good

M == INSTANCE Input WITH Key <- {1}, PayloadSync <- BOOLEAN,
       MaxStrokes <- 2, MaxReports <- 3, MaxErrors <- 0, MaxResets <- 1

N == INSTANCE Input WITH Key <- {1, 17}, PayloadSync <- {FALSE},
       MaxStrokes <- 3, MaxReports <- 2, MaxErrors <- 2, MaxResets <- 0

G == INSTANCE Gesture

ASSUME GestureInstance == G!GestureConstants

\* A steep line up and down, a flat one, a step back, and none.
MCRise == {<<1, 2>>}
MCFall == {<<1, -2>>}
MCOther == {<<0, 0>>, <<2, 1>>, <<-1, 0>>}

gesture == <<currState, lb, rb, x_desl, x_tol, y_tol, line, packet_count, left, right,
             came, good>>

MCInit == part \in {"keys", "mouse", "noise", "gesture"} /\ Init /\ G!Init

MCNext ==
    \/ part = "keys" /\ Next /\ UNCHANGED <<part, gesture>>
    \/ part = "mouse" /\ M!Next /\ UNCHANGED <<part, gesture>>
    \/ part = "noise" /\ N!Next /\ UNCHANGED <<part, gesture>>
    \/ part = "gesture" /\ G!Next /\ UNCHANGED <<part, vars>>

\* The fairness of module Input, where Escape is in use.
MCFairness ==
    /\ WF_vars(part = "mouse" /\ M!Hardware) /\ WF_vars(part = "mouse" /\ M!interrupt_handler)
    /\ WF_vars(part = "mouse" /\ M!handle_mouse_evt)
    /\ WF_vars(part = "mouse" /\ M!handle_kbd_evt)
    /\ WF_vars(part = "noise" /\ N!Hardware) /\ WF_vars(part = "noise" /\ N!interrupt_handler)
    /\ WF_vars(part = "noise" /\ N!handle_mouse_evt)
    /\ WF_vars(part = "noise" /\ N!handle_kbd_evt)

MCSpec == MCInit /\ [][MCNext]_<<part, vars, gesture>> /\ MCFairness

-----------------------------------------------------------------------------
(***************************************************************************)
(* The variables of the handlers and of the detector have their types:     *)
(* handle_mouse_evt collects less than three bytes, and packet_count of    *)
(* the detector stays within PACKET_SLOPE_COUNT.                           *)
(***************************************************************************)
InputTypeOK ==
    CASE part = "keys" -> TypeOK
      [] part = "mouse" -> M!TypeOK
      [] part = "noise" -> N!TypeOK
      [] OTHER -> G!TypeOK

(***************************************************************************)
(* mouse_test_gesture of lab4 ends after exactly the gestures: it detects  *)
(* a faultless one, whatever was drawn before it; otherwise it goes on     *)
(* until either button drew a line that went x_len to the right; and a     *)
(* line is only drawn while its button is down, even when one packet       *)
(* changes both buttons (packet_to_event).                                 *)
(***************************************************************************)
GestureIsExact == G!LineNeedsButton /\ G!OnlyGestures /\ G!EveryGesture
=============================================================================
