------------------------------- MODULE Gesture ------------------------------
(***************************************************************************)
(* The gesture detector of lab4 (mouse_state.c and the loop of             *)
(* mouse_test_gesture): a line up with the left button held, then, from    *)
(* its end, a line down with the right button held.                        *)
(*                                                                         *)
(* A packet has two buttons and a displacement <<x, y>>.  A packet that    *)
(* changes a button is that event and nothing else, and when it changes    *)
(* both, the second change is seen with the next packet.                   *)
(***************************************************************************)
EXTENDS Integers

CONSTANTS
    XLen, Tolerance,     \* the arguments of mouse_test_gesture
    SLOPE_COUNT,         \* PACKET_SLOPE_COUNT
    Rise, Fall, Other,   \* displacements: of a good line up, down, and others
    Bound                \* bound: displacement counted outside of a line

GestureConstants ==
    /\ {XLen, SLOPE_COUNT} \subseteq Nat \ {0} /\ {Tolerance, Bound} \subseteq Nat
    /\ Rise \cup Fall \cup Other \subseteq Int \X Int
    /\ \A d \in Rise : d[2] > d[1] /\ d[1] > 0
    /\ \A d \in Fall : d[2] < -d[1] /\ d[1] > 0

VARIABLES
    currState, lb, rb,   \* currState; buttons as packet_to_event knows them
    x_desl, x_tol, y_tol,    \* currData
    line, packet_count,      \* line_start_packet
    left, right,     \* history: the longest way to the right in the last line
                     \* drawn with the left and with the right button, and the
                     \* one that ends now: [most, now]; came is left.most at the
    came,            \* moment the right button went down
    good             \* history: how far a faultless gesture has come

data == <<x_desl, x_tol, y_tol, line, packet_count>>
vars == <<currState, lb, rb, data, left, right, came, good>>

State == {"INITIAL", "DRAW_LEFT", "LEFT_DONE", "VERTEX", "DRAW_RIGHT", "RIGHT_DONE", "EXIT"}
Delta == Rise \cup Fall \cup Other
Abs(n) == IF n < 0 THEN -n ELSE n

TypeOK ==
    /\ currState \in State /\ {lb, rb} \subseteq BOOLEAN
    /\ x_desl \in Int /\ {x_tol, y_tol, came} \subseteq Nat
    /\ {left, right} \subseteq [most : 0..XLen, now : 0..XLen]
    /\ line \in Int \X Int /\ packet_count \in 0..SLOPE_COUNT
    /\ good \in {"no", "ready", "rising", "vertex", "falling", "done"}

-----------------------------------------------------------------------------
reset_data ==
    /\ x_desl' = 0 /\ x_tol' = 0 /\ y_tol' = 0
    /\ line' = <<0, 0>> /\ packet_count' = 0

\* y / x > 1 as doubles: a vertical line up is steep, and 0 / 0 is not.
Steep(l) == CASE l[1] > 0 -> l[2] > l[1]
              [] l[1] < 0 -> l[2] < l[1]
              [] OTHER -> l[2] > 0
\* y / x <= 1 as doubles: 0 / 0 is not that either.
Flat(l) == ~Steep(l) /\ l # <<0, 0>>

\* The line down is the line up with y turned over.
Mirror_sign_lost(l) == l
Mirror(l) == <<l[1], -l[2]>>

Up == {"DRAW_LEFT", "LEFT_DONE"}
Down == {"DRAW_RIGHT", "RIGHT_DONE"}

Button(l, r) == CASE l # lb -> IF l THEN "LEFT_DOWN" ELSE "LEFT_UP"
                  [] l = lb /\ r # rb -> IF r THEN "RIGHT_DOWN" ELSE "RIGHT_UP"
                  [] OTHER -> "none"

\* packet_to_event for a packet that only moves: the sums it leaves, and the
\* event.  The sums of `d` seen in the mirror serve the line down.
Moved(d) ==
    LET xs == x_desl + d[1]
        ls == <<line[1] + d[1], line[2] + d[2]>>
        m == IF currState \in Down THEN Mirror(d) ELSE d
        lm == IF currState \in Down THEN Mirror(ls) ELSE ls
        drawing == currState \in Up \cup Down
        xt == x_tol + (IF currState = "VERTEX" THEN Abs(d[1])
                       ELSE IF drawing /\ d[1] < 0 THEN -d[1] ELSE 0)
        yt == y_tol + (IF currState = "VERTEX" THEN Abs(d[2])
                       ELSE IF drawing /\ m[2] < 0 THEN -m[2] ELSE 0)
        pc == packet_count + (IF drawing THEN 1 ELSE 0)
        full == drawing /\ pc = SLOPE_COUNT
        fail == \/ (drawing \/ currState = "VERTEX") /\ (xt > Tolerance \/ yt > Tolerance)
                \/ full /\ Flat(lm)
    IN  [event |-> IF fail THEN "TOL_FAIL" ELSE IF xs >= XLen THEN "LINE_C" ELSE "CONTINUE_DRAW",
         x_desl |-> xs, x_tol |-> xt, y_tol |-> yt,
         line |-> IF full /\ ~fail THEN <<0, 0>> ELSE ls,
         packet_count |-> IF full /\ ~fail THEN 0 ELSE pc]

\* Where the events lead: the line up, the vertex, and the line down.  LINE_C
\* is STRAIGHT if the rest of the line is steep, too.
UpEdges_up_early ==
    {<<"INITIAL", "LEFT_DOWN", "DRAW_LEFT">>, <<"DRAW_LEFT", "LEFT_UP", "VERTEX">>,
     <<"DRAW_LEFT", "STRAIGHT", "LEFT_DONE">>, <<"LEFT_DONE", "LEFT_UP", "VERTEX">>,
     <<"LEFT_DONE", "TOL_FAIL", "DRAW_LEFT">>, <<"LEFT_DONE", "RIGHT_DOWN", "INITIAL">>}

UpEdges ==
    {<<"INITIAL", "LEFT_DOWN", "DRAW_LEFT">>, <<"DRAW_LEFT", "LEFT_UP", "INITIAL">>,
     <<"DRAW_LEFT", "STRAIGHT", "LEFT_DONE">>, <<"LEFT_DONE", "LEFT_UP", "VERTEX">>,
     <<"LEFT_DONE", "TOL_FAIL", "DRAW_LEFT">>, <<"LEFT_DONE", "RIGHT_DOWN", "INITIAL">>}

VertexEdges ==
    {<<"VERTEX", "RIGHT_DOWN", "DRAW_RIGHT">>, <<"VERTEX", "LEFT_DOWN", "DRAW_LEFT">>,
     <<"VERTEX", "TOL_FAIL", "INITIAL">>}

DownEdges_right_up_ignored ==
    {<<"DRAW_RIGHT", "TOL_FAIL", "INITIAL">>, <<"DRAW_RIGHT", "STRAIGHT", "RIGHT_DONE">>,
     <<"RIGHT_DONE", "RIGHT_UP", "EXIT">>, <<"RIGHT_DONE", "TOL_FAIL", "INITIAL">>,
     <<"RIGHT_DONE", "LEFT_DOWN", "INITIAL">>}

DownEdges ==
    {<<"DRAW_RIGHT", "RIGHT_UP", "INITIAL">>, <<"DRAW_RIGHT", "TOL_FAIL", "INITIAL">>,
     <<"DRAW_RIGHT", "STRAIGHT", "RIGHT_DONE">>,
     <<"RIGHT_DONE", "RIGHT_UP", "EXIT">>, <<"RIGHT_DONE", "TOL_FAIL", "INITIAL">>,
     <<"RIGHT_DONE", "LEFT_DOWN", "INITIAL">>}

Target(s, e) ==
    LET edges == {g \in UpEdges \cup VertexEdges \cup DownEdges : g[1] = s /\ g[2] = e}
    IN  IF edges = {} THEN s ELSE (CHOOSE g \in edges : TRUE)[3]

\* The events that reset_data follows although the state stays.
Resets(s, e) == \/ s = "DRAW_LEFT" /\ e \in {"TOL_FAIL", "LINE_C"}
                \/ s = "DRAW_RIGHT" /\ e = "LINE_C"

-----------------------------------------------------------------------------
NoWay == [most |-> 0, now |-> 0]
Way(w, d) ==
    LET n == w.now + d[1]
        now == IF n < 0 THEN 0 ELSE IF n > XLen THEN XLen ELSE n
    IN  [most |-> IF now > w.most THEN now ELSE w.most, now |-> now]

\* The history of a faultless gesture: only the left button, a line up that
\* is long enough, no button and no movement, only the right button, a line
\* down.
Good(e, d) ==
    CASE e = "LEFT_DOWN" -> IF good = "ready" THEN "rising" ELSE "no"
      [] e = "LEFT_UP" -> IF good = "rising" /\ left.most >= XLen THEN "vertex"
                          ELSE IF ~rb THEN "ready" ELSE "no"
      [] e = "RIGHT_DOWN" -> IF good = "vertex" THEN "falling" ELSE "no"
      [] e = "RIGHT_UP" -> IF good = "falling" /\ right.most >= XLen THEN "done"
                           ELSE IF ~lb THEN "ready" ELSE "no"
      [] OTHER -> CASE good = "rising" -> IF d \in Rise THEN good ELSE "no"
                    [] good = "vertex" -> IF d = <<0, 0>> THEN good ELSE "ready"
                    [] good = "falling" -> IF d \in Fall THEN good ELSE "no"
                    [] OTHER -> good

\* handle_mouse_event for a packet that changes a button ...
ButtonEvent(l, r) ==
    LET e == Button(l, r)
        s == Target(currState, e)
    IN  /\ currState # "EXIT" /\ e # "none"
        /\ lb' = (IF l # lb THEN l ELSE lb) /\ rb' = (IF l = lb THEN r ELSE rb)
        /\ currState' = s
        /\ IF s # currState THEN reset_data
           ELSE packet_count' = (IF s = "VERTEX" THEN 0 ELSE packet_count)
                /\ UNCHANGED <<x_desl, x_tol, y_tol, line>>
        /\ left' = (IF e = "LEFT_DOWN" THEN NoWay ELSE left)
        /\ right' = (IF e = "RIGHT_DOWN" THEN NoWay ELSE right)
        /\ came' = (IF e = "RIGHT_DOWN" THEN left.most ELSE came)
        /\ good' = Good(e, <<0, 0>>)

\* ... and for one that moves.
MoveEvent(d) ==
    LET m == Moved(d)
        rest == IF currState \in Down THEN Mirror(m.line) ELSE m.line
        straight == m.event = "LINE_C" /\ (m.packet_count = 0 \/ Steep(rest))
        s == Target(currState, IF straight THEN "STRAIGHT" ELSE m.event)
    IN  /\ currState # "EXIT"
        /\ Abs(m.x_desl) <= Bound /\ Abs(m.line[1]) <= Bound /\ Abs(m.line[2]) <= Bound
        /\ currState' = s
        /\ IF s # currState \/ Resets(currState, m.event) THEN reset_data
           ELSE /\ x_desl' = m.x_desl /\ x_tol' = m.x_tol /\ y_tol' = m.y_tol
                /\ line' = m.line
                /\ packet_count' = IF s = "VERTEX" THEN 0 ELSE m.packet_count
        /\ left' = (IF lb THEN Way(left, d) ELSE left)
        /\ right' = (IF rb THEN Way(right, d) ELSE right)
        /\ good' = Good("none", d)
        /\ UNCHANGED <<lb, rb, came>>

Init ==
    /\ currState = "INITIAL" /\ lb = FALSE /\ rb = FALSE
    /\ x_desl = 0 /\ x_tol = 0 /\ y_tol = 0 /\ line = <<0, 0>> /\ packet_count = 0
    /\ left = NoWay /\ right = NoWay /\ came = 0 /\ good = "ready"

Next ==
    \/ \E l, r \in BOOLEAN : ButtonEvent(l, r)
    \/ \E d \in Delta : MoveEvent(d)

Spec == Init /\ [][Next]_vars

-----------------------------------------------------------------------------
(***************************************************************************)
(* The state and the buttons agree: a line is only drawn while its button  *)
(* is down, whatever the other button does in the meantime and even when   *)
(* one packet changes both.                                                *)
(***************************************************************************)
LineNeedsButton == (currState \in Up => lb) /\ (currState \in Down => rb)

(***************************************************************************)
(* mouse_test_gesture ends only after a gesture: the last line with the    *)
(* left button and the last with the right one each went x_len to the      *)
(* right, however often either was started again or failed before.         *)
(***************************************************************************)
OnlyGestures == currState = "EXIT" => came >= XLen /\ right.most >= XLen

(***************************************************************************)
(* It "should terminate if a gesture is detected" (lab4.h): a faultless    *)
(* gesture is detected, whatever was drawn before it.                      *)
(***************************************************************************)
EveryGesture == good = "done" => currState = "EXIT"
=============================================================================
