----------------------------- MODULE InputProofs ----------------------------
(***************************************************************************)
(* Theorems about keyboard and mouse: the gesture detector of lab4 (module *)
(* Gesture, for any lengths, tolerances and displacements).                *)
(***************************************************************************)
EXTENDS MCInput, SequenceTheorems, TLAPS

\* What the state of the detector says of the lines drawn so far.
Drawn ==
    /\ packet_count < SLOPE_COUNT
    /\ currState \in G!Up => lb
    /\ currState \in G!Down => rb /\ came >= XLen
    /\ currState = "VERTEX" => ~lb
    /\ currState = "DRAW_LEFT" => x_desl < XLen /\ x_desl <= left.now
    /\ currState \in {"LEFT_DONE", "VERTEX"} => left.most >= XLen
    /\ currState = "DRAW_RIGHT" => x_desl < XLen /\ x_desl <= right.now
    /\ currState = "RIGHT_DONE" => right.most >= XLen
    /\ currState = "EXIT" => came >= XLen /\ right.most >= XLen

\* The sums of a faultless line since its slope was last looked at.
LineUp(l, n) == IF n = 0 THEN l = <<0, 0>> ELSE l[2] > l[1] /\ l[1] > 0
LineDown(l, n) == IF n = 0 THEN l = <<0, 0>> ELSE -l[2] > l[1] /\ l[1] > 0

\* A faultless gesture is where the detector is.
Faultless ==
    /\ good \in {"ready", "vertex"} => ~lb /\ ~rb
    /\ good \in {"rising", "vertex", "falling"} => x_tol = 0 /\ y_tol = 0
    /\ good = "rising" => currState \in G!Up /\ lb /\ ~rb /\ LineUp(line, packet_count)
    /\ (good = "rising" /\ currState = "DRAW_LEFT") => left.most = x_desl /\ left.now = x_desl
    /\ good = "vertex" => currState = "VERTEX"
    /\ good = "falling" => currState \in G!Down /\ rb /\ ~lb /\ LineDown(line, packet_count)
    /\ (good = "falling" /\ currState = "DRAW_RIGHT") => right.most = x_desl /\ right.now = x_desl
    /\ good = "done" => currState = "EXIT"

GestureInv == G!TypeOK /\ Drawn /\ Faultless

\* Where a state leads, when its edges are known.
LEMMA TargetIs ==
    ASSUME NEW s, NEW e, NEW t, <<s, e, t>> \in G!UpEdges \cup G!VertexEdges \cup G!DownEdges,
           \A g \in G!UpEdges \cup G!VertexEdges \cup G!DownEdges :
             (g[1] = s /\ g[2] = e) => g[3] = t
    PROVE  G!Target(s, e) = t
<1> DEFINE edges == {g \in G!UpEdges \cup G!VertexEdges \cup G!DownEdges : g[1] = s /\ g[2] = e}
<1>1. <<s, e, t>> \in edges
  OBVIOUS
<1>2. (CHOOSE g \in edges : TRUE) \in edges
  BY <1>1
<1> QED
  BY <1>1, <1>2 DEF G!Target

LEMMA TargetNone ==
    ASSUME NEW s, NEW e,
           \A g \in G!UpEdges \cup G!VertexEdges \cup G!DownEdges : ~(g[1] = s /\ g[2] = e)
    PROVE  G!Target(s, e) = s
BY DEF G!Target

\* All the edges.
LEMMA Targets ==
    ASSUME NEW e
    PROVE  /\ G!Target("INITIAL", e) = IF e = "LEFT_DOWN" THEN "DRAW_LEFT" ELSE "INITIAL"
           /\ G!Target("DRAW_LEFT", e) = CASE e = "LEFT_UP" -> "INITIAL"
                                          [] e = "STRAIGHT" -> "LEFT_DONE"
                                          [] OTHER -> "DRAW_LEFT"
           /\ G!Target("LEFT_DONE", e) = CASE e = "LEFT_UP" -> "VERTEX"
                                          [] e = "TOL_FAIL" -> "DRAW_LEFT"
                                          [] e = "RIGHT_DOWN" -> "INITIAL"
                                          [] OTHER -> "LEFT_DONE"
           /\ G!Target("VERTEX", e) = CASE e = "RIGHT_DOWN" -> "DRAW_RIGHT"
                                       [] e = "LEFT_DOWN" -> "DRAW_LEFT"
                                       [] e = "TOL_FAIL" -> "INITIAL"
                                       [] OTHER -> "VERTEX"
           /\ G!Target("DRAW_RIGHT", e) = CASE e = "RIGHT_UP" -> "INITIAL"
                                           [] e = "TOL_FAIL" -> "INITIAL"
                                           [] e = "STRAIGHT" -> "RIGHT_DONE"
                                           [] OTHER -> "DRAW_RIGHT"
           /\ G!Target("RIGHT_DONE", e) = CASE e = "RIGHT_UP" -> "EXIT"
                                           [] e = "TOL_FAIL" -> "INITIAL"
                                           [] e = "LEFT_DOWN" -> "INITIAL"
                                           [] OTHER -> "RIGHT_DONE"
<1>1. G!Target("INITIAL", e) = IF e = "LEFT_DOWN" THEN "DRAW_LEFT" ELSE "INITIAL"
  BY TargetIs, TargetNone DEF G!UpEdges, G!VertexEdges, G!DownEdges
<1>2. G!Target("DRAW_LEFT", e) = CASE e = "LEFT_UP" -> "INITIAL"
                              [] e = "STRAIGHT" -> "LEFT_DONE"
                              [] OTHER -> "DRAW_LEFT"
  BY TargetIs, TargetNone DEF G!UpEdges, G!VertexEdges, G!DownEdges
<1>3. G!Target("LEFT_DONE", e) = CASE e = "LEFT_UP" -> "VERTEX"
                              [] e = "TOL_FAIL" -> "DRAW_LEFT"
                              [] e = "RIGHT_DOWN" -> "INITIAL"
                              [] OTHER -> "LEFT_DONE"
  BY TargetIs, TargetNone DEF G!UpEdges, G!VertexEdges, G!DownEdges
<1>4. G!Target("VERTEX", e) = CASE e = "RIGHT_DOWN" -> "DRAW_RIGHT"
                           [] e = "LEFT_DOWN" -> "DRAW_LEFT"
                           [] e = "TOL_FAIL" -> "INITIAL"
                           [] OTHER -> "VERTEX"
  BY TargetIs, TargetNone DEF G!UpEdges, G!VertexEdges, G!DownEdges
<1>5. G!Target("DRAW_RIGHT", e) = CASE e = "RIGHT_UP" -> "INITIAL"
                               [] e = "TOL_FAIL" -> "INITIAL"
                               [] e = "STRAIGHT" -> "RIGHT_DONE"
                               [] OTHER -> "DRAW_RIGHT"
  BY TargetIs, TargetNone DEF G!UpEdges, G!VertexEdges, G!DownEdges
<1>6. G!Target("RIGHT_DONE", e) = CASE e = "RIGHT_UP" -> "EXIT"
                               [] e = "TOL_FAIL" -> "INITIAL"
                               [] e = "LEFT_DOWN" -> "INITIAL"
                               [] OTHER -> "RIGHT_DONE"
  BY TargetIs, TargetNone DEF G!UpEdges, G!VertexEdges, G!DownEdges
<1> QED
  BY <1>1, <1>2, <1>3, <1>4, <1>5, <1>6

Event == {"TOL_FAIL", "LINE_C", "CONTINUE_DRAW"}

\* A packet that changes a button.
LEMMA ButtonInv ==
    ASSUME GestureInv, NEW l \in BOOLEAN, NEW r \in BOOLEAN, G!ButtonEvent(l, r)
    PROVE  GestureInv'
<1> DEFINE e == G!Button(l, r)
           s == G!Target(currState, e)
<1>0. /\ currState # "EXIT" /\ e # "none"
      /\ lb' = (IF l # lb THEN l ELSE lb) /\ rb' = (IF l = lb THEN r ELSE rb)
      /\ currState' = s
      /\ IF s # currState THEN G!reset_data
         ELSE packet_count' = (IF s = "VERTEX" THEN 0 ELSE packet_count)
              /\ UNCHANGED <<x_desl, x_tol, y_tol, line>>
      /\ left' = (IF e = "LEFT_DOWN" THEN G!NoWay ELSE left)
      /\ right' = (IF e = "RIGHT_DOWN" THEN G!NoWay ELSE right)
      /\ came' = (IF e = "RIGHT_DOWN" THEN left.most ELSE came)
      /\ good' = G!Good(e, <<0, 0>>)
  BY DEF G!ButtonEvent
<1>1. /\ G!TypeOK /\ Drawn /\ Faultless
      /\ lb \in BOOLEAN /\ rb \in BOOLEAN /\ currState \in G!State
  BY DEF GestureInv, G!TypeOK
<1>2. \/ e = "LEFT_DOWN" /\ ~lb /\ lb' /\ rb' = rb
      \/ e = "LEFT_UP" /\ lb /\ ~lb' /\ rb' = rb
      \/ e = "RIGHT_DOWN" /\ ~rb /\ rb' /\ lb' = lb
      \/ e = "RIGHT_UP" /\ rb /\ ~rb' /\ lb' = lb
  <2>1. lb' \in BOOLEAN /\ rb' \in BOOLEAN
    BY <1>0, <1>1
  <2> QED
    BY <1>0, <1>1, <2>1 DEF G!Button
<1>3. /\ currState = "INITIAL" => s = IF e = "LEFT_DOWN" THEN "DRAW_LEFT" ELSE "INITIAL"
      /\ currState = "DRAW_LEFT" => s = IF e = "LEFT_UP" THEN "INITIAL" ELSE "DRAW_LEFT"
      /\ currState = "LEFT_DONE" => s = CASE e = "LEFT_UP" -> "VERTEX"
                                          [] e = "RIGHT_DOWN" -> "INITIAL"
                                          [] OTHER -> "LEFT_DONE"
      /\ currState = "VERTEX" => s = CASE e = "RIGHT_DOWN" -> "DRAW_RIGHT"
                                       [] e = "LEFT_DOWN" -> "DRAW_LEFT"
                                       [] OTHER -> "VERTEX"
      /\ currState = "DRAW_RIGHT" => s = IF e = "RIGHT_UP" THEN "INITIAL" ELSE "DRAW_RIGHT"
      /\ currState = "RIGHT_DONE" => s = CASE e = "RIGHT_UP" -> "EXIT"
                                           [] e = "LEFT_DOWN" -> "INITIAL"
                                           [] OTHER -> "RIGHT_DONE"
  <2> HIDE DEF e
  <2> QED
    BY <1>2, Targets
<1> HIDE DEF e, s
<1>4. /\ s # currState =>
            /\ x_desl' = 0 /\ x_tol' = 0 /\ y_tol' = 0 /\ line' = <<0, 0>> /\ packet_count' = 0
      /\ s = currState =>
            /\ packet_count' \in {0, packet_count} /\ (currState # "VERTEX" => packet_count' = packet_count)
            /\ x_desl' = x_desl /\ x_tol' = x_tol /\ y_tol' = y_tol /\ line' = line
  BY <1>0 DEF G!reset_data
<1>5. /\ XLen \in Nat /\ XLen > 0 /\ SLOPE_COUNT \in Nat /\ SLOPE_COUNT > 0
      /\ G!NoWay.most = 0 /\ G!NoWay.now = 0 /\ G!NoWay \in [most : 0..XLen, now : 0..XLen]
  BY GestureInstance DEF G!GestureConstants, G!NoWay
<1>6. s \in G!State /\ came' \in Nat
  BY <1>0, <1>1, <1>2, <1>3, <1>5 DEF G!State, G!TypeOK
<1>7. good' \in {"no", "ready", "rising", "vertex", "falling", "done"}
  BY <1>0, <1>1, <1>2 DEF G!Good, G!TypeOK
<1>8. G!TypeOK'
  <2>1. x_desl' \in Int /\ x_tol' \in Nat /\ y_tol' \in Nat /\ line' \in Int \X Int /\ packet_count' \in 0..SLOPE_COUNT
    BY <1>1, <1>4, <1>5 DEF G!TypeOK
  <2>2. left' \in [most : 0..XLen, now : 0..XLen] /\ right' \in [most : 0..XLen, now : 0..XLen]
    BY <1>0, <1>1, <1>5 DEF G!TypeOK
  <2>3. lb' \in BOOLEAN /\ rb' \in BOOLEAN
    BY <1>0, <1>1
  <2> QED
    BY <1>0, <1>6, <1>7, <2>1, <2>2, <2>3 DEF G!TypeOK
<1>9. /\ left.most \in Nat /\ right.most \in Nat /\ left.now \in Nat /\ right.now \in Nat
      /\ packet_count \in Nat /\ x_desl \in Int
  BY <1>1, <1>5 DEF G!TypeOK
<1>10. Drawn'
  BY <1>0, <1>1, <1>2, <1>3, <1>4, <1>5, <1>9 DEF Drawn, G!Up, G!Down, G!State
<1>11. Faultless'
  <2>1. (good' \in {"ready", "vertex"} => ~lb' /\ ~rb')
    BY <1>0, <1>1, <1>2 DEF Faultless, G!Good
  <2>2. good' = "rising" => /\ good = "ready" /\ e = "LEFT_DOWN" /\ s = "DRAW_LEFT" /\ s # currState
                            /\ lb' /\ ~rb' /\ left' = G!NoWay
    BY <1>0, <1>1, <1>2, <1>3 DEF Faultless, Drawn, G!Good, G!State, G!Down, G!Up
  <2>3. good' = "vertex" => s = "VERTEX" /\ s # currState
    BY <1>0, <1>1, <1>2, <1>3, <1>5, <1>9 DEF Faultless, Drawn, G!Good, G!Up
  <2>4. good' = "falling" => /\ s = "DRAW_RIGHT" /\ s # currState
                             /\ rb' /\ ~lb' /\ right' = G!NoWay
    BY <1>0, <1>1, <1>2, <1>3 DEF Faultless, Drawn, G!Good
  <2>5. good' = "done" => s = "EXIT"
    BY <1>0, <1>1, <1>2, <1>3, <1>5, <1>9 DEF Faultless, Drawn, G!Good, G!Down
  <2> QED
    BY <1>0, <1>4, <1>5, <2>1, <2>2, <2>3, <2>4, <2>5 DEF Faultless, G!Up, G!Down, LineUp, LineDown
<1> QED
  BY <1>8, <1>10, <1>11 DEF GestureInv

\* What packet_to_event makes of a movement: the sums, and which event they are.
LEMMA MovedIs ==
    ASSUME G!TypeOK, Drawn, NEW d \in Int \X Int, NEW m, m = G!Moved(d)
    PROVE  /\ m.event \in Event /\ m.x_desl = x_desl + d[1]
           /\ m.x_tol \in Nat /\ m.y_tol \in Nat /\ m.line \in Int \X Int
           /\ m.packet_count \in 0..SLOPE_COUNT
           /\ m.packet_count = SLOPE_COUNT => m.event = "TOL_FAIL" /\ currState \in G!Up \cup G!Down
           /\ m.event = "LINE_C" => x_desl + d[1] >= XLen
           /\ m.event = "CONTINUE_DRAW" => x_desl + d[1] < XLen
<1>0. /\ x_desl \in Int /\ x_tol \in Nat /\ y_tol \in Nat /\ line \in Int \X Int
      /\ packet_count \in Nat /\ packet_count < SLOPE_COUNT /\ SLOPE_COUNT \in Nat /\ XLen \in Nat
      /\ Tolerance \in Nat /\ d[1] \in Int /\ d[2] \in Int /\ line[1] \in Int /\ line[2] \in Int
  BY GestureInstance DEF G!GestureConstants, G!TypeOK, Drawn
<1> DEFINE drawing == currState \in G!Up \cup G!Down
           mm == IF currState \in G!Down THEN G!Mirror(d) ELSE d
           ls == <<line[1] + d[1], line[2] + d[2]>>
           lm == IF currState \in G!Down THEN G!Mirror(ls) ELSE ls
           xt == x_tol + (IF currState = "VERTEX" THEN G!Abs(d[1])
                          ELSE IF drawing /\ d[1] < 0 THEN -d[1] ELSE 0)
           yt == y_tol + (IF currState = "VERTEX" THEN G!Abs(d[2])
                          ELSE IF drawing /\ mm[2] < 0 THEN -mm[2] ELSE 0)
           pc == packet_count + (IF drawing THEN 1 ELSE 0)
           full == drawing /\ pc = SLOPE_COUNT
           fail == \/ (drawing \/ currState = "VERTEX") /\ (xt > Tolerance \/ yt > Tolerance)
                   \/ full /\ G!Flat(lm)
<1>1. m = [event |-> IF fail THEN "TOL_FAIL" ELSE IF x_desl + d[1] >= XLen THEN "LINE_C" ELSE "CONTINUE_DRAW",
           x_desl |-> x_desl + d[1], x_tol |-> xt, y_tol |-> yt,
           line |-> IF full /\ ~fail THEN <<0, 0>> ELSE ls,
           packet_count |-> IF full /\ ~fail THEN 0 ELSE pc]
  BY DEF G!Moved
<1>2. mm[2] \in Int
  BY <1>0 DEF G!Mirror
<1>3. G!Abs(d[1]) \in Nat /\ G!Abs(d[2]) \in Nat
  BY <1>0 DEF G!Abs
<1> HIDE DEF mm, lm
<1>4. xt \in Nat /\ yt \in Nat /\ pc \in Nat /\ pc <= SLOPE_COUNT /\ ls \in Int \X Int
  BY <1>0, <1>2, <1>3
<1>5. pc = SLOPE_COUNT => drawing
  BY <1>0
<1> HIDE DEF xt, yt, pc, ls, drawing
<1> QED
  BY <1>0, <1>1, <1>4, <1>5 DEF Event, drawing

\* The same for a faultless line or vertex: nothing fails.
LEMMA FaultlessMove ==
    ASSUME G!TypeOK, Drawn, Faultless, NEW d \in Int \X Int, NEW m, m = G!Moved(d),
           \/ good = "rising" /\ d \in Rise
           \/ good = "vertex" /\ d = <<0, 0>>
           \/ good = "falling" /\ d \in Fall
    PROVE  /\ m.event # "TOL_FAIL" /\ m.x_tol = 0 /\ m.y_tol = 0
           /\ good = "rising" => d[1] > 0 /\ LineUp(m.line, m.packet_count)
           /\ good = "falling" => d[1] > 0 /\ LineDown(m.line, m.packet_count)
<1>0. /\ x_desl \in Int /\ line \in Int \X Int /\ x_tol = 0 /\ y_tol = 0
      /\ packet_count \in Nat /\ SLOPE_COUNT \in Nat /\ XLen \in Nat
      /\ Tolerance \in Nat /\ d[1] \in Int /\ d[2] \in Int /\ line[1] \in Int /\ line[2] \in Int
  BY GestureInstance DEF G!GestureConstants, G!TypeOK, Drawn, Faultless
<1> DEFINE ls == <<line[1] + d[1], line[2] + d[2]>>
<1>1. CASE good = "rising" /\ d \in Rise
  <2>1. d[2] > d[1] /\ d[1] > 0 /\ currState \in G!Up
    BY <1>1, GestureInstance DEF G!GestureConstants, Faultless
  <2>2. ls[2] > ls[1] /\ ls[1] > 0 /\ ~G!Flat(ls)
    BY <1>0, <1>1, <2>1 DEF Faultless, LineUp, G!Flat, G!Steep
  <2>3. currState \notin G!Down /\ currState # "VERTEX"
    BY <2>1 DEF G!Up, G!Down
  <2> HIDE DEF ls
  <2>4. /\ m.event # "TOL_FAIL" /\ m.x_tol = 0 /\ m.y_tol = 0
        /\ m.line = (IF packet_count + 1 = SLOPE_COUNT THEN <<0, 0>> ELSE ls)
        /\ m.packet_count = (IF packet_count + 1 = SLOPE_COUNT THEN 0 ELSE packet_count + 1)
    BY <1>0, <2>1, <2>2, <2>3 DEF G!Moved, ls
  <2> QED
    BY <1>0, <1>1, <2>1, <2>2, <2>4 DEF LineUp
<1>2. CASE good = "vertex" /\ d = <<0, 0>>
  <2>1. currState = "VERTEX" /\ d[1] = 0 /\ d[2] = 0
    BY <1>2 DEF Faultless
  <2>2. currState \notin G!Up \cup G!Down
    BY <2>1 DEF G!Up, G!Down
  <2> QED
    BY <1>0, <1>2, <2>1, <2>2 DEF G!Moved, G!Abs
<1>3. CASE good = "falling" /\ d \in Fall
  <2>1. d[2] < -d[1] /\ d[1] > 0 /\ currState \in G!Down
    BY <1>3, GestureInstance DEF G!GestureConstants, Faultless
  <2>2. -ls[2] > ls[1] /\ ls[1] > 0 /\ ~G!Flat(G!Mirror(ls)) /\ G!Mirror(d)[2] >= 0
    BY <1>0, <1>3, <2>1 DEF Faultless, LineDown, G!Flat, G!Steep, G!Mirror
  <2>3. currState \notin G!Up /\ currState # "VERTEX"
    BY <2>1 DEF G!Up, G!Down
  <2>5. G!Mirror(d)[2] \in Int
    BY <1>0 DEF G!Mirror
  <2> HIDE DEF ls
  <2>4. /\ m.event # "TOL_FAIL" /\ m.x_tol = 0 /\ m.y_tol = 0
        /\ m.line = (IF packet_count + 1 = SLOPE_COUNT THEN <<0, 0>> ELSE ls)
        /\ m.packet_count = (IF packet_count + 1 = SLOPE_COUNT THEN 0 ELSE packet_count + 1)
    BY <1>0, <2>1, <2>2, <2>3, <2>5 DEF G!Moved, ls
  <2> QED
    BY <1>0, <1>3, <2>1, <2>2, <2>4 DEF LineDown
<1> QED
  BY <1>1, <1>2, <1>3

\* The way a line goes to the right.
LEMMA WayIs ==
    ASSUME NEW w \in [most : 0..XLen, now : 0..XLen], NEW d \in Int \X Int
    PROVE  /\ G!Way(w, d) \in [most : 0..XLen, now : 0..XLen]
           /\ G!Way(w, d).most >= w.most
           /\ \A x \in Int : x <= w.now =>
                /\ (x + d[1] < XLen => x + d[1] <= G!Way(w, d).now)
                /\ (x + d[1] >= XLen => G!Way(w, d).most >= XLen)
           /\ \A x \in Int : (x = w.now /\ x = w.most /\ d[1] > 0 /\ x + d[1] < XLen) =>
                G!Way(w, d).now = x + d[1] /\ G!Way(w, d).most = x + d[1]
<1>1. XLen \in Nat /\ w.most \in 0..XLen /\ w.now \in 0..XLen /\ d[1] \in Int
  BY GestureInstance DEF G!GestureConstants
<1> DEFINE n == w.now + d[1]
           now == IF n < 0 THEN 0 ELSE IF n > XLen THEN XLen ELSE n
<1>2. G!Way(w, d) = [most |-> IF now > w.most THEN now ELSE w.most, now |-> now]
  BY DEF G!Way
<1> QED
  BY <1>1, <1>2

\* A packet that moves.
LEMMA MoveInv ==
    ASSUME GestureInv, NEW d \in G!Delta, G!MoveEvent(d)
    PROVE  GestureInv'
<1> DEFINE m == G!Moved(d)
           rest == IF currState \in G!Down THEN G!Mirror(m.line) ELSE m.line
           straight == m.event = "LINE_C" /\ (m.packet_count = 0 \/ G!Steep(rest))
           e == IF straight THEN "STRAIGHT" ELSE m.event
           s == G!Target(currState, e)
<1>0. /\ currState # "EXIT" /\ currState' = s
      /\ IF s # currState \/ G!Resets(currState, m.event) THEN G!reset_data
         ELSE /\ x_desl' = m.x_desl /\ x_tol' = m.x_tol /\ y_tol' = m.y_tol
              /\ line' = m.line
              /\ packet_count' = IF s = "VERTEX" THEN 0 ELSE m.packet_count
      /\ left' = (IF lb THEN G!Way(left, d) ELSE left)
      /\ right' = (IF rb THEN G!Way(right, d) ELSE right)
      /\ good' = G!Good("none", d)
      /\ lb' = lb /\ rb' = rb /\ came' = came
  BY DEF G!MoveEvent
<1>1. /\ G!TypeOK /\ Drawn /\ Faultless
      /\ lb \in BOOLEAN /\ rb \in BOOLEAN /\ currState \in G!State
  BY DEF GestureInv, G!TypeOK
<1>c. /\ XLen \in Nat /\ XLen > 0 /\ SLOPE_COUNT \in Nat /\ SLOPE_COUNT > 0 /\ d \in Int \X Int
      /\ d[1] \in Int
  BY GestureInstance DEF G!GestureConstants, G!Delta
<1>2. /\ m.event \in Event /\ m.x_desl = x_desl + d[1]
      /\ m.x_tol \in Nat /\ m.y_tol \in Nat /\ m.line \in Int \X Int
      /\ m.packet_count \in 0..SLOPE_COUNT
      /\ m.packet_count = SLOPE_COUNT => m.event = "TOL_FAIL" /\ currState \in G!Up \cup G!Down
      /\ m.event = "LINE_C" => x_desl + d[1] >= XLen
      /\ m.event = "CONTINUE_DRAW" => x_desl + d[1] < XLen
  BY <1>1, <1>c, MovedIs
<1>f. ASSUME \/ good = "rising" /\ d \in Rise
             \/ good = "vertex" /\ d = <<0, 0>>
             \/ good = "falling" /\ d \in Fall
      PROVE  /\ m.event # "TOL_FAIL" /\ m.x_tol = 0 /\ m.y_tol = 0
             /\ good = "rising" => d[1] > 0 /\ LineUp(m.line, m.packet_count)
             /\ good = "falling" => d[1] > 0 /\ LineDown(m.line, m.packet_count)
  BY <1>1, <1>c, <1>f, FaultlessMove
<1>s. /\ (LineUp(m.line, m.packet_count) /\ currState \notin G!Down /\ m.event = "LINE_C") => straight
      /\ (LineDown(m.line, m.packet_count) /\ currState \in G!Down /\ m.event = "LINE_C") => straight
  <2>1. m.line[1] \in Int /\ m.line[2] \in Int
    BY <1>2
  <2> HIDE DEF m
  <2> QED
    BY <2>1 DEF LineUp, LineDown, G!Steep, G!Mirror
<1> HIDE DEF m
<1>e. e \in Event \cup {"STRAIGHT"} /\ (e # "STRAIGHT" => e = m.event) /\ (e = "STRAIGHT" => m.event = "LINE_C" /\ straight)
      /\ (straight => e = "STRAIGHT")
  BY <1>2 DEF Event
<1> HIDE DEF straight
<1>3. /\ currState = "INITIAL" => s = "INITIAL"
      /\ currState = "DRAW_LEFT" => s = IF e = "STRAIGHT" THEN "LEFT_DONE" ELSE "DRAW_LEFT"
      /\ currState = "LEFT_DONE" => s = IF e = "TOL_FAIL" THEN "DRAW_LEFT" ELSE "LEFT_DONE"
      /\ currState = "VERTEX" => s = IF e = "TOL_FAIL" THEN "INITIAL" ELSE "VERTEX"
      /\ currState = "DRAW_RIGHT" => s = CASE e = "TOL_FAIL" -> "INITIAL"
                                           [] e = "STRAIGHT" -> "RIGHT_DONE"
                                           [] OTHER -> "DRAW_RIGHT"
      /\ currState = "RIGHT_DONE" => s = IF e = "TOL_FAIL" THEN "INITIAL" ELSE "RIGHT_DONE"
  <2> HIDE DEF e
  <2> QED
    BY <1>e, Targets DEF Event
<1> HIDE DEF e, s
<1>r. (s # currState \/ G!Resets(currState, m.event)) =>
         /\ x_desl' = 0 /\ x_tol' = 0 /\ y_tol' = 0 /\ line' = <<0, 0>> /\ packet_count' = 0
  BY <1>0 DEF G!reset_data
<1>k. ~(s # currState \/ G!Resets(currState, m.event)) =>
         /\ x_desl' = x_desl + d[1] /\ x_tol' = m.x_tol /\ y_tol' = m.y_tol /\ line' = m.line
         /\ packet_count' = IF s = "VERTEX" THEN 0 ELSE m.packet_count
  BY <1>0, <1>2
<1>4. /\ left \in [most : 0..XLen, now : 0..XLen] /\ right \in [most : 0..XLen, now : 0..XLen]
      /\ x_desl \in Int /\ came \in Nat
  BY <1>1 DEF G!TypeOK
<1>t. s \in G!State /\ good' \in {"no", "ready", "rising", "vertex", "falling", "done"}
  BY <1>0, <1>1, <1>3 DEF G!State, G!Good, G!TypeOK
<1>w. left' \in [most : 0..XLen, now : 0..XLen] /\ right' \in [most : 0..XLen, now : 0..XLen]
  BY <1>0, <1>4, <1>c, WayIs
<1>5. G!TypeOK'
  <2>1. x_desl' \in Int /\ x_tol' \in Nat /\ y_tol' \in Nat /\ line' \in Int \X Int
        /\ packet_count' \in 0..SLOPE_COUNT
    BY <1>r, <1>k, <1>2, <1>4, <1>c
  <2> QED
    BY <1>0, <1>1, <1>4, <1>t, <1>w, <2>1 DEF G!TypeOK
<1>6. Drawn'
  <2>1. packet_count' < SLOPE_COUNT
    <3>1. currState \in G!Up \cup G!Down /\ m.event = "TOL_FAIL" => s # currState \/ G!Resets(currState, m.event)
      BY <1>3, <1>e DEF G!Up, G!Down, G!Resets, Event
    <3> QED
      BY <1>r, <1>k, <1>2, <1>c, <3>1
  <2>2. /\ left'.most >= left.most /\ right'.most >= right.most
        /\ left.most \in Nat /\ left'.most \in Nat /\ right.most \in Nat /\ right'.most \in Nat
    BY <1>0, <1>1, <1>4, <1>w, <1>c, WayIs
  <2>3. /\ s \in G!Up => lb'
        /\ s \in G!Down => rb' /\ came' >= XLen
        /\ s = "VERTEX" => ~lb' /\ currState = "VERTEX"
    BY <1>0, <1>1, <1>3 DEF Drawn, G!Up, G!Down, G!State
  <2>4. s = "DRAW_LEFT" => x_desl' < XLen /\ x_desl' <= left'.now
    <3>1. CASE currState = "DRAW_LEFT" /\ s = "DRAW_LEFT"
      <4>1. m.event \in {"TOL_FAIL", "LINE_C"} => x_desl' = 0
        BY <1>r, <3>1 DEF G!Resets
      <4>2. m.event = "CONTINUE_DRAW" => x_desl' = x_desl + d[1] /\ x_desl + d[1] < XLen
        BY <1>k, <1>2, <3>1 DEF G!Resets
      <4>3. lb /\ x_desl <= left.now
        BY <1>1, <3>1 DEF Drawn, G!Up
      <4>4. x_desl + d[1] < XLen => x_desl + d[1] <= left'.now
        BY <1>0, <1>4, <1>c, <4>3, WayIs
      <4>5. left'.now \in Nat
        BY <1>w
      <4> QED
        BY <1>2, <1>c, <4>1, <4>2, <4>4, <4>5 DEF Event
    <3>2. CASE currState # "DRAW_LEFT" /\ s = "DRAW_LEFT"
      BY <1>r, <1>w, <1>c, <3>2
    <3> QED
      BY <3>1, <3>2
  <2>5. s \in {"LEFT_DONE", "VERTEX"} => left'.most >= XLen
    <3>1. CASE currState = "DRAW_LEFT" /\ s = "LEFT_DONE"
      <4>1. x_desl + d[1] >= XLen
        BY <1>2, <1>3, <1>e, <3>1
      <4>2. lb /\ x_desl <= left.now
        BY <1>1, <3>1 DEF Drawn, G!Up
      <4> QED
        BY <1>0, <1>4, <1>c, <4>1, <4>2, WayIs
    <3>2. CASE s \in {"LEFT_DONE", "VERTEX"} /\ currState \in {"LEFT_DONE", "VERTEX"}
      BY <1>1, <1>c, <2>2, <3>2 DEF Drawn
    <3> QED
      BY <1>0, <1>1, <1>3, <3>1, <3>2 DEF G!State
  <2>6. s = "DRAW_RIGHT" => x_desl' < XLen /\ x_desl' <= right'.now
    <3>1. CASE currState = "DRAW_RIGHT" /\ s = "DRAW_RIGHT"
      <4>1. m.event = "LINE_C" => x_desl' = 0
        BY <1>r, <3>1 DEF G!Resets
      <4>2. m.event = "CONTINUE_DRAW" => x_desl' = x_desl + d[1] /\ x_desl + d[1] < XLen
        BY <1>k, <1>2, <3>1 DEF G!Resets
      <4>3. rb /\ x_desl <= right.now
        BY <1>1, <3>1 DEF Drawn, G!Down
      <4>4. x_desl + d[1] < XLen => x_desl + d[1] <= right'.now
        BY <1>0, <1>4, <1>c, <4>3, WayIs
      <4>5. right'.now \in Nat
        BY <1>w
      <4>6. m.event # "TOL_FAIL"
        BY <1>3, <1>e, <3>1
      <4> QED
        BY <1>2, <1>c, <4>1, <4>2, <4>4, <4>5, <4>6 DEF Event
    <3> QED
      BY <1>0, <1>1, <1>3, <3>1 DEF G!State
  <2>7. s = "RIGHT_DONE" => right'.most >= XLen
    <3>1. CASE currState = "DRAW_RIGHT" /\ s = "RIGHT_DONE"
      <4>1. x_desl + d[1] >= XLen
        BY <1>2, <1>3, <1>e, <3>1
      <4>2. rb /\ x_desl <= right.now
        BY <1>1, <3>1 DEF Drawn, G!Down
      <4> QED
        BY <1>0, <1>4, <1>c, <4>1, <4>2, WayIs
    <3>2. CASE s = "RIGHT_DONE" /\ currState = "RIGHT_DONE"
      BY <1>1, <1>c, <2>2, <3>2 DEF Drawn
    <3> QED
      BY <1>0, <1>1, <1>3, <3>1, <3>2 DEF G!State
  <2>8. s # "EXIT"
    BY <1>0, <1>1, <1>3 DEF G!State
  <2> QED
    BY <1>0, <2>1, <2>3, <2>4, <2>5, <2>6, <2>7, <2>8 DEF Drawn
<1>7. Faultless'
  <2>1. good' \in {"ready", "vertex"} => ~lb' /\ ~rb'
    BY <1>0, <1>1 DEF Faultless, G!Good
  <2>2. CASE good' = "rising"
    <3>1. good = "rising" /\ d \in Rise
      BY <1>0, <2>2 DEF G!Good
    <3>2. m.event # "TOL_FAIL" /\ m.x_tol = 0 /\ m.y_tol = 0 /\ d[1] > 0 /\ LineUp(m.line, m.packet_count)
      BY <1>f, <3>1
    <3>3. currState \in G!Up /\ lb /\ ~rb
      BY <1>1, <3>1 DEF Faultless
    <3>4. currState \notin G!Down /\ s \in G!Up
      BY <1>3, <3>3 DEF G!Up, G!Down
    <3>5. x_tol' = 0 /\ y_tol' = 0
      BY <1>r, <1>k, <3>2
    <3>6. LineUp(line', packet_count')
      <4>1. s # "VERTEX"
        BY <3>4 DEF G!Up
      <4> QED
        BY <1>r, <1>k, <3>2, <4>1 DEF LineUp
    <3>7. s = "DRAW_LEFT" => left'.most = x_desl' /\ left'.now = x_desl'
      <4> SUFFICES ASSUME s = "DRAW_LEFT" PROVE left'.most = x_desl' /\ left'.now = x_desl'
        OBVIOUS
      <4>1. currState = "DRAW_LEFT" /\ e # "STRAIGHT"
        BY <1>3, <1>e, <3>2, <3>3 DEF G!Up
      <4>2. m.event = "CONTINUE_DRAW"
        BY <1>s, <1>e, <1>2, <3>2, <3>4, <4>1 DEF Event
      <4>3. x_desl' = x_desl + d[1] /\ x_desl + d[1] < XLen
        BY <1>k, <1>2, <4>1, <4>2 DEF G!Resets
      <4>4. x_desl = left.now /\ x_desl = left.most
        BY <1>1, <3>1, <4>1 DEF Faultless
      <4> QED
        BY <1>0, <1>4, <1>c, <3>2, <3>3, <4>3, <4>4, WayIs
    <3> QED
      BY <1>0, <2>2, <3>3, <3>4, <3>5, <3>6, <3>7 DEF Faultless
  <2>3. CASE good' = "vertex"
    <3>1. good = "vertex" /\ d = <<0, 0>>
      BY <1>0, <2>3 DEF G!Good
    <3>2. m.event # "TOL_FAIL" /\ m.x_tol = 0 /\ m.y_tol = 0
      BY <1>f, <3>1
    <3>3. currState = "VERTEX" /\ s = "VERTEX"
      BY <1>1, <1>3, <1>e, <3>1, <3>2 DEF Faultless
    <3>4. x_tol' = 0 /\ y_tol' = 0
      BY <1>r, <1>k, <3>2
    <3> QED
      BY <1>0, <2>1, <2>3, <3>3, <3>4 DEF Faultless
  <2>4. CASE good' = "falling"
    <3>1. good = "falling" /\ d \in Fall
      BY <1>0, <2>4 DEF G!Good
    <3>2. m.event # "TOL_FAIL" /\ m.x_tol = 0 /\ m.y_tol = 0 /\ d[1] > 0 /\ LineDown(m.line, m.packet_count)
      BY <1>f, <3>1
    <3>3. currState \in G!Down /\ rb /\ ~lb
      BY <1>1, <3>1 DEF Faultless
    <3>4. s \in G!Down
      BY <1>3, <1>e, <3>2, <3>3 DEF G!Down
    <3>5. x_tol' = 0 /\ y_tol' = 0
      BY <1>r, <1>k, <3>2
    <3>6. LineDown(line', packet_count')
      <4>1. s # "VERTEX"
        BY <3>4 DEF G!Down
      <4> QED
        BY <1>r, <1>k, <3>2, <4>1 DEF LineDown
    <3>7. s = "DRAW_RIGHT" => right'.most = x_desl' /\ right'.now = x_desl'
      <4> SUFFICES ASSUME s = "DRAW_RIGHT" PROVE right'.most = x_desl' /\ right'.now = x_desl'
        OBVIOUS
      <4>1. currState = "DRAW_RIGHT" /\ e # "STRAIGHT"
        BY <1>3, <1>e, <3>2, <3>3 DEF G!Down
      <4>2. m.event = "CONTINUE_DRAW"
        BY <1>s, <1>e, <1>2, <3>2, <3>3, <4>1 DEF Event
      <4>3. x_desl' = x_desl + d[1] /\ x_desl + d[1] < XLen
        BY <1>k, <1>2, <4>1, <4>2 DEF G!Resets
      <4>4. x_desl = right.now /\ x_desl = right.most
        BY <1>1, <3>1, <4>1 DEF Faultless
      <4> QED
        BY <1>0, <1>4, <1>c, <3>2, <3>3, <4>3, <4>4, WayIs
    <3> QED
      BY <1>0, <2>4, <3>3, <3>4, <3>5, <3>6, <3>7 DEF Faultless
  <2>5. good' # "done"
    BY <1>0, <1>1 DEF G!Good, Faultless
  <2> QED
    BY <1>t, <2>1, <2>2, <2>3, <2>4, <2>5 DEF Faultless
<1> QED
  BY <1>5, <1>6, <1>7 DEF GestureInv

\* The invariant of the detector.
LEMMA GestureInvariant == G!Spec => []GestureInv
<1>1. G!Init => GestureInv
  <2> SUFFICES ASSUME G!Init PROVE GestureInv
    OBVIOUS
  <2>1. XLen \in Nat /\ SLOPE_COUNT \in Nat /\ SLOPE_COUNT > 0
    BY GestureInstance DEF G!GestureConstants
  <2>2. G!TypeOK
    <3>1. /\ x_desl \in Int /\ x_tol \in Nat /\ y_tol \in Nat
          /\ came \in Nat /\ line \in Int \X Int /\ packet_count \in 0..SLOPE_COUNT
      BY <2>1 DEF G!Init
    <3>4. lb \in BOOLEAN /\ rb \in BOOLEAN
      BY Zenon DEF G!Init
    <3>2. left \in [most : 0..XLen, now : 0..XLen] /\ right \in [most : 0..XLen, now : 0..XLen]
      BY <2>1 DEF G!Init, G!NoWay
    <3>3. currState \in G!State /\ good \in {"no", "ready", "rising", "vertex", "falling", "done"}
      BY DEF G!Init, G!State
    <3> QED
      BY <3>1, <3>2, <3>3, <3>4 DEF G!TypeOK
  <2>3. Drawn
    BY <2>1 DEF G!Init, Drawn, G!Up, G!Down
  <2>4. Faultless
    BY DEF G!Init, Faultless
  <2> QED
    BY <2>2, <2>3, <2>4 DEF GestureInv
<1>2. GestureInv /\ [G!Next]_(G!vars) => GestureInv'
  <2> SUFFICES ASSUME GestureInv, [G!Next]_(G!vars) PROVE GestureInv'
    OBVIOUS
  <2>1. CASE UNCHANGED G!vars
    BY <2>1 DEF GestureInv, G!TypeOK, Drawn, Faultless, G!vars, G!data
  <2> QED
    BY <2>1, ButtonInv, MoveInv DEF G!Next
<1> QED
  BY <1>1, <1>2, PTL DEF G!Spec

(***************************************************************************)
(* mouse_test_gesture ends after exactly the gestures, for any length,     *)
(* tolerance and displacements: a line is drawn only with its button down, *)
(* the end needs two lines that went x_len to the right, and a faultless   *)
(* gesture is detected whatever was drawn before it.                       *)
(***************************************************************************)
THEOREM InputGestureIsExact == G!Spec => []GestureIsExact
<1>1. GestureInv => GestureIsExact
  BY DEF GestureInv, Drawn, Faultless, GestureIsExact, G!LineNeedsButton, G!OnlyGestures,
     G!EveryGesture
<1> QED
  BY <1>1, GestureInvariant, PTL
-----------------------------------------------------------------------------
(***************************************************************************)
(* Module Input: keyboard and mouse share one buffer.                      *)
(***************************************************************************)
\* Types, with the shapes of what TypeOK leaves open, and the scan codes: they
\* are those of keys in use.
Affects(b, c) == b # KBC_DOUBLE_BYTE /\ c \in kbd_control(b % KBC_BREAK_CODE)
InUse(b) == \A c : Affects(b, c) => c \in Control

InputTyped ==
    /\ TypeOK
    /\ queue \in [Source -> Seq(KbdByte) \cup Seq(MouseByte)]
    /\ obf \in Seq([aux : BOOLEAN, err : BOOLEAN, data : KbdByte \cup MouseByte])
    /\ movement \in [x : -1..1, y : -1..1]
    /\ count \in [strokes : Nat, reports : 0..MaxReports, errors : Nat, resets : Nat]
    /\ \A i \in 1..Len(queue.KBD) : InUse(queue.KBD[i])
    /\ (obf # <<>> /\ ~obf[1].aux) => InUse(obf[1].data)

\* The scan code of a key.
LEMMA KeyCodes ==
    ASSUME NEW k \in Key
    PROVE  /\ KeyCode(k) \in 1..127 /\ k \in Int
           /\ (KeyCode(k) + 128) % 128 = KeyCode(k) /\ KeyCode(k) % 128 = KeyCode(k)
<1>1. k \in 1..127 \/ \E c \in 1..127 : k = 256 + c
  BY InputConstants DEF Prefix
<1>2. KeyCode(k) \in 1..127 /\ k \in Int
  BY <1>1 DEF KeyCode, Prefix
<1> QED
  BY <1>2

\* The bytes of a stroke: what they affect is what the key controls.
LEMMA ScanIs ==
    ASSUME NEW k \in Key, NEW make \in BOOLEAN
    PROVE  /\ Scan(k, make) \in Seq(KbdByte) /\ Len(Scan(k, make)) \in 1..2
           /\ Len(Scan(k, make)) = 2 => \A c : ~Affects(Scan(k, make)[1], c)
           /\ \A c : Affects(Scan(k, make)[Len(Scan(k, make))], c) <=> c \in ControlOf(k)
           /\ \A c : Affects(Scan(k, make)[Len(Scan(k, make))], c) =>
                       (Scan(k, make)[Len(Scan(k, make))] < KBC_BREAK_CODE <=> make)
<1> DEFINE b == KeyCode(k) + (IF make THEN 0 ELSE KBC_BREAK_CODE)
<1>1. KeyCode(k) \in 1..127 /\ b % 128 = KeyCode(k) /\ b \in 1..255 /\ (b < 128 <=> make)
  BY KeyCodes DEF KBC_BREAK_CODE
<1>2. b = 224 => KeyCode(k) = 96
  BY <1>1 DEF KBC_BREAK_CODE
<1>3. kbd_control(96) = {}
  BY DEF kbd_control
<1>4. \A c : Affects(b, c) <=> c \in ControlOf(k)
  <2> HIDE DEF b
  <2> QED
    BY <1>1, <1>2, <1>3 DEF Affects, ControlOf, KBC_BREAK_CODE, KBC_DOUBLE_BYTE
<1>5. \A c : ~Affects(KBC_DOUBLE_BYTE, c)
  BY DEF Affects
<1>6. CASE k >= Prefix
  <2>1. Scan(k, make) = <<KBC_DOUBLE_BYTE>> \o <<b>>
    BY <1>6 DEF Scan
  <2> HIDE DEF b
  <2>2. /\ Scan(k, make) \in Seq(KbdByte) /\ Len(Scan(k, make)) = 2
        /\ Scan(k, make)[1] = KBC_DOUBLE_BYTE /\ Scan(k, make)[2] = b
    BY <1>1, <2>1 DEF KbdByte, KBC_DOUBLE_BYTE
  <2> QED
    BY <1>1, <1>4, <1>5, <2>2 DEF KBC_BREAK_CODE
<1>7. CASE ~(k >= Prefix)
  <2>1. Scan(k, make) = <<>> \o <<b>>
    BY <1>7 DEF Scan
  <2> HIDE DEF b
  <2>2. Scan(k, make) \in Seq(KbdByte) /\ Len(Scan(k, make)) = 1 /\ Scan(k, make)[1] = b
    BY <1>1, <2>1 DEF KbdByte
  <2> QED
    BY <1>1, <1>4, <1>5, <2>2 DEF KBC_BREAK_CODE
<1> QED
  BY <1>6, <1>7

\* The queues of the two devices, one of which changes.
LEMMA QueueChanges ==
    ASSUME InputTyped, NEW s \in Source, NEW q, queue' = [queue EXCEPT ![s] = q],
           q \in Seq(KbdByte) \cup Seq(MouseByte)
    PROVE  /\ queue' \in [Source -> Seq(KbdByte) \cup Seq(MouseByte)]
           /\ queue'[s] = q /\ \A t \in Source \ {s} : queue'[t] = queue[t]
BY DEF InputTyped

\* The keyboard's queue, after a stroke.
LEMMA StrokeIs ==
    ASSUME InputTyped, NEW k \in Key, NEW make \in BOOLEAN, Stroke(k, make)
    PROVE  /\ queue'.KBD = queue.KBD \o Scan(k, make) /\ queue'.MOUSE = queue.MOUSE
           /\ queue' \in [Source -> Seq(KbdByte) \cup Seq(MouseByte)]
           /\ queue'.KBD \in Seq(KbdByte)
           /\ \A i \in 1..Len(queue'.KBD) : InUse(queue'.KBD[i])
<1>1. queue.KBD \in Seq(KbdByte) /\ Scan(k, make) \in Seq(KbdByte) /\ Len(Scan(k, make)) \in 1..2
  BY ScanIs DEF InputTyped, TypeOK
<1>2. queue.KBD \o Scan(k, make) \in Seq(KbdByte)
  BY <1>1
<1>3. queue' = [queue EXCEPT !["KBD"] = queue.KBD \o Scan(k, make)]
  BY DEF Stroke
<1>4. "KBD" \in Source /\ "MOUSE" \in Source \ {"KBD"}
  BY DEF Source
<1>5. /\ queue'.KBD = queue.KBD \o Scan(k, make) /\ queue'.MOUSE = queue.MOUSE
      /\ queue' \in [Source -> Seq(KbdByte) \cup Seq(MouseByte)]
  BY <1>2, <1>3, <1>4, QueueChanges
<1>6. \A i \in 1..Len(Scan(k, make)) : InUse(Scan(k, make)[i])
  <2>1. \A c \in ControlOf(k) : c \in Control
    BY DEF ControlOf, Control
  <2>2. InUse(Scan(k, make)[Len(Scan(k, make))])
    BY <2>1, ScanIs DEF InUse
  <2>3. Len(Scan(k, make)) = 2 => InUse(Scan(k, make)[1])
    BY ScanIs DEF InUse
  <2> QED
    BY <1>1, <2>2, <2>3
<1>7. \A i \in 1..Len(queue.KBD) : InUse(queue.KBD[i])
  BY DEF InputTyped
<1>8. \A i \in 1..Len(queue.KBD \o Scan(k, make)) : InUse((queue.KBD \o Scan(k, make))[i])
  BY <1>1, <1>6, <1>7
<1> QED
  BY <1>2, <1>5, <1>8

\* A report: three bytes of the mouse.
Triple(n, b, s2, s3) ==
    <<[report |-> n, pos |-> 1, sync |-> TRUE, lb |-> b],
      [report |-> n, pos |-> 2, sync |-> s2, lb |-> s2],
      [report |-> n, pos |-> 3, sync |-> s3, lb |-> s3]>>

LEMMA ReportIs ==
    ASSUME InputTyped, NEW b \in BOOLEAN, NEW s2 \in PayloadSync, NEW s3 \in PayloadSync,
           Report(b, s2, s3)
    PROVE  /\ count.reports + 1 \in 1..MaxReports
           /\ Triple(count.reports + 1, b, s2, s3) \in Seq(MouseByte)
           /\ queue'.MOUSE = queue.MOUSE \o Triple(count.reports + 1, b, s2, s3)
           /\ queue'.KBD = queue.KBD
           /\ queue' \in [Source -> Seq(KbdByte) \cup Seq(MouseByte)]
           /\ queue'.MOUSE \in Seq(MouseByte)
<1>1. count.reports + 1 \in 1..MaxReports /\ s2 \in BOOLEAN /\ s3 \in BOOLEAN
  BY InputConstants DEF InputTyped, Report
<1>2. Triple(count.reports + 1, b, s2, s3) \in Seq(MouseByte)
  BY <1>1 DEF Triple, MouseByte
<1>3. queue' = [queue EXCEPT !["MOUSE"] = queue.MOUSE \o Triple(count.reports + 1, b, s2, s3)]
  BY DEF Report, Triple
<1>4. "MOUSE" \in Source /\ "KBD" \in Source \ {"MOUSE"}
  BY DEF Source
<1>5. queue.MOUSE \o Triple(count.reports + 1, b, s2, s3) \in Seq(MouseByte)
  BY <1>2 DEF InputTyped, TypeOK
<1>6. /\ queue'.MOUSE = queue.MOUSE \o Triple(count.reports + 1, b, s2, s3) /\ queue'.KBD = queue.KBD
      /\ queue' \in [Source -> Seq(KbdByte) \cup Seq(MouseByte)]
  <2> HIDE DEF Triple
  <2> QED
    BY <1>3, <1>4, <1>5, QueueChanges
<1> QED
  BY <1>1, <1>2, <1>5, <1>6

\* The controller takes a byte.
LEMMA ReceiveIs ==
    ASSUME InputTyped, NEW s \in Source, NEW err \in BOOLEAN, Receive(s, err)
    PROVE  /\ obf = <<>> /\ Len(obf') = 1 /\ obf'[1].aux = (s = "MOUSE") /\ obf'[1].err = err
           /\ obf'[1].data = Head(queue[s])
           /\ obf' \in Seq([aux : BOOLEAN, err : BOOLEAN, data : KbdByte \cup MouseByte])
           /\ queue[s] # <<>> /\ queue'[s] = Tail(queue[s])
           /\ \A t \in Source \ {s} : queue'[t] = queue[t]
           /\ queue' \in [Source -> Seq(KbdByte) \cup Seq(MouseByte)]
           /\ s = "KBD" => queue.KBD \in Seq(KbdByte) /\ Tail(queue.KBD) \in Seq(KbdByte)
                           /\ Head(queue.KBD) \in KbdByte
           /\ s = "MOUSE" => queue.MOUSE \in Seq(MouseByte) /\ Tail(queue.MOUSE) \in Seq(MouseByte)
                           /\ Head(queue.MOUSE) \in MouseByte
<1>1. /\ obf = <<>> /\ queue[s] # <<>>
      /\ obf' = <<[aux |-> s = "MOUSE", err |-> err, data |-> Head(queue[s])]>>
      /\ queue' = [queue EXCEPT ![s] = Tail(queue[s])]
  BY DEF Receive
<1>2. s \in {"KBD", "MOUSE"} /\ queue.KBD \in Seq(KbdByte) /\ queue.MOUSE \in Seq(MouseByte)
  BY DEF InputTyped, TypeOK, Source
<1>3. CASE s = "KBD"
  <2>1. Tail(queue.KBD) \in Seq(KbdByte) /\ Head(queue.KBD) \in KbdByte
    BY <1>1, <1>2, <1>3
  <2>2. /\ queue'[s] = Tail(queue[s])
        /\ \A t \in Source \ {s} : queue'[t] = queue[t]
        /\ queue' \in [Source -> Seq(KbdByte) \cup Seq(MouseByte)]
    BY <1>1, <1>3, <2>1, QueueChanges
  <2> QED
    BY <1>1, <1>2, <1>3, <2>1, <2>2
<1>4. CASE s = "MOUSE"
  <2>1. Tail(queue.MOUSE) \in Seq(MouseByte) /\ Head(queue.MOUSE) \in MouseByte
    BY <1>1, <1>2, <1>4
  <2>2. /\ queue'[s] = Tail(queue[s])
        /\ \A t \in Source \ {s} : queue'[t] = queue[t]
        /\ queue' \in [Source -> Seq(KbdByte) \cup Seq(MouseByte)]
    BY <1>1, <1>4, <2>1, QueueChanges
  <2> QED
    BY <1>1, <1>2, <1>4, <2>1, <2>2
<1> QED
  BY <1>2, <1>3, <1>4

\* The types are kept.
LEMMA InputTypedInv == Spec => []InputTyped
<1>1. Init => InputTyped
  <2> SUFFICES ASSUME Init PROVE InputTyped
    OBVIOUS
  <2>1. /\ held \subseteq Key /\ latest \subseteq held
        /\ queue \in [Source -> Seq(KbdByte) \cup Seq(MouseByte)]
        /\ queue.KBD = <<>> /\ queue.MOUSE = <<>>
        /\ obf = <<>> /\ irq \subseteq Source /\ todo \subseteq Source
        /\ last_kb_byte \in KbdByte /\ ms_data = <<>> /\ currPkt = <<>>
        /\ kbd_state \subseteq Control /\ movement \in [x : -1..1, y : -1..1]
        /\ unseen \subseteq Key \cup {BUTTON}
    BY DEF Init, Source, KbdByte
  <2>2. btn \in BOOLEAN /\ lastDoubleByte \in BOOLEAN /\ mouse_lb \in BOOLEAN /\ lb_held_down \in BOOLEAN
    BY Zenon DEF Init
  <2>3. count \in [strokes : Nat, reports : 0..MaxReports, errors : Nat, resets : Nat]
    BY InputConstants DEF Init
  <2> QED
    BY <2>1, <2>2, <2>3 DEF InputTyped, TypeOK
<1>2. InputTyped /\ [Next]_vars => InputTyped'
  <2> SUFFICES ASSUME InputTyped, [Next]_vars PROVE InputTyped'
    OBVIOUS
  <2>1. ASSUME NEW k \in Key, NEW make \in BOOLEAN, Stroke(k, make),
               held' \subseteq Key /\ latest' \subseteq held'
        PROVE  InputTyped'
    <3>1. count' \in [strokes : Nat, reports : 0..MaxReports, errors : Nat, resets : Nat]
      BY <2>1 DEF Stroke, InputTyped
    <3>2. unseen' \subseteq Key \cup {BUTTON} /\ queue'.MOUSE \in Seq(MouseByte)
      BY <2>1, StrokeIs DEF Stroke, InputTyped, TypeOK
    <3> QED
      BY <2>1, <3>1, <3>2, StrokeIs DEF Stroke, statics, InputTyped, TypeOK
  <2>2. ASSUME NEW k \in Key, Press(k) \/ Release(k) PROVE InputTyped'
    <3>1. held \subseteq Key /\ latest \subseteq held
      BY DEF InputTyped, TypeOK
    <3>2. held' \subseteq Key /\ latest' \subseteq held'
      BY <2>2, <3>1 DEF Press, Release
    <3> QED
      BY <2>1, <2>2, <3>2 DEF Press, Release
  <2>3. ASSUME NEW b \in BOOLEAN, NEW s2 \in PayloadSync, NEW s3 \in PayloadSync, Report(b, s2, s3)
        PROVE  InputTyped'
    <3>1. count' \in [strokes : Nat, reports : 0..MaxReports, errors : Nat, resets : Nat]
      <4>1. count' = [count EXCEPT !.reports = count.reports + 1]
        BY <2>3 DEF Report
      <4>2. count.reports + 1 \in 0..MaxReports
        <5>1. count.reports + 1 \in 1..MaxReports /\ MaxReports \in Nat
          BY <2>3, ReportIs, InputConstants
        <5> QED
          BY <5>1
      <4> QED
        BY <4>1, <4>2 DEF InputTyped
    <3>2. unseen' \subseteq Key \cup {BUTTON} /\ btn' \in BOOLEAN /\ queue'.KBD = queue.KBD
          /\ queue'.MOUSE \in Seq(MouseByte)
          /\ queue' \in [Source -> Seq(KbdByte) \cup Seq(MouseByte)]
      BY <2>3, ReportIs DEF Report, InputTyped, TypeOK
    <3> QED
      BY <2>3, <3>1, <3>2 DEF Report, statics, InputTyped, TypeOK
  <2>4. ASSUME NEW s \in Source, NEW err \in BOOLEAN, Receive(s, err) PROVE InputTyped'
    <3>1. count' \in [strokes : Nat, reports : 0..MaxReports, errors : Nat, resets : Nat]
      <4>1. count.errors \in Nat
        BY DEF InputTyped
      <4> DEFINE n == IF err THEN count.errors + 1 ELSE count.errors
      <4>2. n \in Nat
        BY <4>1
      <4>3. count' = [count EXCEPT !.errors = n]
        BY <2>4 DEF Receive
      <4> HIDE DEF n
      <4> QED
        BY <4>2, <4>3 DEF InputTyped
    <3>2. s \in {"KBD", "MOUSE"}
      BY DEF Source
    <3>3. /\ queue'.KBD \in Seq(KbdByte) /\ queue'.MOUSE \in Seq(MouseByte)
          /\ \A i \in 1..Len(queue'.KBD) : InUse(queue'.KBD[i])
          /\ (obf' # <<>> /\ ~obf'[1].aux) => InUse(obf'[1].data)
      <4>1. CASE s = "KBD"
        <5>1. queue'.KBD = Tail(queue.KBD) /\ queue'.MOUSE = queue.MOUSE /\ obf'[1].data = Head(queue.KBD)
              /\ queue.KBD # <<>>
          BY <2>4, <4>1, ReceiveIs DEF Source
        <5>2. queue.KBD \in Seq(KbdByte) /\ \A i \in 1..Len(queue.KBD) : InUse(queue.KBD[i])
          BY DEF InputTyped, TypeOK
        <5>3. Head(queue.KBD) = queue.KBD[1] /\ 1 \in 1..Len(queue.KBD)
              /\ Tail(queue.KBD) \in Seq(KbdByte)
              /\ \A i \in 1..Len(Tail(queue.KBD)) :
                   i + 1 \in 1..Len(queue.KBD) /\ Tail(queue.KBD)[i] = queue.KBD[i + 1]
          BY <5>1, <5>2
        <5>4. queue.MOUSE \in Seq(MouseByte)
          BY DEF InputTyped, TypeOK
        <5> QED
          BY <5>1, <5>2, <5>3, <5>4
      <4>2. CASE s = "MOUSE"
        <5>1. queue'.MOUSE = Tail(queue.MOUSE) /\ queue'.KBD = queue.KBD /\ obf'[1].aux
              /\ Tail(queue.MOUSE) \in Seq(MouseByte)
          BY <2>4, <4>2, ReceiveIs DEF Source
        <5> QED
          BY <5>1 DEF InputTyped, TypeOK
      <4> QED
        BY <3>2, <4>1, <4>2
    <3>4. /\ Len(obf') \in 0..1
          /\ \A i \in 1..Len(obf') : /\ obf'[i].aux \in BOOLEAN /\ obf'[i].err \in BOOLEAN
                                     /\ obf'[i].data \in IF obf'[i].aux THEN MouseByte ELSE KbdByte
      <4>1. Len(obf') = 1 /\ obf'[1].aux = (s = "MOUSE") /\ obf'[1].err = err
            /\ obf'[1].data = Head(queue[s])
        BY <2>4, ReceiveIs
      <4>2. obf'[1].aux \in BOOLEAN /\ obf'[1].err \in BOOLEAN
        BY <4>1, Zenon
      <4>3. s = "KBD" => ~obf'[1].aux /\ obf'[1].data \in KbdByte
        BY <2>4, <4>1, ReceiveIs
      <4>4. s = "MOUSE" => obf'[1].aux /\ obf'[1].data \in MouseByte
        BY <2>4, <4>1, ReceiveIs
      <4>5. obf'[1].data \in IF obf'[1].aux THEN MouseByte ELSE KbdByte
        BY <3>2, <4>3, <4>4
      <4>6. Len(obf') \in 0..1 /\ \A i \in 1..Len(obf') : i = 1
        BY <4>1
      <4> QED
        BY <4>2, <4>5, <4>6
    <3>5. irq' \subseteq Source
      BY <2>4 DEF Receive, InputTyped, TypeOK
    <3>6. /\ obf' \in Seq([aux : BOOLEAN, err : BOOLEAN, data : KbdByte \cup MouseByte])
          /\ queue' \in [Source -> Seq(KbdByte) \cup Seq(MouseByte)]
      BY <2>4, ReceiveIs
    <3>7. UNCHANGED <<user, todo, statics, movm>>
      BY <2>4 DEF Receive
    <3> QED
      BY <3>1, <3>3, <3>4, <3>5, <3>6, <3>7 DEF user, statics, movm, InputTyped, TypeOK
  <2>5. CASE interrupt_handler
    BY <2>5 DEF interrupt_handler, driver_receive, user, statics, movm, InputTyped, TypeOK
  <2>6. CASE handle_mouse_evt
    <3> DEFINE data == ms_collect(mouse_ih)
    <3>1. mouse_ih = <<>> \/ \E b \in MouseByte : mouse_ih = <<b>>
      BY DEF mouse_ih, InputTyped, TypeOK
    <3>2. ms_data \in Seq(MouseByte) /\ Len(ms_data) < 3
      BY DEF InputTyped, TypeOK
    <3>3. data \in Seq(MouseByte) /\ Len(data) <= 3
      <4>1. CASE mouse_ih = <<>>
        BY <4>1 DEF ms_collect
      <4>2. ASSUME NEW b \in MouseByte, mouse_ih = <<b>> PROVE data \in Seq(MouseByte) /\ Len(data) <= 3
        <5>1. data = <<>> \/ data = ms_data \o <<b>>
          BY <4>2 DEF ms_collect
        <5>2. ms_data \o <<b>> \in Seq(MouseByte) /\ Len(ms_data \o <<b>>) = Len(ms_data) + 1
          BY <3>2
        <5>3. <<>> \in Seq(MouseByte) /\ Len(<<>>) <= 3 /\ Len(ms_data) + 1 <= 3
          BY <3>2
        <5> HIDE DEF data
        <5> QED
          BY <5>1, <5>2, <5>3
      <4> QED
        BY <3>1, <4>1, <4>2
    <3>4. IF Len(data) = 3 THEN mouse_parse_data(data) /\ ms_data' = <<>>
          ELSE ms_data' = data /\ UNCHANGED <<currPkt, mouse_lb, lb_held_down>>
      BY <2>6 DEF handle_mouse_evt
    <3> HIDE DEF data
    <3>5. ms_data' \in Seq(MouseByte) /\ Len(ms_data') < 3 /\ currPkt' \in Seq(MouseByte)
          /\ Len(currPkt') \in {0, 3}
      <4>1. currPkt \in Seq(MouseByte) /\ Len(currPkt) \in {0, 3}
        BY DEF InputTyped, TypeOK
      <4>2. CASE Len(data) = 3
        BY <3>3, <3>4, <4>2 DEF mouse_parse_data
      <4>3. CASE Len(data) # 3
        BY <3>3, <3>4, <4>1, <4>3
      <4> QED
        BY <4>2, <4>3
    <3>6. mouse_lb' \in BOOLEAN /\ lb_held_down' \in BOOLEAN
      <4>1. Len(data) = 3 => data[1].lb \in BOOLEAN
        <5>1. Len(data) = 3 => data[1] \in MouseByte
          BY <3>3
        <5> QED
          BY <5>1 DEF MouseByte
      <4> QED
        BY <3>4, <4>1 DEF mouse_parse_data, InputTyped, TypeOK
    <3>7. /\ todo' \subseteq Source /\ obf' = <<>>
          /\ UNCHANGED <<user, queue, irq, last_kb_byte, lastDoubleByte, kbd_state, movement, unseen, count>>
      BY <2>6 DEF handle_mouse_evt, InputTyped, TypeOK
    <3> QED
      BY <3>5, <3>6, <3>7 DEF user, InputTyped, TypeOK
  <2>7. CASE handle_kbd_evt
    <3>1. kbc_ih = <<>> \/ \E b \in KbdByte : kbc_ih = <<b>> /\ InUse(b)
      BY DEF kbc_ih, InputTyped, TypeOK
    <3>2. last_kb_byte' \in KbdByte /\ lastDoubleByte' \in BOOLEAN
      <4>1. last_kb_byte' \in KbdByte
        <5>1. last_kb_byte' = IF kbc_ih = <<>> THEN 0 ELSE kbc_ih[1]
          BY <2>7 DEF handle_kbd_evt
        <5>2. kbc_ih # <<>> => kbc_ih[1] \in KbdByte
          BY <3>1
        <5> QED
          BY <5>1, <5>2 DEF KbdByte
      <4>2. lastDoubleByte' \in BOOLEAN
        BY <2>7 DEF handle_kbd_evt
      <4> QED
        BY <4>1, <4>2
    <3>3. kbd_state' \subseteq Control /\ movement' \in [x : -1..1, y : -1..1]
      <4>1. ASSUME kbc_ih # <<>>, kbc_ih[1] # KBC_DOUBLE_BYTE
            PROVE  kbd_state' \subseteq Control /\ movement' \in [x : -1..1, y : -1..1]
        <5>1. kbd_parse_data(kbc_ih[1]) /\ InUse(kbc_ih[1])
          BY <2>7, <3>1, <4>1 DEF handle_kbd_evt
        <5>2. kbd_control(kbc_ih[1] % KBC_BREAK_CODE) \subseteq Control
          BY <4>1, <5>1 DEF InUse, Affects
        <5>3. kbd_state' \subseteq Control
          BY <5>1, <5>2 DEF kbd_parse_data, kbd_state_after, InputTyped, TypeOK
        <5> QED
          BY <5>1, <5>3 DEF kbd_parse_data, movement_after, Axis
      <4> QED
        BY <2>7, <4>1 DEF handle_kbd_evt, InputTyped, TypeOK
    <3>4. /\ todo' = {} /\ obf' = <<>>
          /\ UNCHANGED <<user, queue, irq, ms_data, currPkt, mouse_lb, lb_held_down, unseen, count>>
      BY <2>7 DEF handle_kbd_evt
    <3> QED
      BY <3>2, <3>3, <3>4 DEF user, InputTyped, TypeOK
  <2>8. CASE MenuClick
    BY <2>8 DEF MenuClick, user, statics, InputTyped, TypeOK
  <2>9. CASE init_player_ctrls
    <3>1. count' \in [strokes : Nat, reports : 0..MaxReports, errors : Nat, resets : Nat]
      BY <2>9 DEF init_player_ctrls, InputTyped
    <3>2. /\ kbd_state' \subseteq Control /\ movement' \in [x : -1..1, y : -1..1]
          /\ unseen' \subseteq Key \cup {BUTTON}
      BY <2>9 DEF init_player_ctrls, InputTyped, TypeOK
    <3>3. mouse_lb' \in BOOLEAN /\ lb_held_down' \in BOOLEAN
      BY <2>9, Zenon DEF init_player_ctrls
    <3>4. UNCHANGED <<user, queue, obf, irq, todo, statics>>
      BY <2>9 DEF init_player_ctrls
    <3> QED
      BY <3>1, <3>2, <3>3, <3>4 DEF user, statics, InputTyped, TypeOK
  <2>10. CASE UNCHANGED vars
    BY <2>10 DEF vars, user, statics, movm, InputTyped, TypeOK
  <2> QED
    BY <2>2, <2>3, <2>4, <2>5, <2>6, <2>7, <2>8, <2>9, <2>10 DEF Next, Hardware
<1> QED
  BY <1>1, <1>2, PTL DEF Spec

KbdPending == obf # <<>> /\ ~obf[1].aux
MousePending == obf # <<>> /\ obf[1].aux

\* A full buffer has been notified, and only it.
Owned ==
    /\ obf = <<>> => irq = {} /\ todo = {}
    /\ obf # <<>> => irq = {} \/ todo = {}
    /\ KbdPending => irq \cup todo = {"KBD"}
    /\ MousePending => irq \cup todo = {"MOUSE"}
    /\ (obf # <<>> /\ obf[1].err) => ~Undamaged

\* Damaged bytes are counted for good.
LEMMA DamageStays == ASSUME InputTyped, [Next]_vars PROVE Undamaged' => Undamaged
<1>0. count.errors \in Nat /\ count \in [strokes : Nat, reports : 0..MaxReports, errors : Nat, resets : Nat]
  BY DEF InputTyped
<1>1. ASSUME NEW s \in Source, NEW err \in BOOLEAN, Receive(s, err) PROVE Undamaged' => Undamaged
  BY <1>0, <1>1 DEF Receive, Undamaged
<1>2. ASSUME NEW k \in Key, Press(k) \/ Release(k) PROVE Undamaged' => Undamaged
  BY <1>0, <1>2 DEF Press, Release, Stroke, Undamaged
<1>3. ASSUME NEW b, NEW s2, NEW s3, Report(b, s2, s3) PROVE Undamaged' => Undamaged
  BY <1>0, <1>3 DEF Report, Undamaged
<1>4. CASE init_player_ctrls
  BY <1>0, <1>4 DEF init_player_ctrls, Undamaged
<1>5. CASE interrupt_handler \/ handle_mouse_evt \/ handle_kbd_evt \/ MenuClick \/ UNCHANGED vars
  BY <1>5 DEF interrupt_handler, handle_mouse_evt, handle_kbd_evt, MenuClick, vars, Undamaged
<1> QED
  BY <1>1, <1>2, <1>3, <1>4, <1>5 DEF Next, Hardware

\* The buffer and the notifications.
LEMMA OwnedInv == Spec => [](InputTyped /\ Owned)
<1>1. Init => Owned
  BY DEF Init, Owned, KbdPending, MousePending
<1>2. InputTyped /\ Owned /\ [Next]_vars => Owned'
  <2> SUFFICES ASSUME InputTyped, Owned, [Next]_vars PROVE Owned'
    OBVIOUS
  <2>0. (obf' = obf /\ obf # <<>> /\ obf[1].err) => ~Undamaged'
    BY DamageStays DEF Owned
  <2>1. ASSUME NEW k \in Key, Press(k) \/ Release(k) PROVE Owned'
    BY <2>0, <2>1 DEF Press, Release, Stroke, Owned, KbdPending, MousePending
  <2>2. ASSUME NEW b, NEW s2, NEW s3, Report(b, s2, s3) PROVE Owned'
    BY <2>0, <2>2 DEF Report, Owned, KbdPending, MousePending
  <2>3. ASSUME NEW s \in Source, NEW err \in BOOLEAN, Receive(s, err) PROVE Owned'
    <3>1. /\ obf = <<>> /\ Len(obf') = 1 /\ obf'[1].aux = (s = "MOUSE") /\ obf'[1].err = err
          /\ irq' = irq \cup {s} /\ todo' = todo
      BY <2>3, ReceiveIs DEF Receive
    <3>2. irq = {} /\ todo = {}
      BY <3>1 DEF Owned
    <3>3. err => ~Undamaged'
      <4>1. count.errors \in Nat
        BY DEF InputTyped
      <4>2. err => count'.errors = count.errors + 1
        BY <2>3 DEF Receive, InputTyped
      <4> QED
        BY <4>1, <4>2 DEF Undamaged
    <3>4. s \in {"KBD", "MOUSE"}
      BY DEF Source
    <3>5. obf' # <<>> /\ (obf'[1].aux <=> s = "MOUSE") /\ (obf'[1].err <=> err)
      <4>1. obf' # <<>>
        BY <3>1
      <4>2. (obf'[1].aux <=> s = "MOUSE") /\ (obf'[1].err <=> err)
        BY <3>1, Zenon
      <4> QED
        BY <4>1, <4>2
    <3>6. irq' \cup todo' = {s} /\ todo' = {}
      BY <3>1, <3>2
    <3> QED
      BY <3>3, <3>4, <3>5, <3>6 DEF Owned, KbdPending, MousePending
  <2>4. CASE interrupt_handler
    BY <2>0, <2>4 DEF interrupt_handler, driver_receive, Owned, KbdPending, MousePending
  <2>5. CASE handle_mouse_evt
    <3>1. "MOUSE" \in todo /\ todo' = todo \ {"MOUSE"} /\ obf' = <<>> /\ irq' = irq
      BY <2>5 DEF handle_mouse_evt
    <3>2. irq = {} /\ todo = {"MOUSE"}
      <4>1. obf # <<>>
        BY <3>1 DEF Owned
      <4> QED
        BY <3>1, <4>1 DEF Owned, KbdPending, MousePending
    <3> QED
      BY <3>1, <3>2 DEF Owned, KbdPending, MousePending
  <2>6. CASE handle_kbd_evt
    <3>1. "KBD" \in todo /\ todo' = {} /\ obf' = <<>> /\ irq' = irq
      BY <2>6 DEF handle_kbd_evt
    <3> QED
      BY <3>1 DEF Owned, KbdPending, MousePending
  <2>7. CASE MenuClick \/ init_player_ctrls
    BY <2>0, <2>7 DEF MenuClick, init_player_ctrls, Owned, KbdPending, MousePending
  <2>8. CASE UNCHANGED vars
    BY <2>8 DEF vars, Owned, KbdPending, MousePending, Undamaged
  <2> QED
    BY <2>1, <2>2, <2>3, <2>4, <2>5, <2>6, <2>7, <2>8 DEF Next, Hardware
<1> QED
  BY <1>1, <1>2, InputTypedInv, PTL DEF Spec

\* The bytes of the mouse, from ms_data over the buffer to the queue.
Continues(a, b) ==
    /\ a.pos = 3 => b.pos = 1
    /\ a.pos # 3 => b.pos = a.pos + 1 /\ b.report = a.report
Marked(b) == /\ b.pos = 1 => b.sync
             /\ (b.sync /\ PayloadSync = {FALSE}) => b.pos = 1
Ordered(q) ==
    /\ \A i \in 1..Len(q) : Marked(q[i])
    /\ \A i \in 1..(Len(q) - 1) : Continues(q[i], q[i + 1])
    /\ q # <<>> => q[Len(q)].pos = 3
Begun(ms, b) ==
    /\ ms # <<>> => b.pos = Len(ms) + 1 /\ b.report = ms[1].report
    /\ (ms = <<>> /\ Undamaged) => b.pos = 1
Collected(ms) == \A i \in 1..Len(ms) : ms[i].pos = i /\ ms[i].report = ms[1].report
Reports ==
    /\ Ordered(queue.MOUSE) /\ Collected(ms_data) /\ WholePackets
    /\ MousePending =>
         /\ Marked(obf[1].data) /\ Begun(ms_data, obf[1].data)
         /\ queue.MOUSE = <<>> => obf[1].data.pos = 3
         /\ queue.MOUSE # <<>> => Continues(obf[1].data, queue.MOUSE[1])
    /\ ~MousePending =>
         /\ queue.MOUSE = <<>> => ms_data = <<>>
         /\ queue.MOUSE # <<>> => Begun(ms_data, queue.MOUSE[1])
Sorted == (Undamaged \/ PayloadSync = {FALSE}) => Reports

\* Three bytes after others.
LEMMA ThreeMore ==
    ASSUME NEW q \in Seq(MouseByte), NEW t \in Seq(MouseByte), Len(t) = 3
    PROVE  /\ q \o t \in Seq(MouseByte) /\ Len(q \o t) = Len(q) + 3
           /\ \A i \in 1..Len(q) : (q \o t)[i] = q[i]
           /\ (q \o t)[Len(q) + 1] = t[1] /\ (q \o t)[Len(q) + 2] = t[2]
           /\ (q \o t)[Len(q) + 3] = t[3]
<1>1. /\ q \o t \in Seq(MouseByte) /\ Len(q \o t) = Len(q) + 3 /\ Len(q) \in Nat
      /\ \A i \in 1..(Len(q) + 3) : (q \o t)[i] = IF i <= Len(q) THEN q[i] ELSE t[i - Len(q)]
  <2>1. /\ q \o t \in Seq(MouseByte) /\ Len(q \o t) = Len(q) + Len(t)
        /\ \A i \in 1..(Len(q) + Len(t)) : (q \o t)[i] = IF i <= Len(q) THEN q[i] ELSE t[i - Len(q)]
    BY ConcatProperties
  <2>2. Len(q) \in Nat
    OBVIOUS
  <2> QED
    BY <2>1, <2>2
<1> QED
  BY <1>1

\* r is q with one report more.
OneMore(q, r, b) ==
    /\ Ordered(r) /\ r \in Seq(MouseByte) /\ Len(r) = Len(q) + 3
    /\ \A i \in 1..Len(q) : r[i] = q[i]
    /\ r[Len(q) + 1].pos = 1 /\ r[Len(q) + 1].lb = b

\* What the mouse adds: one more report,
LEMMA OrderedReport ==
    ASSUME NEW q \in Seq(MouseByte), Ordered(q), NEW n \in 1..MaxReports, NEW b \in BOOLEAN,
           NEW s2 \in PayloadSync, NEW s3 \in PayloadSync, NEW r, r = q \o Triple(n, b, s2, s3)
    PROVE  OneMore(q, r, b)
<1> DEFINE t == Triple(n, b, s2, s3)
<1>1. /\ t \in Seq(MouseByte) /\ Len(t) = 3 /\ t[1].pos = 1 /\ t[1].sync /\ t[1].lb = b
      /\ t[2].pos = 2 /\ t[2].sync = s2 /\ t[3].pos = 3 /\ t[3].sync = s3
      /\ t[1].report = n /\ t[2].report = n /\ t[3].report = n
  <2>1. s2 \in BOOLEAN /\ s3 \in BOOLEAN
    BY InputConstants
  <2> QED
    BY <2>1 DEF Triple, MouseByte
<1> HIDE DEF t
<1>2. Marked(t[1]) /\ Marked(t[2]) /\ Marked(t[3])
  BY <1>1 DEF Marked
<1>3. Continues(t[1], t[2]) /\ Continues(t[2], t[3])
  BY <1>1 DEF Continues
<1>4. /\ r \in Seq(MouseByte) /\ Len(r) = Len(q) + 3
      /\ \A i \in 1..Len(q) : r[i] = q[i]
      /\ r[Len(q) + 1] = t[1] /\ r[Len(q) + 2] = t[2] /\ r[Len(q) + 3] = t[3]
  <2>1. r = q \o t
    BY DEF t
  <2> QED
    BY <1>1, <2>1, ThreeMore
<1>5. \A i \in 1..Len(r) : Marked(r[i])
  <2> SUFFICES ASSUME NEW i \in 1..Len(r) PROVE Marked(r[i])
    OBVIOUS
  <2>1. i \in 1..Len(q) \/ i = Len(q) + 1 \/ i = Len(q) + 2 \/ i = Len(q) + 3
    BY <1>4
  <2> QED
    BY <1>2, <1>4, <2>1 DEF Ordered
<1>6. \A i \in 1..(Len(r) - 1) : Continues(r[i], r[i + 1])
  <2> SUFFICES ASSUME NEW i \in 1..(Len(r) - 1) PROVE Continues(r[i], r[i + 1])
    OBVIOUS
  <2>1. CASE i \in 1..(Len(q) - 1)
    BY <1>4, <2>1 DEF Ordered
  <2>2. CASE i = Len(q) /\ q # <<>>
    BY <1>1, <1>4, <2>2 DEF Ordered, Continues
  <2>3. CASE i = Len(q) + 1
    BY <1>3, <1>4, <2>3
  <2>4. CASE i = Len(q) + 2
    BY <1>3, <1>4, <2>4
  <2> QED
    BY <1>4, <2>1, <2>2, <2>3, <2>4
<1>7. r[Len(q) + 1].pos = 1 /\ r[Len(q) + 1].lb = b
  BY <1>1, <1>4
<1>8. r[Len(r)].pos = 3
  BY <1>1, <1>4
<1>9. Ordered(r)
  BY <1>5, <1>6, <1>8, Zenon DEF Ordered
<1> QED
  BY <1>4, <1>7, <1>9, Zenon DEF OneMore

\* ... and what the controller takes: its first byte.
LEMMA OrderedTail ==
    ASSUME NEW q \in Seq(MouseByte), Ordered(q), q # <<>>
    PROVE  /\ Ordered(Tail(q)) /\ Marked(Head(q)) /\ Head(q) = q[1]
           /\ Tail(q) = <<>> => Head(q).pos = 3
           /\ Tail(q) # <<>> => Continues(Head(q), Tail(q)[1])
<1>1. /\ Len(Tail(q)) = Len(q) - 1 /\ Head(q) = q[1] /\ Len(q) >= 1 /\ Len(q) \in Nat
      /\ \A i \in 1..(Len(q) - 1) : Tail(q)[i] = q[i + 1]
  OBVIOUS
<1>2. Tail(q) = <<>> <=> Len(q) = 1
  <2>1. Tail(q) \in Seq(MouseByte)
    OBVIOUS
  <2>2. Tail(q) = <<>> <=> Len(Tail(q)) = 0
    BY <2>1, EmptySeq
  <2> QED
    BY <1>1, <2>2
<1>3. \A i \in 1..Len(Tail(q)) : Marked(Tail(q)[i])
  BY <1>1 DEF Ordered
<1>4. \A i \in 1..(Len(Tail(q)) - 1) : Continues(Tail(q)[i], Tail(q)[i + 1])
  BY <1>1 DEF Ordered
<1>5. Tail(q) # <<>> => Tail(q)[Len(Tail(q))].pos = 3
  BY <1>1, <1>2 DEF Ordered
<1>6. Marked(Head(q)) /\ (Tail(q) = <<>> => Head(q).pos = 3)
      /\ (Tail(q) # <<>> => Continues(Head(q), Tail(q)[1]))
  BY <1>1, <1>2 DEF Ordered
<1> QED
  BY <1>1, <1>3, <1>4, <1>5, <1>6 DEF Ordered

\* One more byte of a packet.
LEMMA CollectedMore ==
    ASSUME NEW ms \in Seq(MouseByte), NEW b \in MouseByte, Collected(ms), b.pos = Len(ms) + 1,
           ms # <<>> => b.report = ms[1].report, NEW data, data = ms \o <<b>>
    PROVE  /\ Collected(data) /\ Len(data) = Len(ms) + 1 /\ data # <<>>
           /\ data[1].report = b.report
           /\ data[1] = IF ms = <<>> THEN b ELSE ms[1]
<1>1. /\ Len(data) = Len(ms) + 1 /\ Len(ms) \in Nat /\ data[Len(ms) + 1] = b
      /\ \A i \in 1..Len(ms) : data[i] = ms[i]
  OBVIOUS
<1>2. ms = <<>> => data[1] = b
  BY <1>1
<1>3. ms # <<>> => data[1] = ms[1] /\ 1 \in 1..Len(ms)
  <2>1. ms # <<>> => Len(ms) # 0
    BY EmptySeq
  <2> QED
    BY <1>1, <2>1
<1>4. data[1].report = b.report
  BY <1>2, <1>3
<1>5. Collected(data)
  <2> SUFFICES ASSUME NEW i \in 1..Len(data)
               PROVE  data[i].pos = i /\ data[i].report = data[1].report
    BY DEF Collected
  <2>1. CASE i = Len(ms) + 1
    BY <1>1, <1>4, <2>1
  <2>2. CASE i \in 1..Len(ms)
    <3>1. ms # <<>>
      BY <2>2
    <3> QED
      BY <1>1, <1>3, <2>2, <3>1 DEF Collected
  <2> QED
    BY <1>1, <2>1, <2>2
<1>6. data # <<>>
  BY <1>1
<1> QED
  BY <1>1, <1>2, <1>3, <1>4, <1>5, <1>6

\* What handle_mouse_evt does with the byte it finds.
LEMMA MouseEvent ==
    ASSUME InputTyped, Owned, handle_mouse_evt
    PROVE  /\ MousePending /\ obf[1].data \in MouseByte /\ obf' = <<>> /\ queue' = queue
           /\ obf[1].err => ms_data' = <<>> /\ currPkt' = currPkt /\ mouse_lb' = mouse_lb
           /\ (~obf[1].err /\ ms_data = <<>> /\ ~obf[1].data.sync) =>
                 ms_data' = <<>> /\ currPkt' = currPkt /\ mouse_lb' = mouse_lb
           /\ (~obf[1].err /\ ~(ms_data = <<>> /\ ~obf[1].data.sync)) =>
                 LET data == ms_data \o <<obf[1].data>>
                 IN  IF Len(data) = 3
                       THEN ms_data' = <<>> /\ currPkt' = data /\ mouse_lb' = data[1].lb
                       ELSE ms_data' = data /\ currPkt' = currPkt /\ mouse_lb' = mouse_lb
<1>1. obf # <<>> /\ obf[1].aux
  BY DEF handle_mouse_evt, Owned, KbdPending, MousePending
<1>2. Len(obf) = 1 /\ obf[1].data \in MouseByte
  <2>1. Len(obf) # 0
    BY <1>1, EmptySeq DEF InputTyped
  <2>2. Len(obf) \in 0..1
    BY DEF InputTyped, TypeOK
  <2>3. Len(obf) = 1
    BY <2>1, <2>2
  <2>4. 1 \in 1..Len(obf)
    BY <2>3
  <2> QED
    BY <1>1, <2>3, <2>4 DEF InputTyped, TypeOK
<1>3. mouse_ih = IF obf[1].err THEN <<>> ELSE <<obf[1].data>>
  BY <1>1 DEF mouse_ih
<1> DEFINE b == obf[1].data
<1> HIDE DEF b
<1>4. ms_collect(<<>>) = <<>>
  BY DEF ms_collect
<1>5. ms_collect(<<b>>) = IF ms_data = <<>> /\ ~b.sync THEN <<>> ELSE ms_data \o <<b>>
  BY DEF ms_collect
<1>6. LET data == ms_collect(mouse_ih)
      IN  IF Len(data) = 3
            THEN mouse_parse_data(data) /\ ms_data' = <<>>
            ELSE ms_data' = data /\ UNCHANGED <<currPkt, mouse_lb, lb_held_down>>
  BY DEF handle_mouse_evt
<1>7. Len(<<>>) # 3
  OBVIOUS
<1> QED
  BY <1>1, <1>2, <1>3, <1>4, <1>5, <1>6, <1>7 DEF b, mouse_parse_data, MousePending, handle_mouse_evt

\* The mouse's bytes stay in order.
LEMMA SortedStep ==
    ASSUME InputTyped, InputTyped', Owned, Owned', Sorted, [Next]_vars
    PROVE  Sorted'
<1> SUFFICES ASSUME Undamaged' \/ PayloadSync = {FALSE} PROVE Reports'
  BY DEF Sorted
<1>0. Undamaged' => Undamaged
  BY DamageStays
<1>1. Reports
  BY <1>0 DEF Sorted
<1> DEFINE q == queue.MOUSE
<1>2. q \in Seq(MouseByte) /\ ms_data \in Seq(MouseByte) /\ Len(ms_data) < 3 /\ Len(ms_data) \in Nat
  BY DEF InputTyped, TypeOK
<1>3. CASE queue'.MOUSE = queue.MOUSE /\ UNCHANGED <<obf, ms_data, currPkt>>
  BY <1>0, <1>1, <1>3 DEF Reports, Begun, MousePending, WholePackets
<1>4. ASSUME NEW k \in Key, Press(k) \/ Release(k) PROVE Reports'
  BY <1>3, <1>4, StrokeIs DEF Press, Release, Stroke, statics
<1>5. ASSUME NEW b \in BOOLEAN, NEW s2 \in PayloadSync, NEW s3 \in PayloadSync, Report(b, s2, s3)
      PROVE  Reports'
  <2> DEFINE r == queue'.MOUSE
  <2>1. /\ Ordered(r) /\ r \in Seq(MouseByte) /\ Len(r) = Len(q) + 3
        /\ \A i \in 1..Len(q) : r[i] = q[i]
        /\ r[Len(q) + 1].pos = 1 /\ r[Len(q) + 1].lb = b
    <3>1. PICK n \in 1..MaxReports : r = q \o Triple(n, b, s2, s3)
      BY <1>5, ReportIs
    <3>2. Ordered(q)
      BY <1>1 DEF Reports
    <3>3. q \in Seq(MouseByte)
      BY <1>2
    <3> HIDE DEF q, r
    <3>4. OneMore(q, r, b)
      BY <3>1, <3>2, <3>3, OrderedReport, Zenon
    <3> QED
      BY <3>4 DEF OneMore
  <2>2. UNCHANGED <<obf, ms_data, currPkt>>
    BY <1>5 DEF Report, statics
  <2>3. q = <<>> => r[1].pos = 1
    BY <2>1
  <2>4. q # <<>> => r[1] = q[1]
    <3>1. q # <<>> => 1 \in 1..Len(q)
      BY <1>2, EmptySeq
    <3> QED
      BY <2>1, <3>1
  <2>5. r # <<>>
    BY <1>2, <2>1
  <2> HIDE DEF q, r
  <2>6. CASE MousePending
    <3>1. MousePending' /\ Marked(obf[1].data) /\ Begun(ms_data, obf[1].data)
      BY <1>1, <2>2, <2>6 DEF Reports, MousePending
    <3>2. q = <<>> => obf[1].data.pos = 3
      BY <1>1, <2>6 DEF Reports, q
    <3>3. q # <<>> => Continues(obf[1].data, q[1])
      BY <1>1, <2>6 DEF Reports, q
    <3>4. Continues(obf[1].data, r[1])
      BY <2>3, <2>4, <3>2, <3>3 DEF Continues
    <3>5. Begun(ms_data, obf[1].data)'
      BY <1>0, <2>2, <3>1 DEF Begun
    <3> QED
      BY <1>1, <2>1, <2>2, <2>5, <3>1, <3>4, <3>5 DEF Reports, WholePackets, r
  <2>7. CASE ~MousePending
    <3>1. ~MousePending'
      BY <2>2, <2>7 DEF MousePending
    <3>2. q = <<>> => ms_data = <<>>
      BY <1>1, <2>7 DEF Reports, q
    <3>3. q # <<>> => Begun(ms_data, q[1])
      BY <1>1, <2>7 DEF Reports, q
    <3>4. Begun(ms_data, r[1])
      BY <2>3, <2>4, <3>2, <3>3 DEF Begun
    <3> QED
      BY <1>0, <1>1, <2>1, <2>2, <2>5, <3>1, <3>4 DEF Reports, WholePackets, r, Begun
  <2> QED
    BY <2>6, <2>7
<1>6. ASSUME NEW s \in Source, NEW err \in BOOLEAN, Receive(s, err) PROVE Reports'
  <2>1. /\ obf = <<>> /\ Len(obf') = 1 /\ obf' # <<>> /\ (obf'[1].aux <=> s = "MOUSE")
        /\ obf'[1].data = Head(queue[s]) /\ queue[s] # <<>> /\ queue'[s] = Tail(queue[s])
        /\ \A t \in Source \ {s} : queue'[t] = queue[t]
    <3>1. /\ obf = <<>> /\ Len(obf') = 1 /\ obf'[1].aux = (s = "MOUSE")
          /\ obf'[1].data = Head(queue[s]) /\ queue[s] # <<>> /\ queue'[s] = Tail(queue[s])
          /\ \A t \in Source \ {s} : queue'[t] = queue[t]
      BY <1>6, ReceiveIs
    <3>2. obf' # <<>>
      BY <3>1
    <3>3. obf'[1].aux <=> s = "MOUSE"
      BY <3>1, Zenon
    <3> QED
      BY <3>1, <3>2, <3>3
  <2>2. UNCHANGED <<ms_data, currPkt>> /\ ~MousePending
    BY <1>6, <2>1 DEF Receive, statics, MousePending
  <2>3. CASE s = "KBD"
    <3>1. ~MousePending' /\ queue'.MOUSE = queue.MOUSE
      BY <2>1, <2>3 DEF MousePending, Source
    <3> QED
      BY <1>0, <1>1, <2>2, <3>1 DEF Reports, Begun, WholePackets
  <2>4. CASE s = "MOUSE"
    <3>1. /\ MousePending' /\ q # <<>> /\ obf'[1].data = Head(q) /\ queue'.MOUSE = Tail(q)
      BY <2>1, <2>4 DEF MousePending
    <3>2. Ordered(q)
      BY <1>1 DEF Reports
    <3>3. Begun(ms_data, q[1])
      BY <1>1, <2>2, <3>1 DEF Reports
    <3> HIDE DEF q
    <3>4. /\ Ordered(Tail(q)) /\ Marked(Head(q)) /\ Head(q) = q[1]
          /\ Tail(q) = <<>> => Head(q).pos = 3
          /\ Tail(q) # <<>> => Continues(Head(q), Tail(q)[1])
      BY <1>2, <3>1, <3>2, OrderedTail
    <3>5. Begun(ms_data, obf[1].data)'
      BY <1>0, <2>2, <3>1, <3>3, <3>4 DEF Begun
    <3> QED
      BY <1>1, <2>2, <3>1, <3>4, <3>5 DEF Reports, WholePackets
  <2> QED
    BY <2>3, <2>4 DEF Source
<1>7. CASE handle_mouse_evt
  <2> DEFINE b == obf[1].data
             data == ms_data \o <<b>>
  <2>1. /\ MousePending /\ b \in MouseByte /\ obf' = <<>> /\ queue' = queue
        /\ obf[1].err => ms_data' = <<>> /\ currPkt' = currPkt
        /\ (~obf[1].err /\ ms_data = <<>> /\ ~b.sync) => ms_data' = <<>> /\ currPkt' = currPkt
        /\ (~obf[1].err /\ ~(ms_data = <<>> /\ ~b.sync)) =>
              IF Len(data) = 3 THEN ms_data' = <<>> /\ currPkt' = data
                               ELSE ms_data' = data /\ currPkt' = currPkt
    BY <1>7, MouseEvent
  <2>2. /\ Ordered(q) /\ Collected(ms_data) /\ Marked(b) /\ Begun(ms_data, b)
        /\ q = <<>> => b.pos = 3
        /\ q # <<>> => Continues(b, q[1])
    BY <1>1, <2>1 DEF Reports
  <2>3. obf[1].err => ~Undamaged
    BY <2>1 DEF Owned, MousePending
  <2>4. ~MousePending' /\ queue'.MOUSE = q
    BY <2>1 DEF MousePending
  <2> HIDE DEF b, data, q
  <2>5. CASE obf[1].err \/ (ms_data = <<>> /\ ~b.sync)
    <3>1. ms_data' = <<>> /\ currPkt' = currPkt
      BY <2>1, <2>5
    <3>2. ~Undamaged
      BY <2>2, <2>3, <2>5 DEF Begun, Marked
    <3> QED
      BY <1>0, <1>1, <2>2, <2>4, <3>1, <3>2 DEF Reports, WholePackets, Begun, Collected
  <2>6. CASE ~(obf[1].err \/ (ms_data = <<>> /\ ~b.sync))
    <3>1. b.pos = Len(ms_data) + 1 /\ (ms_data # <<>> => b.report = ms_data[1].report)
      <4>1. CASE ms_data # <<>>
        BY <2>2, <4>1 DEF Begun
      <4>2. CASE ms_data = <<>>
        <5>1. b.sync /\ b.pos = 1
          BY <1>0, <2>2, <2>6, <4>2 DEF Begun, Marked
        <5> QED
          BY <4>2, <5>1
      <4> QED
        BY <4>1, <4>2
    <3>2. /\ Collected(data) /\ Len(data) = Len(ms_data) + 1 /\ data # <<>>
          /\ data[1].report = b.report
          /\ data[1] = IF ms_data = <<>> THEN b ELSE ms_data[1]
      <4>1. data = ms_data \o <<b>>
        BY DEF data
      <4>2. ms_data \in Seq(MouseByte) /\ b \in MouseByte /\ Collected(ms_data)
        BY <1>2, <2>1, <2>2
      <4> QED
        BY <3>1, <4>1, <4>2, CollectedMore, Zenon
    <3>3. CASE Len(data) = 3
      <4>1. ms_data' = <<>> /\ currPkt' = data /\ b.pos = 3
        BY <2>1, <2>6, <3>1, <3>2, <3>3
      <4>2. WholePackets'
        BY <3>2, <3>3, <4>1 DEF WholePackets, Collected
      <4>3. q # <<>> => q[1].pos = 1
        BY <2>2, <4>1 DEF Continues
      <4> QED
        BY <1>1, <2>2, <2>4, <4>1, <4>2, <4>3 DEF Reports, Begun, Collected
    <3>4. CASE Len(data) # 3
      <4>1. ms_data' = data /\ currPkt' = currPkt
        BY <2>1, <2>6, <3>4
      <4>2. b.pos # 3 /\ b.pos = Len(data)
        BY <1>2, <3>1, <3>2, <3>4
      <4>3. q # <<>> /\ q[1].pos = Len(data) + 1 /\ q[1].report = data[1].report
        BY <2>2, <3>2, <4>2 DEF Continues
      <4> QED
        BY <1>1, <2>2, <2>4, <3>2, <4>1, <4>3 DEF Reports, Begun, WholePackets
    <3> QED
      BY <3>3, <3>4
  <2> QED
    BY <2>5, <2>6
<1>8. CASE handle_kbd_evt
  <2>1. ~MousePending /\ ~MousePending' /\ queue' = queue /\ UNCHANGED <<ms_data, currPkt>>
    BY <1>8 DEF handle_kbd_evt, Owned, MousePending, KbdPending
  <2> QED
    BY <1>0, <1>1, <2>1 DEF Reports, Begun, WholePackets
<1>9. CASE interrupt_handler \/ MenuClick \/ init_player_ctrls \/ UNCHANGED vars
  BY <1>3, <1>9 DEF interrupt_handler, MenuClick, init_player_ctrls, statics, vars
<1> QED
  BY <1>4, <1>5, <1>6, <1>7, <1>8, <1>9 DEF Next, Hardware

\* What the keyboard's bytes on their way make of a control: st is kbd_state.
Parsed(b, st) ==
    IF b = KBC_DOUBLE_BYTE THEN st
    ELSE IF b < KBC_BREAK_CODE THEN st \cup kbd_control(b % KBC_BREAK_CODE)
    ELSE st \ kbd_control(b % KBC_BREAK_CODE)
On(q, st, c) ==
    \/ \E i \in 1..Len(q) : /\ Affects(q[i], c) /\ q[i] < KBC_BREAK_CODE
                            /\ \A j \in (i + 1)..Len(q) : ~Affects(q[j], c)
    \/ c \in st /\ \A i \in 1..Len(q) : ~Affects(q[i], c)
Known == IF KbdPending THEN Parsed(obf[1].data, kbd_state) ELSE kbd_state
WillBeOn(c) == On(queue.KBD, Known, c)

\* No byte: no change.
LEMMA OnEmpty == ASSUME NEW st, NEW c PROVE On(<<>>, st, c) <=> c \in st
BY DEF On

\* The first byte is parsed.
LEMMA OnTail ==
    ASSUME NEW q \in Seq(KbdByte), q # <<>>, NEW st, NEW c
    PROVE  On(Tail(q), Parsed(Head(q), st), c) <=> On(q, st, c)
<1> DEFINE t == Tail(q)
           h == Head(q)
<1>1. /\ h = q[1] /\ h \in KbdByte /\ Len(t) = Len(q) - 1 /\ Len(q) \in Nat /\ Len(q) >= 1
      /\ \A i \in 1..Len(t) : t[i] = q[i + 1]
  OBVIOUS
<1>2. c \in Parsed(h, st) <=> IF Affects(h, c) THEN h < KBC_BREAK_CODE ELSE c \in st
  BY DEF Parsed, Affects
<1> HIDE DEF t, h
<1>3. (\A i \in 1..Len(q) : ~Affects(q[i], c)) <=> (~Affects(h, c) /\ \A i \in 1..Len(t) : ~Affects(t[i], c))
  <2>1. ASSUME \A i \in 1..Len(q) : ~Affects(q[i], c)
        PROVE  ~Affects(h, c) /\ \A i \in 1..Len(t) : ~Affects(t[i], c)
    BY <1>1, <2>1
  <2>2. ASSUME ~Affects(h, c), \A i \in 1..Len(t) : ~Affects(t[i], c), NEW i \in 1..Len(q)
        PROVE  ~Affects(q[i], c)
    <3>1. i = 1 \/ (i - 1 \in 1..Len(t) /\ q[i] = t[i - 1])
      BY <1>1
    <3> QED
      BY <1>1, <2>2, <3>1
  <2> QED
    BY <2>1, <2>2
<1>4. ASSUME On(t, Parsed(h, st), c) PROVE On(q, st, c)
  <2>1. CASE c \in Parsed(h, st) /\ \A i \in 1..Len(t) : ~Affects(t[i], c)
    <3>1. CASE Affects(h, c)
      <4>1. 1 \in 1..Len(q) /\ Affects(q[1], c) /\ q[1] < KBC_BREAK_CODE
        BY <1>1, <1>2, <2>1, <3>1
      <4>2. \A j \in (1 + 1)..Len(q) : ~Affects(q[j], c)
        <5> SUFFICES ASSUME NEW j \in (1 + 1)..Len(q) PROVE ~Affects(q[j], c)
          OBVIOUS
        <5>1. j - 1 \in 1..Len(t) /\ t[j - 1] = q[j]
          BY <1>1
        <5> QED
          BY <2>1, <5>1
      <4> QED
        BY <4>1, <4>2 DEF On
    <3>2. CASE ~Affects(h, c)
      BY <1>2, <1>3, <2>1, <3>2 DEF On
    <3> QED
      BY <3>1, <3>2
  <2>2. ASSUME NEW i \in 1..Len(t), Affects(t[i], c), t[i] < KBC_BREAK_CODE,
               \A j \in (i + 1)..Len(t) : ~Affects(t[j], c)
        PROVE  On(q, st, c)
    <3>1. i + 1 \in 1..Len(q) /\ Affects(q[i + 1], c) /\ q[i + 1] < KBC_BREAK_CODE
      BY <1>1, <2>2
    <3>2. \A j \in ((i + 1) + 1)..Len(q) : ~Affects(q[j], c)
      <4> SUFFICES ASSUME NEW j \in ((i + 1) + 1)..Len(q) PROVE ~Affects(q[j], c)
        OBVIOUS
      <4>1. j - 1 \in (i + 1)..Len(t) /\ j - 1 \in 1..Len(t) /\ t[j - 1] = q[j]
        BY <1>1
      <4> QED
        BY <2>2, <4>1
    <3> QED
      BY <3>1, <3>2 DEF On
  <2> QED
    BY <1>4, <2>1, <2>2 DEF On
<1>5. ASSUME On(q, st, c) PROVE On(t, Parsed(h, st), c)
  <2>1. CASE c \in st /\ \A i \in 1..Len(q) : ~Affects(q[i], c)
    BY <1>2, <1>3, <2>1 DEF On
  <2>2. ASSUME NEW i \in 1..Len(q), Affects(q[i], c), q[i] < KBC_BREAK_CODE,
               \A j \in (i + 1)..Len(q) : ~Affects(q[j], c)
        PROVE  On(t, Parsed(h, st), c)
    <3>1. CASE i = 1
      <4>1. c \in Parsed(h, st)
        BY <1>1, <1>2, <2>2, <3>1
      <4>2. \A j \in 1..Len(t) : ~Affects(t[j], c)
        BY <1>1, <2>2, <3>1
      <4> QED
        BY <4>1, <4>2 DEF On
    <3>2. CASE i # 1
      <4>1. i - 1 \in 1..Len(t) /\ Affects(t[i - 1], c) /\ t[i - 1] < KBC_BREAK_CODE
        BY <1>1, <2>2, <3>2
      <4>2. \A j \in ((i - 1) + 1)..Len(t) : ~Affects(t[j], c)
        <5> SUFFICES ASSUME NEW j \in ((i - 1) + 1)..Len(t) PROVE ~Affects(t[j], c)
          OBVIOUS
        <5>1. j + 1 \in (i + 1)..Len(q) /\ t[j] = q[j + 1]
          BY <1>1
        <5> QED
          BY <2>2, <5>1
      <4> QED
        BY <4>1, <4>2 DEF On
    <3> QED
      BY <3>1, <3>2
  <2> QED
    BY <1>5, <2>1, <2>2 DEF On
<1> QED
  BY <1>4, <1>5 DEF t, h

\* One byte more.
LEMMA OnAppend ==
    ASSUME NEW q \in Seq(KbdByte), NEW b \in KbdByte, NEW st, NEW c
    PROVE  On(q \o <<b>>, st, c) <=> IF Affects(b, c) THEN b < KBC_BREAK_CODE ELSE On(q, st, c)
<1> DEFINE r == q \o <<b>>
<1>1. /\ Len(r) = Len(q) + 1 /\ Len(q) \in Nat /\ r[Len(q) + 1] = b
      /\ \A i \in 1..Len(q) : r[i] = q[i]
  OBVIOUS
<1> HIDE DEF r
<1>2. CASE Affects(b, c) /\ b < KBC_BREAK_CODE
  <2>1. Len(r) \in 1..Len(r) /\ Affects(r[Len(r)], c) /\ r[Len(r)] < KBC_BREAK_CODE
        /\ \A j \in (Len(r) + 1)..Len(r) : ~Affects(r[j], c)
    BY <1>1, <1>2
  <2> QED
    BY <1>2, <2>1 DEF On, r
<1>3. CASE Affects(b, c) /\ ~(b < KBC_BREAK_CODE)
  <2>1. Len(r) \in 1..Len(r) /\ Affects(r[Len(r)], c) /\ ~(r[Len(r)] < KBC_BREAK_CODE)
    BY <1>1, <1>3
  <2>2. \A i \in 1..Len(r) : i = Len(r) \/ Len(r) \in (i + 1)..Len(r)
    BY <1>1
  <2>3. ~On(r, st, c)
    BY <2>1, <2>2 DEF On
  <2> QED
    BY <1>3, <2>3 DEF r
<1>4. CASE ~Affects(b, c)
  <2>1. ASSUME On(q, st, c) PROVE On(r, st, c)
    <3>1. CASE c \in st /\ \A i \in 1..Len(q) : ~Affects(q[i], c)
      <4>1. \A i \in 1..Len(r) : ~Affects(r[i], c)
        <5> SUFFICES ASSUME NEW i \in 1..Len(r) PROVE ~Affects(r[i], c)
          OBVIOUS
        <5>1. i \in 1..Len(q) \/ i = Len(q) + 1
          BY <1>1
        <5> QED
          BY <1>1, <1>4, <3>1, <5>1
      <4> QED
        BY <3>1, <4>1 DEF On
    <3>2. ASSUME NEW i \in 1..Len(q), Affects(q[i], c), q[i] < KBC_BREAK_CODE,
                 \A j \in (i + 1)..Len(q) : ~Affects(q[j], c)
          PROVE  On(r, st, c)
      <4>1. i \in 1..Len(r) /\ Affects(r[i], c) /\ r[i] < KBC_BREAK_CODE
        BY <1>1, <3>2
      <4>2. \A j \in (i + 1)..Len(r) : ~Affects(r[j], c)
        <5> SUFFICES ASSUME NEW j \in (i + 1)..Len(r) PROVE ~Affects(r[j], c)
          OBVIOUS
        <5>1. (j \in (i + 1)..Len(q) /\ r[j] = q[j]) \/ j = Len(q) + 1
          BY <1>1
        <5> QED
          BY <1>1, <1>4, <3>2, <5>1
      <4> QED
        BY <4>1, <4>2 DEF On
    <3> QED
      BY <2>1, <3>1, <3>2 DEF On
  <2>2. ASSUME On(r, st, c) PROVE On(q, st, c)
    <3>1. CASE c \in st /\ \A i \in 1..Len(r) : ~Affects(r[i], c)
      <4>1. \A i \in 1..Len(q) : ~Affects(q[i], c)
        BY <1>1, <3>1
      <4> QED
        BY <3>1, <4>1 DEF On
    <3>2. ASSUME NEW i \in 1..Len(r), Affects(r[i], c), r[i] < KBC_BREAK_CODE,
                 \A j \in (i + 1)..Len(r) : ~Affects(r[j], c)
          PROVE  On(q, st, c)
      <4>1. i \in 1..Len(q) /\ r[i] = q[i]
        BY <1>1, <1>4, <3>2
      <4>2. \A j \in (i + 1)..Len(q) : ~Affects(q[j], c)
        BY <1>1, <3>2
      <4> QED
        BY <3>2, <4>1, <4>2 DEF On
    <3> QED
      BY <2>2, <3>1, <3>2 DEF On
  <2> QED
    BY <1>4, <2>1, <2>2 DEF r
<1> QED
  BY <1>2, <1>3, <1>4

\* The last byte of a stroke.
LEMMA ByteOfKey ==
    ASSUME NEW k \in Key, NEW make \in BOOLEAN
    PROVE  KeyCode(k) + (IF make THEN 0 ELSE KBC_BREAK_CODE) \in KbdByte
<1>1. KeyCode(k) \in 1..127
  BY KeyCodes
<1> QED
  BY <1>1 DEF KBC_BREAK_CODE, KbdByte

\* A stroke of a key sets what it controls, and leaves the rest.
LEMMA OnStroke ==
    ASSUME NEW q \in Seq(KbdByte), NEW k \in Key, NEW make \in BOOLEAN, NEW st, NEW c
    PROVE  On(q \o Scan(k, make), st, c) <=> IF c \in ControlOf(k) THEN make ELSE On(q, st, c)
<1> DEFINE b == KeyCode(k) + (IF make THEN 0 ELSE KBC_BREAK_CODE)
<1>1. Scan(k, make) = (IF k >= Prefix THEN <<KBC_DOUBLE_BYTE>> ELSE <<>>) \o <<b>>
  BY DEF Scan
<1>2. /\ b \in KbdByte
      /\ Affects(b, c) <=> c \in ControlOf(k)
      /\ Affects(b, c) => (b < KBC_BREAK_CODE <=> make)
  <2>2. b \in KbdByte
    BY ByteOfKey
  <2>3. Scan(k, make)[Len(Scan(k, make))] = b
    <3> HIDE DEF b
    <3> QED
      BY <1>1
  <2> HIDE DEF b
  <2> QED
    BY <2>2, <2>3, ScanIs
<1>3. KBC_DOUBLE_BYTE \in KbdByte /\ ~Affects(KBC_DOUBLE_BYTE, c)
  BY DEF KBC_DOUBLE_BYTE, KbdByte, Affects
<1> HIDE DEF b
<1>4. CASE k >= Prefix
  <2>1. q \o Scan(k, make) = (q \o <<KBC_DOUBLE_BYTE>>) \o <<b>>
    <3>1. <<KBC_DOUBLE_BYTE>> \in Seq(KbdByte) /\ <<b>> \in Seq(KbdByte)
      BY <1>2, <1>3
    <3> QED
      BY <1>1, <1>4, <3>1, ConcatAssociative
  <2>2. q \o <<KBC_DOUBLE_BYTE>> \in Seq(KbdByte)
    BY <1>3
  <2>3. On(q \o <<KBC_DOUBLE_BYTE>>, st, c) <=> On(q, st, c)
    BY <1>3, OnAppend
  <2>4. On((q \o <<KBC_DOUBLE_BYTE>>) \o <<b>>, st, c) <=>
          IF Affects(b, c) THEN b < KBC_BREAK_CODE ELSE On(q \o <<KBC_DOUBLE_BYTE>>, st, c)
    <3> DEFINE p == q \o <<KBC_DOUBLE_BYTE>>
    <3>1. p \in Seq(KbdByte) /\ b \in KbdByte
      BY <1>2, <2>2
    <3> HIDE DEF p
    <3>2. On(p \o <<b>>, st, c) <=> IF Affects(b, c) THEN b < KBC_BREAK_CODE ELSE On(p, st, c)
      BY <3>1, OnAppend
    <3> QED
      BY <3>2 DEF p
  <2> QED
    BY <1>2, <2>1, <2>3, <2>4
<1>5. CASE ~(k >= Prefix)
  <2>1. q \o Scan(k, make) = q \o <<b>>
    <3>1. <<>> \o <<b>> = <<b>>
      OBVIOUS
    <3> QED
      BY <1>1, <1>5, <3>1
  <2>2. On(q \o <<b>>, st, c) <=> IF Affects(b, c) THEN b < KBC_BREAK_CODE ELSE On(q, st, c)
    BY <1>2, OnAppend
  <2> QED
    BY <1>2, <2>1, <2>2
<1> QED
  BY <1>4, <1>5

\* Fewer controls on, no more of them afterwards.
LEMMA OnFewer ==
    ASSUME NEW q, NEW st, NEW s2, s2 \subseteq st, NEW c, On(q, s2, c)
    PROVE  On(q, st, c)
BY DEF On

\* What handle_kbd_evt does with the byte it finds.
LEMMA KbdEvent ==
    ASSUME InputTyped, Owned, handle_kbd_evt, Undamaged
    PROVE  /\ KbdPending /\ obf' = <<>> /\ queue' = queue
           /\ kbd_state' = Parsed(obf[1].data, kbd_state)
           /\ \/ UNCHANGED <<kbd_state, movement>>
              \/ movement' = [x |-> Axis(kbd_state', "x_pos", "x_neg"), y |-> Axis(kbd_state', "y_pos", "y_neg")]
<1>1. obf # <<>> /\ ~obf[1].aux /\ ~obf[1].err
  BY DEF handle_kbd_evt, Owned, KbdPending, MousePending
<1>2. kbc_ih = <<obf[1].data>>
  BY <1>1 DEF kbc_ih
<1> DEFINE b == obf[1].data
<1> HIDE DEF b
<1>3. kbc_ih # <<>> /\ kbc_ih[1] = b
  BY <1>2 DEF b
<1>4. CASE b = KBC_DOUBLE_BYTE
  <2>1. UNCHANGED <<kbd_state, movement>>
    BY <1>3, <1>4 DEF handle_kbd_evt
  <2> QED
    BY <1>1, <1>4, <2>1 DEF b, Parsed, handle_kbd_evt, KbdPending
<1>5. CASE b # KBC_DOUBLE_BYTE
  <2>1. kbd_parse_data(b)
    BY <1>3, <1>5 DEF handle_kbd_evt
  <2>2. kbd_state' = Parsed(b, kbd_state)
    BY <1>5, <2>1 DEF kbd_parse_data, kbd_state_after, Parsed
  <2>3. movement' = [x |-> Axis(kbd_state', "x_pos", "x_neg"), y |-> Axis(kbd_state', "y_pos", "y_neg")]
    BY <2>1 DEF kbd_parse_data, movement_after
  <2> QED
    BY <1>1, <2>2, <2>3 DEF b, handle_kbd_evt, KbdPending
<1> QED
  BY <1>4, <1>5

\* What the keyboard's bytes will have made of the controls changes with a stroke,
LEMMA StrokeTells ==
    ASSUME InputTyped, NEW k \in Key, NEW make \in BOOLEAN, Stroke(k, make), NEW c
    PROVE  WillBeOn(c)' <=> IF c \in ControlOf(k) THEN make ELSE WillBeOn(c)
<1>1. queue'.KBD = queue.KBD \o Scan(k, make) /\ queue.KBD \in Seq(KbdByte)
  BY StrokeIs DEF InputTyped, TypeOK
<1>2. Known' = Known
  BY DEF Known, KbdPending, Stroke
<1> DEFINE q == queue.KBD
           st == Known
<1>3. q \in Seq(KbdByte)
  BY <1>1
<1>4. WillBeOn(c)' <=> On(q \o Scan(k, make), st, c)
  BY <1>1, <1>2 DEF WillBeOn
<1>5. WillBeOn(c) <=> On(q, st, c)
  BY DEF WillBeOn
<1> HIDE DEF q, st
<1>6. On(q \o Scan(k, make), st, c) <=> IF c \in ControlOf(k) THEN make ELSE On(q, st, c)
  BY <1>3, OnStroke
<1> QED
  BY <1>4, <1>5, <1>6

\* not when a byte moves on,
LEMMA MovingOnTellsNothing ==
    ASSUME InputTyped, Owned, Undamaged', [Next]_vars, NEW c
    PROVE  \/ \E k \in Key : Press(k) \/ Release(k)
           \/ init_player_ctrls
           \/ WillBeOn(c)' <=> WillBeOn(c)
<1>0. Undamaged
  BY DamageStays
<1>1. ASSUME queue'.KBD = queue.KBD, UNCHANGED <<obf, kbd_state>> PROVE WillBeOn(c)' <=> WillBeOn(c)
  BY <1>1 DEF WillBeOn, Known, KbdPending
<1>2. ASSUME NEW s \in Source, NEW err \in BOOLEAN, Receive(s, err) PROVE WillBeOn(c)' <=> WillBeOn(c)
  <2>1. /\ obf = <<>> /\ Len(obf') = 1 /\ obf'[1].aux = (s = "MOUSE") /\ obf'[1].data = Head(queue[s])
        /\ queue[s] # <<>> /\ queue'[s] = Tail(queue[s])
        /\ \A t \in Source \ {s} : queue'[t] = queue[t] /\ kbd_state' = kbd_state
    BY <1>2, ReceiveIs DEF Receive, movm
  <2>2. obf' # <<>> /\ ~KbdPending
    BY <2>1 DEF KbdPending
  <2>3. CASE s = "MOUSE"
    <3>1. queue'.KBD = queue.KBD /\ ~KbdPending' /\ kbd_state' = kbd_state
      BY <2>1, <2>3, <1>2 DEF Source, KbdPending, Receive, movm
    <3> QED
      BY <2>2, <3>1 DEF WillBeOn, Known
  <2>4. CASE s = "KBD"
    <3> DEFINE q == queue.KBD
               st == kbd_state
    <3>1. KbdPending'
      BY <2>1, <2>2, <2>4 DEF KbdPending
    <3>2. Known' = Parsed(Head(q), st)
      BY <1>2, <2>1, <2>4, <3>1 DEF Known, Receive, movm
    <3>3. Known = st
      BY <2>2 DEF Known
    <3>4. q \in Seq(KbdByte) /\ q # <<>>
      BY <2>1, <2>4 DEF InputTyped, TypeOK
    <3>5. WillBeOn(c)' <=> On(Tail(q), Parsed(Head(q), st), c)
      BY <2>1, <2>4, <3>2 DEF WillBeOn
    <3>6. WillBeOn(c) <=> On(q, st, c)
      BY <3>3 DEF WillBeOn
    <3> HIDE DEF q, st
    <3> QED
      BY <3>4, <3>5, <3>6, OnTail
  <2> QED
    BY <1>2, <2>3, <2>4 DEF Source
<1>3. CASE handle_kbd_evt
  <2>1. /\ KbdPending /\ obf' = <<>> /\ queue' = queue /\ kbd_state' = Parsed(obf[1].data, kbd_state)
    BY <1>0, <1>3, KbdEvent
  <2>2. ~KbdPending'
    BY <2>1 DEF KbdPending
  <2>3. Known' = Known
    BY <2>1, <2>2 DEF Known
  <2> QED
    BY <2>1, <2>3 DEF WillBeOn
<1>4. CASE handle_mouse_evt
  <2>1. MousePending /\ obf' = <<>> /\ queue' = queue /\ kbd_state' = kbd_state
    BY <1>4, MouseEvent DEF handle_mouse_evt
  <2>2. ~KbdPending' /\ ~KbdPending
    BY <2>1 DEF KbdPending, MousePending
  <2> QED
    BY <2>1, <2>2 DEF WillBeOn, Known
<1>5. ASSUME NEW b \in BOOLEAN, NEW s2 \in PayloadSync, NEW s3 \in PayloadSync, Report(b, s2, s3)
      PROVE  WillBeOn(c)' <=> WillBeOn(c)
  <2>1. queue'.KBD = queue.KBD
    BY <1>5, ReportIs
  <2>2. UNCHANGED <<obf, kbd_state>>
    BY <1>5 DEF Report
  <2> QED
    BY <1>1, <2>1, <2>2
<1>6. CASE interrupt_handler \/ MenuClick \/ UNCHANGED vars
  BY <1>1, <1>6 DEF interrupt_handler, MenuClick, movm, vars
<1> QED
  BY <1>2, <1>3, <1>4, <1>5, <1>6 DEF Next, Hardware

\* and init_player_ctrls turns nothing on.
LEMMA ResetTells ==
    ASSUME init_player_ctrls, NEW c, WillBeOn(c)'
    PROVE  WillBeOn(c)
<1>1. queue' = queue /\ obf' = obf /\ kbd_state' = {}
  BY DEF init_player_ctrls
<1>2. Known' \subseteq Known
  BY <1>1 DEF Known, KbdPending, Parsed
<1>3. On(queue.KBD, Known', c)
  BY <1>1 DEF WillBeOn
<1> QED
  BY <1>2, <1>3, OnFewer DEF WillBeOn

\* No two keys in use share a control of the movement.
AxisControl == {"x_pos", "x_neg", "y_pos", "y_neg"}
AxisKeysApart ==
    \A k, l \in Key : ControlOf(k) \cap ControlOf(l) \cap AxisControl # {} => k = l

\* What will be on has its key; the keys held move the player; and so he moves.
KeysFollow ==
    /\ Undamaged => \A c : WillBeOn(c) => \E k \in held : c \in ControlOf(k)
    /\ (Undamaged /\ AxisKeysApart) =>
         \A k \in held \ unseen : \A c \in ControlOf(k) \cap AxisControl : WillBeOn(c)
    /\ movement = [x |-> Axis(kbd_state, "x_pos", "x_neg"), y |-> Axis(kbd_state, "y_pos", "y_neg")]

\* The controls follow the keys, in every step.
LEMMA KeysFollowStep ==
    ASSUME InputTyped, Owned, KeysFollow, [Next]_vars
    PROVE  KeysFollow'
<1>0. Undamaged' => Undamaged
  BY DamageStays
<1>1. movement' = [x |-> Axis(kbd_state', "x_pos", "x_neg"), y |-> Axis(kbd_state', "y_pos", "y_neg")]
  <2>1. CASE UNCHANGED <<kbd_state, movement>>
    BY <2>1 DEF KeysFollow
  <2>2. CASE handle_kbd_evt
    <3>1. \/ UNCHANGED <<kbd_state, movement>>
          \/ movement' = [x |-> Axis(kbd_state', "x_pos", "x_neg"), y |-> Axis(kbd_state', "y_pos", "y_neg")]
      BY <2>2 DEF handle_kbd_evt, kbd_parse_data, movement_after
    <3> QED
      BY <2>1, <3>1
  <2>3. CASE init_player_ctrls
    BY <2>3 DEF init_player_ctrls, Axis
  <2>4. \/ UNCHANGED <<kbd_state, movement>> \/ handle_kbd_evt \/ init_player_ctrls
    BY DEF Next, Hardware, Press, Release, Stroke, Report, Receive, interrupt_handler, handle_mouse_evt,
           MenuClick, movm, vars
  <2> QED
    BY <2>1, <2>2, <2>3, <2>4
<1>2. ASSUME Undamaged', NEW c, WillBeOn(c)' PROVE \E k \in held' : c \in ControlOf(k)
  <2>1. WillBeOn(c) => \E k \in held : c \in ControlOf(k)
    BY <1>0, <1>2 DEF KeysFollow
  <2>2. ASSUME NEW k \in Key, Press(k) PROVE \E l \in held' : c \in ControlOf(l)
    <3>1. Stroke(k, TRUE) /\ held' = held \cup {k}
      BY <2>2 DEF Press
    <3>2. c \in ControlOf(k) \/ WillBeOn(c)
      BY <1>2, <3>1, StrokeTells
    <3> QED
      BY <2>1, <3>1, <3>2
  <2>3. ASSUME NEW k \in Key, Release(k) PROVE \E l \in held' : c \in ControlOf(l)
    <3>1. Stroke(k, FALSE) /\ held' = held \ {k}
      BY <2>3 DEF Release
    <3>2. c \notin ControlOf(k) /\ WillBeOn(c)
      BY <1>2, <3>1, StrokeTells
    <3> QED
      BY <2>1, <3>1, <3>2
  <2>4. CASE init_player_ctrls
    <3>1. held' = held
      BY <2>4 DEF init_player_ctrls, user
    <3> QED
      BY <1>2, <2>1, <2>4, <3>1, ResetTells
  <2>5. CASE ~(\E k \in Key : Press(k) \/ Release(k)) /\ ~init_player_ctrls
    <3>1. WillBeOn(c)
      BY <1>2, <2>5, MovingOnTellsNothing
    <3>2. held' = held
      BY <2>5 DEF Next, Hardware, Report, Receive, interrupt_handler, handle_mouse_evt, handle_kbd_evt,
                  MenuClick, user, vars
    <3> QED
      BY <2>1, <3>1, <3>2
  <2> QED
    BY <2>2, <2>3, <2>4, <2>5
<1>3. ASSUME Undamaged', AxisKeysApart, NEW l \in held' \ unseen', NEW c \in ControlOf(l) \cap AxisControl
      PROVE  WillBeOn(c)'
  <2>0. l \in held \ unseen => WillBeOn(c)
    BY <1>0, <1>3 DEF KeysFollow
  <2>h. held \subseteq Key
    BY DEF InputTyped, TypeOK
  <2>2. ASSUME NEW k \in Key, Press(k) PROVE WillBeOn(c)'
    <3>1. Stroke(k, TRUE) /\ held' = held \cup {k} /\ unseen' = unseen \ {k}
      BY <2>2 DEF Press, Stroke
    <3>2. WillBeOn(c)' <=> IF c \in ControlOf(k) THEN TRUE ELSE WillBeOn(c)
      BY <3>1, StrokeTells
    <3>3. l = k \/ WillBeOn(c)
      BY <2>0, <3>1
    <3> QED
      BY <1>3, <3>2, <3>3
  <2>3. ASSUME NEW k \in Key, Release(k) PROVE WillBeOn(c)'
    <3>1. Stroke(k, FALSE) /\ held' = held \ {k} /\ unseen' = unseen \ {k}
      BY <2>3 DEF Release, Stroke
    <3>2. WillBeOn(c)' <=> IF c \in ControlOf(k) THEN FALSE ELSE WillBeOn(c)
      BY <3>1, StrokeTells
    <3>3. WillBeOn(c) /\ l # k /\ l \in Key
      BY <2>0, <2>h, <3>1
    <3>4. c \notin ControlOf(k)
      BY <1>3, <3>3 DEF AxisKeysApart
    <3> QED
      BY <3>2, <3>3, <3>4
  <2>4. CASE init_player_ctrls
    <3>1. held' = held /\ unseen' = held \cup {BUTTON}
      BY <2>4 DEF init_player_ctrls, user
    <3> QED
      BY <1>3, <3>1
  <2>5. CASE ~(\E k \in Key : Press(k) \/ Release(k)) /\ ~init_player_ctrls
    <3>1. WillBeOn(c)' <=> WillBeOn(c)
      BY <1>3, <2>5, MovingOnTellsNothing
    <3>2. held' = held /\ (unseen' = unseen \/ unseen' = unseen \ {BUTTON})
      BY <2>5 DEF Next, Hardware, Report, Receive, interrupt_handler, handle_mouse_evt, handle_kbd_evt,
                  MenuClick, user, movm, vars
    <3>3. l # BUTTON
      BY <1>3, <2>h, <3>2, KeyCodes, InputConstants DEF BUTTON, Prefix
    <3> QED
      BY <1>3, <2>0, <3>1, <3>2, <3>3
  <2> QED
    BY <2>2, <2>3, <2>4, <2>5
<1> QED
  BY <1>1, <1>2, <1>3 DEF KeysFollow

\* The first byte of the last report, wherever it is, tells the button: in the
\* queue q, in the buffer (b, if p) or among the bytes ms of a packet.
Tells(q, p, b, ms, on) ==
    /\ Len(q) >= 3 => q[Len(q) - 2].lb = on
    /\ (Len(q) < 3 /\ p /\ b.pos = 1) => b.lb = on
    /\ (Len(q) < 3 /\ ~(p /\ b.pos = 1) /\ ms # <<>>) => ms[1].lb = on

ButtonFollows ==
    /\ lb_held_down => mouse_lb
    /\ Undamaged =>
         /\ Tells(queue.MOUSE, MousePending, obf[1].data, ms_data, btn)
         /\ (queue.MOUSE = <<>> /\ ~MousePending /\ ms_data = <<>> /\ BUTTON \notin unseen) =>
              mouse_lb = btn

\* A byte goes from the queue to the buffer.
LEMMA TellsTail ==
    ASSUME NEW q \in Seq(MouseByte), Ordered(q), q # <<>>, NEW b, NEW ms, NEW on,
           Tells(q, FALSE, b, ms, on)
    PROVE  Tells(Tail(q), TRUE, Head(q), ms, on)
<1> DEFINE t == Tail(q)
           h == Head(q)
<1>1. /\ Len(t) = Len(q) - 1 /\ h = q[1] /\ Len(q) >= 1 /\ Len(q) \in Nat
      /\ \A i \in 1..(Len(q) - 1) : t[i] = q[i + 1]
  OBVIOUS
<1> HIDE DEF t, h
<1>2. Len(t) >= 3 => t[Len(t) - 2].lb = on
  <2> SUFFICES ASSUME Len(t) >= 3 PROVE t[Len(t) - 2].lb = on
    OBVIOUS
  <2>1. Len(t) - 2 \in 1..(Len(q) - 1) /\ (Len(t) - 2) + 1 = Len(q) - 2 /\ Len(q) >= 3
    BY <1>1
  <2>2. t[Len(t) - 2] = q[Len(q) - 2]
    BY <1>1, <2>1
  <2> QED
    BY <2>1, <2>2 DEF Tells
<1>3. q[Len(q)].pos = 3 /\ \A i \in 1..(Len(q) - 1) : Continues(q[i], q[i + 1])
  BY DEF Ordered
<1>4. (Len(q) <= 3 /\ h.pos = 1) => Len(q) = 3
  <2>1. Len(q) = 1 => h.pos = 3
    BY <1>1, <1>3
  <2>2. (Len(q) = 2 /\ h.pos = 1) => q[2].pos = 2
    BY <1>1, <1>3 DEF Continues
  <2> QED
    BY <1>1, <1>3, <2>1, <2>2
<1>5. Len(q) = 3 => h.pos = 1
  <2> SUFFICES ASSUME Len(q) = 3 PROVE h.pos = 1
    OBVIOUS
  <2>0. 1 \in 1..Len(q) /\ 2 \in 1..Len(q)
    OBVIOUS
  <2>1. q[1] \in MouseByte /\ q[2] \in MouseByte
    BY <2>0, ElementOfSeq
  <2>p. q[1].pos \in 1..3 /\ q[2].pos \in 1..3
    BY <2>1 DEF MouseByte
  <2>2. Continues(q[1], q[2]) /\ Continues(q[2], q[3]) /\ q[3].pos = 3
    BY <1>3
  <2> QED
    BY <1>1, <2>p, <2>2 DEF Continues
<1>6. Len(q) = 3 => q[1].lb = on
  BY DEF Tells
<1>7. (Len(q) < 3 /\ ms # <<>>) => ms[1].lb = on
  BY DEF Tells
<1> QED
  <2>1. (Len(t) < 3 /\ h.pos = 1) => h.lb = on
    BY <1>1, <1>4, <1>6
  <2>2. (Len(t) < 3 /\ ~(h.pos = 1) /\ ms # <<>>) => ms[1].lb = on
    BY <1>1, <1>5, <1>7
  <2> QED
    BY <1>2, <2>1, <2>2 DEF Tells, t, h

\* The trigger follows the button, in every step.
LEMMA ButtonStep ==
    ASSUME InputTyped, InputTyped', Owned, Owned', Sorted, ButtonFollows, [Next]_vars
    PROVE  ButtonFollows'
<1>0. Undamaged' => Undamaged
  BY DamageStays
<1> DEFINE q == queue.MOUSE
<1>t. q \in Seq(MouseByte) /\ ms_data \in Seq(MouseByte) /\ Len(ms_data) < 3 /\ Len(ms_data) \in Nat
  BY DEF InputTyped, TypeOK
<1>r. Undamaged' => Undamaged /\ Reports
  BY <1>0 DEF Sorted
<1>1. CASE /\ queue'.MOUSE = queue.MOUSE /\ UNCHANGED <<ms_data, btn, mouse_lb>>
           /\ MousePending' = MousePending /\ (MousePending => obf' = obf)
           /\ BUTTON \in unseen => BUTTON \in unseen'
           /\ lb_held_down' = lb_held_down \/ lb_held_down' = FALSE
  <2>1. Undamaged' => Tells(q, MousePending, obf[1].data, ms_data, btn)
    BY <1>0 DEF ButtonFollows
  <2>2. Undamaged' => Tells(queue.MOUSE, MousePending, obf[1].data, ms_data, btn)'
    BY <1>1, <2>1 DEF Tells
  <2> QED
    BY <1>0, <1>1, <2>2 DEF ButtonFollows
<1>2. ASSUME NEW k \in Key, Press(k) \/ Release(k) PROVE ButtonFollows'
  <2>1. queue'.MOUSE = queue.MOUSE
    BY <1>2, StrokeIs DEF Press, Release
  <2>2. k # BUTTON
    BY InputConstants DEF BUTTON, Prefix
  <2>3. /\ UNCHANGED <<ms_data, btn, mouse_lb, obf, lb_held_down>> /\ unseen' = unseen \ {k}
    BY <1>2 DEF Press, Release, Stroke, statics
  <2>4. MousePending' = MousePending
    BY <2>3 DEF MousePending
  <2> QED
    BY <1>1, <2>1, <2>2, <2>3, <2>4
<1>3. ASSUME NEW b \in BOOLEAN, NEW s2 \in PayloadSync, NEW s3 \in PayloadSync, Report(b, s2, s3)
      PROVE  ButtonFollows'
  <2> DEFINE r == queue'.MOUSE
  <2>1. ASSUME Undamaged' PROVE OneMore(q, r, b)
    <3>1. PICK n \in 1..MaxReports : r = q \o Triple(n, b, s2, s3)
      BY <1>3, ReportIs
    <3>2. Ordered(q)
      BY <1>r, <2>1 DEF Reports
    <3>3. q \in Seq(MouseByte)
      BY <1>t
    <3> HIDE DEF q, r
    <3> QED
      BY <3>1, <3>2, <3>3, OrderedReport, Zenon
  <2>2. btn' = b /\ UNCHANGED <<mouse_lb, lb_held_down>>
    BY <1>3 DEF Report
  <2>3. ASSUME Undamaged' PROVE Len(r) >= 3 /\ r # <<>> /\ r[Len(r) - 2].lb = b
    <3>1. Len(r) = Len(q) + 3 /\ r[Len(q) + 1].lb = b /\ Len(q) \in Nat /\ r \in Seq(MouseByte)
      BY <1>t, <2>1, <2>3 DEF OneMore
    <3> HIDE DEF q, r
    <3>2. Len(r) - 2 = Len(q) + 1 /\ Len(r) >= 3
      BY <3>1
    <3>3. r # <<>>
      BY <3>2, EmptySeq
    <3> QED
      BY <3>1, <3>2, <3>3
  <2>4. ASSUME Undamaged' PROVE Tells(queue.MOUSE, MousePending, obf[1].data, ms_data, btn)'
    <3>1. Len(r) >= 3 /\ ~(Len(r) < 3) /\ r[Len(r) - 2].lb = b
      BY <2>1, <2>3, <2>4 DEF OneMore
    <3> QED
      BY <2>2, <3>1 DEF Tells
  <2> QED
    BY <2>2, <2>3, <2>4 DEF ButtonFollows
<1>4. ASSUME NEW s \in Source, NEW err \in BOOLEAN, Receive(s, err) PROVE ButtonFollows'
  <2>1. /\ obf = <<>> /\ Len(obf') = 1 /\ obf' # <<>> /\ (obf'[1].aux <=> s = "MOUSE")
        /\ obf'[1].data = Head(queue[s]) /\ queue[s] # <<>> /\ queue'[s] = Tail(queue[s])
        /\ \A t \in Source \ {s} : queue'[t] = queue[t]
    <3>1. /\ obf = <<>> /\ Len(obf') = 1 /\ obf'[1].aux = (s = "MOUSE")
          /\ obf'[1].data = Head(queue[s]) /\ queue[s] # <<>> /\ queue'[s] = Tail(queue[s])
          /\ \A t \in Source \ {s} : queue'[t] = queue[t]
      BY <1>4, ReceiveIs
    <3>2. obf' # <<>>
      BY <3>1
    <3>3. obf'[1].aux <=> s = "MOUSE"
      BY <3>1, Zenon
    <3> QED
      BY <3>1, <3>2, <3>3
  <2>2. UNCHANGED <<ms_data, btn, mouse_lb, lb_held_down, unseen>> /\ ~MousePending
    BY <1>4, <2>1 DEF Receive, statics, movm, user, MousePending
  <2>3. CASE s = "KBD"
    <3>1. queue'.MOUSE = queue.MOUSE
      BY <2>1, <2>3 DEF Source
    <3>2. ~MousePending'
      BY <2>1, <2>3 DEF MousePending
    <3>3. MousePending' = MousePending
      BY <2>2, <3>2, Zenon DEF MousePending
    <3> QED
      BY <1>1, <2>2, <3>1, <3>3
  <2>4. CASE s = "MOUSE"
    <3>1. MousePending' /\ q # <<>> /\ obf'[1].data = Head(q) /\ queue'.MOUSE = Tail(q)
      BY <2>1, <2>4 DEF MousePending
    <3>2. ASSUME Undamaged' PROVE Tells(queue.MOUSE, MousePending, obf[1].data, ms_data, btn)'
      <4>1. Ordered(q) /\ Tells(q, MousePending, obf[1].data, ms_data, btn)
        BY <1>r, <3>2 DEF Reports, ButtonFollows
      <4>2. Tells(q, FALSE, obf[1].data, ms_data, btn)
        BY <2>2, <4>1 DEF Tells
      <4> HIDE DEF q
      <4>3. Tells(Tail(q), TRUE, Head(q), ms_data, btn)
        BY <1>t, <3>1, <4>1, <4>2, TellsTail
      <4> QED
        BY <2>2, <3>1, <4>3 DEF Tells
    <3> QED
      BY <2>2, <3>1, <3>2 DEF ButtonFollows
  <2> QED
    BY <2>3, <2>4 DEF Source
<1>5. CASE handle_mouse_evt
  <2> DEFINE b == obf[1].data
             data == ms_data \o <<b>>
  <2>1. /\ MousePending /\ b \in MouseByte /\ obf' = <<>> /\ queue' = queue
        /\ (~obf[1].err /\ ~(ms_data = <<>> /\ ~b.sync)) =>
              IF Len(data) = 3 THEN ms_data' = <<>> /\ mouse_lb' = data[1].lb
                               ELSE ms_data' = data /\ mouse_lb' = mouse_lb
    BY <1>5, MouseEvent
  <2>2. lb_held_down' => mouse_lb'
    BY <1>5 DEF handle_mouse_evt, mouse_parse_data, ButtonFollows
  <2>3. ~MousePending' /\ queue'.MOUSE = q /\ btn' = btn
    BY <1>5, <2>1 DEF MousePending, handle_mouse_evt, user
  <2>4. ASSUME Undamaged'
        PROVE  /\ Tells(queue.MOUSE, MousePending, obf[1].data, ms_data, btn)'
               /\ (q = <<>> /\ ms_data' = <<>>) => mouse_lb' = btn
    <3>1. /\ Collected(ms_data) /\ Marked(b) /\ Begun(ms_data, b) /\ Undamaged
          /\ Tells(q, TRUE, b, ms_data, btn)
      <4>1. Tells(q, MousePending, b, ms_data, btn)
        BY <1>r, <2>4 DEF ButtonFollows
      <4>2. Tells(q, TRUE, b, ms_data, btn)
        BY <2>1, <4>1 DEF Tells
      <4> QED
        BY <1>r, <2>1, <2>4, <4>2 DEF Reports
    <3>2. ~obf[1].err
      BY <2>1, <3>1 DEF Owned, MousePending
    <3> HIDE DEF b, data, q
    <3>3. ms_data = <<>> => b.pos = 1 /\ b.sync
      BY <3>1 DEF Begun, Marked
    <3>4. b.pos = Len(ms_data) + 1 /\ (ms_data # <<>> => b.report = ms_data[1].report)
      BY <3>1, <3>3 DEF Begun
    <3>5. /\ Len(data) = Len(ms_data) + 1 /\ data # <<>>
          /\ data[1] = IF ms_data = <<>> THEN b ELSE ms_data[1]
      <4>1. data = ms_data \o <<b>>
        BY DEF data
      <4>2. ms_data \in Seq(MouseByte) /\ b \in MouseByte /\ Collected(ms_data)
        BY <1>t, <2>1, <3>1
      <4> QED
        BY <3>4, <4>1, <4>2, CollectedMore, Zenon
    <3>6. Len(q) < 3 => data[1].lb = btn
      <4>1. CASE ms_data = <<>>
        BY <3>1, <3>3, <3>5, <4>1 DEF Tells
      <4>2. CASE ms_data # <<>>
        <5>1. Len(ms_data) # 0
          BY <1>t, <4>2, EmptySeq
        <5>2. b.pos # 1
          BY <1>t, <3>4, <5>1
        <5> QED
          BY <3>1, <3>5, <4>2, <5>2 DEF Tells
      <4> QED
        BY <4>1, <4>2
    <3>7. IF Len(data) = 3 THEN ms_data' = <<>> /\ mouse_lb' = data[1].lb
                           ELSE ms_data' = data /\ mouse_lb' = mouse_lb
      BY <2>1, <3>2, <3>3
    <3>8. Len(q) >= 3 => q[Len(q) - 2].lb = btn
      BY <3>1 DEF Tells
    <3>9. Tells(queue.MOUSE, MousePending, obf[1].data, ms_data, btn)'
      BY <2>3, <3>6, <3>7, <3>8 DEF Tells
    <3>10. q = <<>> => Len(q) < 3
      OBVIOUS
    <3> QED
      BY <3>5, <3>6, <3>7, <3>9, <3>10
  <2> QED
    BY <2>2, <2>3, <2>4 DEF ButtonFollows
<1>6. CASE handle_kbd_evt
  <2>1. ~MousePending /\ ~MousePending' /\ queue' = queue
        /\ UNCHANGED <<ms_data, btn, mouse_lb, lb_held_down, unseen>>
    BY <1>6 DEF handle_kbd_evt, Owned, MousePending, KbdPending, user
  <2>2. MousePending' = MousePending
    BY <2>1, Zenon DEF MousePending
  <2> QED
    BY <1>1, <2>1, <2>2
<1>7. CASE init_player_ctrls
  <2>1. /\ UNCHANGED <<queue, obf, ms_data, btn>> /\ ~mouse_lb' /\ ~lb_held_down' /\ BUTTON \in unseen'
    BY <1>7 DEF init_player_ctrls, user, statics
  <2>2. Undamaged' => Tells(q, MousePending, obf[1].data, ms_data, btn)
    BY <1>0 DEF ButtonFollows
  <2>3. Undamaged' => Tells(queue.MOUSE, MousePending, obf[1].data, ms_data, btn)'
    BY <2>1, <2>2 DEF Tells, MousePending
  <2> QED
    BY <2>1, <2>3 DEF ButtonFollows
<1>8. CASE interrupt_handler \/ MenuClick \/ UNCHANGED vars
  <2>1. /\ UNCHANGED <<queue, obf, ms_data, btn, mouse_lb, unseen>>
        /\ lb_held_down' = lb_held_down \/ lb_held_down' = FALSE
    BY <1>8 DEF interrupt_handler, MenuClick, user, statics, movm, vars
  <2>2. MousePending' = MousePending
    BY <2>1 DEF MousePending
  <2> QED
    BY <1>1, <2>1, <2>2
<1> QED
  BY <1>2, <1>3, <1>4, <1>5, <1>6, <1>7, <1>8 DEF Next, Hardware

\* The status of a full buffer.
LEMMA StatusTyped == ASSUME InputTyped, obf # <<>> PROVE obf[1].aux \in BOOLEAN
<1>1. Len(obf) # 0 /\ Len(obf) \in 0..1
  BY EmptySeq DEF InputTyped, TypeOK
<1>2. 1 \in 1..Len(obf)
  BY <1>1
<1> QED
  BY <1>2 DEF InputTyped, TypeOK

\* The inductive invariant of module Input.
InputInv == InputTyped /\ Owned /\ Sorted /\ KeysFollow /\ ButtonFollows

\* It holds.
LEMMA InputInvariant == Spec => []InputInv
<1>1. Init => Sorted /\ KeysFollow /\ ButtonFollows
  <2> SUFFICES ASSUME Init PROVE Sorted /\ KeysFollow /\ ButtonFollows
    OBVIOUS
  <2>1. /\ queue.KBD = <<>> /\ queue.MOUSE = <<>> /\ obf = <<>> /\ ms_data = <<>> /\ currPkt = <<>>
        /\ held = {} /\ kbd_state = {}
    BY DEF Init, Source
  <2>2. ~MousePending /\ ~KbdPending
    BY <2>1 DEF MousePending, KbdPending
  <2>3. Sorted
    BY <2>1, <2>2 DEF Sorted, Reports, Ordered, Collected, WholePackets
  <2>4. \A c : ~WillBeOn(c)
    BY <2>1, <2>2, OnEmpty DEF WillBeOn, Known
  <2>5. KeysFollow
    BY <2>1, <2>4 DEF Init, KeysFollow, Axis
  <2>6. ~lb_held_down /\ mouse_lb = btn
    BY DEF Init
  <2>7. ButtonFollows
    BY <2>1, <2>2, <2>6 DEF ButtonFollows, Tells
  <2> QED
    BY <2>3, <2>5, <2>7
<1>2. /\ InputTyped /\ InputTyped' /\ Owned /\ Owned' /\ [Next]_vars
      /\ Sorted /\ KeysFollow /\ ButtonFollows
      => (Sorted /\ KeysFollow /\ ButtonFollows)'
  BY SortedStep, KeysFollowStep, ButtonStep
<1> QED
  BY <1>1, <1>2, OwnedInv, PTL DEF Spec, InputInv

(***************************************************************************)
(* The variables of the handlers have their types, whatever keys are in    *)
(* use: handle_mouse_evt never collects a third byte without parsing the   *)
(* packet, and kbd_state only ever has the controls of keys in use.        *)
(***************************************************************************)
THEOREM InputTypeCorrect == Spec => []TypeOK
BY InputTypedInv, PTL DEF InputTyped

(***************************************************************************)
(* The two devices are kept apart, for every number of strokes, reports    *)
(* and damaged bytes: a handler always finds a byte of its own device, and *)
(* a packet is the three bytes of one report if no byte is damaged or if   *)
(* bit 3 marks the first byte.                                             *)
(***************************************************************************)
THEOREM InputBytesAreSorted ==
    Spec => [](OwnByte /\ ((Undamaged \/ PayloadSync = {FALSE}) => BytesAreSorted))
<1>1. InputInv => OwnByte
  <2> SUFFICES ASSUME InputTyped, Owned, NEW s \in irq \cup todo
               PROVE  obf # <<>> /\ obf[1].aux = (s = "MOUSE")
    BY DEF InputInv, OwnByte
  <2>1. obf # <<>>
    BY DEF Owned
  <2>2. obf[1].aux \in BOOLEAN
    BY <2>1, StatusTyped
  <2>3. CASE obf[1].aux
    <3>1. s = "MOUSE"
      BY <2>1, <2>3 DEF Owned, MousePending
    <3> QED
      BY <2>1, <2>2, <2>3, <3>1
  <2>4. CASE ~obf[1].aux
    <3>1. s # "MOUSE"
      BY <2>1, <2>4 DEF Owned, KbdPending
    <3> QED
      BY <2>1, <2>2, <2>4, <3>1
  <2> QED
    BY <2>3, <2>4
<1>2. InputInv => ((Undamaged \/ PayloadSync = {FALSE}) => WholePackets)
  BY DEF InputInv, Sorted, Reports
<1>3. InputInv => OwnByte /\ ((Undamaged \/ PayloadSync = {FALSE}) => BytesAreSorted)
  BY <1>1, <1>2 DEF BytesAreSorted
<1> QED
  BY <1>3, InputInvariant, PTL

(***************************************************************************)
(* The controls follow the user, for every number of strokes, reports and  *)
(* resets: no control stays on without its key, the trigger is the button, *)
(* and where no two keys in use share a direction (kbd_parse_data ignores  *)
(* the prefix 0xE0, so a second key could) the movement is that of the     *)
(* keys held down.                                                         *)
(***************************************************************************)
THEOREM InputControlsFollowUser ==
    Spec => [](NoStuckControl /\ ButtonFollowsMouse /\ (AxisKeysApart => ControlsFollowUser))
<1>1. ASSUME InputInv, Quiet("KBD"), Undamaged
      PROVE  /\ \A c \in kbd_state : \E k \in held : c \in ControlOf(k)
             /\ AxisKeysApart => \A k \in held \ unseen : \A c \in ControlOf(k) \cap AxisControl : c \in kbd_state
  <2>1. queue.KBD = <<>> /\ ~KbdPending
    <3>1. queue.KBD = <<>> /\ (obf = <<>> \/ obf[1].aux # ("KBD" = "MOUSE"))
      BY <1>1 DEF Quiet
    <3>2. obf # <<>> => obf[1].aux \in BOOLEAN
      BY <1>1, StatusTyped DEF InputInv
    <3>3. ("KBD" = "MOUSE") = FALSE
      OBVIOUS
    <3> QED
      BY <3>1, <3>2, <3>3 DEF KbdPending
  <2>2. \A c : WillBeOn(c) <=> c \in kbd_state
    BY <2>1, OnEmpty DEF WillBeOn, Known
  <2> QED
    BY <1>1, <2>2 DEF InputInv, KeysFollow
<1>2. InputInv => NoStuckControl
  BY <1>1 DEF NoStuckControl
<1>3. ASSUME InputInv, AxisKeysApart PROVE MovementFollowsKeys
  <2> DEFINE on == UNION {ControlOf(k) : k \in held}
  <2> SUFFICES ASSUME Quiet("KBD"), Undamaged, unseen \subseteq {BUTTON}
               PROVE  movement = [x |-> Axis(on, "x_pos", "x_neg"), y |-> Axis(on, "y_pos", "y_neg")]
    BY DEF MovementFollowsKeys
  <2>1. held \subseteq Key /\ BUTTON \notin Key
    BY <1>3, InputConstants DEF InputInv, InputTyped, TypeOK, BUTTON, Prefix
  <2>2. held \ unseen = held
    BY <2>1
  <2>3. \A c \in AxisControl : c \in kbd_state <=> c \in on
    BY <1>1, <1>3, <2>2
  <2>4. /\ Axis(kbd_state, "x_pos", "x_neg") = Axis(on, "x_pos", "x_neg")
        /\ Axis(kbd_state, "y_pos", "y_neg") = Axis(on, "y_pos", "y_neg")
    <3> HIDE DEF on
    <3>1. /\ "x_pos" \in kbd_state <=> "x_pos" \in on
          /\ "x_neg" \in kbd_state <=> "x_neg" \in on
          /\ "y_pos" \in kbd_state <=> "y_pos" \in on
          /\ "y_neg" \in kbd_state <=> "y_neg" \in on
      BY <2>3 DEF AxisControl
    <3> QED
      BY <3>1 DEF Axis
  <2>5. movement = [x |-> Axis(kbd_state, "x_pos", "x_neg"), y |-> Axis(kbd_state, "y_pos", "y_neg")]
    BY <1>3 DEF InputInv, KeysFollow
  <2> QED
    BY <2>4, <2>5
<1>4. ASSUME InputInv PROVE ButtonFollowsMouse
  <2>1. ASSUME Quiet("MOUSE"), Undamaged, BUTTON \notin unseen PROVE mouse_lb = btn
    <3>1. queue.MOUSE = <<>> /\ (obf = <<>> \/ obf[1].aux # ("MOUSE" = "MOUSE"))
      BY <2>1 DEF Quiet
    <3>2. ~MousePending
      <4> SUFFICES ASSUME obf # <<>>, obf[1].aux PROVE FALSE
        BY DEF MousePending
      <4>3. obf[1].aux \in BOOLEAN
        BY <1>4, StatusTyped DEF InputInv
      <4>4. obf[1].aux = TRUE
        BY <4>3
      <4> QED
        BY <3>1, <4>4
    <3>3. ms_data = <<>>
      BY <1>4, <2>1, <3>1, <3>2 DEF InputInv, Sorted, Reports
    <3> QED
      BY <1>4, <2>1, <3>1, <3>2, <3>3 DEF InputInv, ButtonFollows
  <2>2. lb_held_down => mouse_lb
    BY <1>4 DEF InputInv, ButtonFollows
  <2> QED
    BY <2>1, <2>2 DEF ButtonFollowsMouse
<1>5. InputInv => NoStuckControl /\ ButtonFollowsMouse /\ (AxisKeysApart => ControlsFollowUser)
  BY <1>2, <1>3, <1>4 DEF ControlsFollowUser
<1> QED
  BY <1>5, InputInvariant, PTL
=============================================================================
