---------------------------- MODULE MCInputProofs ---------------------------
(***************************************************************************)
(* The types of keyboard, mouse and gesture detector in the composition    *)
(* that TLC checks: the theorems of InputProofs, which hold for every      *)
(* value of the constants, applied to the constants of each part.          *)
(***************************************************************************)
EXTENDS InputProofs

\* The theorems for the constants of "mouse" and of "noise".
PM == INSTANCE InputProofs WITH Key <- {1}, PayloadSync <- BOOLEAN,
        MaxStrokes <- 2, MaxReports <- 3, MaxErrors <- 0, MaxResets <- 1

PN == INSTANCE InputProofs WITH Key <- {1, 17}, PayloadSync <- {FALSE},
        MaxStrokes <- 3, MaxReports <- 2, MaxErrors <- 2, MaxResets <- 0

\* What MCSpec speaks of.
all == <<part, vars, gesture>>

\* A step of a part is a step of the module of theorems that speaks of it, and
\* the types they mean are the same.
LEMMA MouseStep == [M!Next]_(M!vars) => [PM!Next]_(PM!vars)
<1>1. ASSUME NEW k, NEW make PROVE M!Stroke(k, make) => PM!Stroke(k, make)
  BY Zenon DEF PM!Stroke, M!Stroke, PM!Scan, M!Scan, PM!KeyCode, M!KeyCode, PM!Prefix,
     M!Prefix, PM!KBC_DOUBLE_BYTE, M!KBC_DOUBLE_BYTE, PM!KBC_BREAK_CODE,
     M!KBC_BREAK_CODE, PM!statics, M!statics
<1>2. ASSUME NEW k, M!Press(k) \/ M!Release(k) PROVE PM!Press(k) \/ PM!Release(k)
  BY <1>1, <1>2, Zenon DEF PM!Press, M!Press, PM!Release, M!Release
<1>3. ASSUME NEW b, NEW s2, NEW s3, M!Report(b, s2, s3) PROVE PM!Report(b, s2, s3)
  BY <1>3, Zenon DEF PM!Report, M!Report, PM!BUTTON, M!BUTTON, PM!statics, M!statics
<1>4. M!Hardware => PM!Hardware
  BY DEF PM!Hardware, M!Hardware, PM!Source, M!Source, PM!Receive, M!Receive, PM!user,
     M!user, PM!statics, M!statics, PM!movm, M!movm
<1>5. M!interrupt_handler => PM!interrupt_handler
  BY DEF PM!interrupt_handler, M!interrupt_handler, PM!driver_receive,
     M!driver_receive, PM!Running, M!Running, PM!BREAKCODE_ESC, M!BREAKCODE_ESC,
     PM!user, M!user, PM!statics, M!statics, PM!movm, M!movm
<1>6. M!handle_mouse_evt => PM!handle_mouse_evt
  BY DEF PM!handle_mouse_evt, M!handle_mouse_evt, PM!ms_collect, M!ms_collect,
     PM!mouse_ih, M!mouse_ih, PM!mouse_parse_data, M!mouse_parse_data, PM!user, M!user
<1>7. M!handle_kbd_evt => PM!handle_kbd_evt
  BY DEF PM!handle_kbd_evt, M!handle_kbd_evt, PM!kbc_ih, M!kbc_ih, PM!kbd_parse_data,
     M!kbd_parse_data, PM!kbd_state_after, M!kbd_state_after, PM!movement_after,
     M!movement_after, PM!Axis, M!Axis, PM!kbd_control, M!kbd_control,
     PM!KBC_DOUBLE_BYTE, M!KBC_DOUBLE_BYTE, PM!KBC_BREAK_CODE, M!KBC_BREAK_CODE,
     PM!user, M!user
<1>8. M!MenuClick \/ M!init_player_ctrls => PM!MenuClick \/ PM!init_player_ctrls
  BY DEF PM!MenuClick, M!MenuClick, PM!init_player_ctrls, M!init_player_ctrls,
     PM!Running, M!Running, PM!BREAKCODE_ESC, M!BREAKCODE_ESC, PM!BUTTON, M!BUTTON,
     PM!user, M!user, PM!statics, M!statics
<1>9. UNCHANGED M!vars => UNCHANGED PM!vars
  BY DEF PM!vars, M!vars, PM!user, M!user, PM!statics, M!statics, PM!movm, M!movm
<1> QED
  BY <1>2, <1>3, <1>4, <1>5, <1>6, <1>7, <1>8, <1>9 DEF PM!Next, M!Next

LEMMA MouseTypes == PM!TypeOK <=> M!TypeOK
BY DEF PM!TypeOK, M!TypeOK, PM!KbdByte, M!KbdByte, PM!MouseByte, M!MouseByte,
   PM!Source, M!Source, PM!Control, M!Control, PM!BUTTON, M!BUTTON, PM!kbd_control,
   M!kbd_control, PM!KeyCode, M!KeyCode, PM!Prefix, M!Prefix

LEMMA NoiseStep == [N!Next]_(N!vars) => [PN!Next]_(PN!vars)
<1>1. ASSUME NEW k, NEW make PROVE N!Stroke(k, make) => PN!Stroke(k, make)
  BY Zenon DEF PN!Stroke, N!Stroke, PN!Scan, N!Scan, PN!KeyCode, N!KeyCode, PN!Prefix,
     N!Prefix, PN!KBC_DOUBLE_BYTE, N!KBC_DOUBLE_BYTE, PN!KBC_BREAK_CODE,
     N!KBC_BREAK_CODE, PN!statics, N!statics
<1>2. ASSUME NEW k, N!Press(k) \/ N!Release(k) PROVE PN!Press(k) \/ PN!Release(k)
  BY <1>1, <1>2, Zenon DEF PN!Press, N!Press, PN!Release, N!Release
<1>3. ASSUME NEW b, NEW s2, NEW s3, N!Report(b, s2, s3) PROVE PN!Report(b, s2, s3)
  BY <1>3, Zenon DEF PN!Report, N!Report, PN!BUTTON, N!BUTTON, PN!statics, N!statics
<1>4. N!Hardware => PN!Hardware
  BY DEF PN!Hardware, N!Hardware, PN!Source, N!Source, PN!Receive, N!Receive, PN!user,
     N!user, PN!statics, N!statics, PN!movm, N!movm
<1>5. N!interrupt_handler => PN!interrupt_handler
  BY DEF PN!interrupt_handler, N!interrupt_handler, PN!driver_receive,
     N!driver_receive, PN!Running, N!Running, PN!BREAKCODE_ESC, N!BREAKCODE_ESC,
     PN!user, N!user, PN!statics, N!statics, PN!movm, N!movm
<1>6. N!handle_mouse_evt => PN!handle_mouse_evt
  BY DEF PN!handle_mouse_evt, N!handle_mouse_evt, PN!ms_collect, N!ms_collect,
     PN!mouse_ih, N!mouse_ih, PN!mouse_parse_data, N!mouse_parse_data, PN!user, N!user
<1>7. N!handle_kbd_evt => PN!handle_kbd_evt
  BY DEF PN!handle_kbd_evt, N!handle_kbd_evt, PN!kbc_ih, N!kbc_ih, PN!kbd_parse_data,
     N!kbd_parse_data, PN!kbd_state_after, N!kbd_state_after, PN!movement_after,
     N!movement_after, PN!Axis, N!Axis, PN!kbd_control, N!kbd_control,
     PN!KBC_DOUBLE_BYTE, N!KBC_DOUBLE_BYTE, PN!KBC_BREAK_CODE, N!KBC_BREAK_CODE,
     PN!user, N!user
<1>8. N!MenuClick \/ N!init_player_ctrls => PN!MenuClick \/ PN!init_player_ctrls
  BY DEF PN!MenuClick, N!MenuClick, PN!init_player_ctrls, N!init_player_ctrls,
     PN!Running, N!Running, PN!BREAKCODE_ESC, N!BREAKCODE_ESC, PN!BUTTON, N!BUTTON,
     PN!user, N!user, PN!statics, N!statics
<1>9. UNCHANGED N!vars => UNCHANGED PN!vars
  BY DEF PN!vars, N!vars, PN!user, N!user, PN!statics, N!statics, PN!movm, N!movm
<1> QED
  BY <1>2, <1>3, <1>4, <1>5, <1>6, <1>7, <1>8, <1>9 DEF PN!Next, N!Next

LEMMA NoiseTypes == PN!TypeOK <=> N!TypeOK
BY DEF PN!TypeOK, N!TypeOK, PN!KbdByte, N!KbdByte, PN!MouseByte, N!MouseByte,
   PN!Source, N!Source, PN!Control, N!Control, PN!BUTTON, N!BUTTON, PN!kbd_control,
   N!kbd_control, PN!KeyCode, N!KeyCode, PN!Prefix, N!Prefix

\* What InputProofs shows for the constants of a part.
LEMMA MouseTyped == PM!Spec => []PM!TypeOK
<1>1. PM!G!GestureConstants
  BY GestureInstance DEF G!GestureConstants, PM!G!GestureConstants
<1>2. PM!InputConstants
  <2>1. BOOLEAN \subseteq BOOLEAN /\ BOOLEAN # {}
    BY Zenon
  <2>2. {1} \subseteq (1..127) \cup {PM!Prefix + c : c \in 1..127} /\ {2, 3, 0, 1} \subseteq Nat
    BY DEF PM!Prefix
  <2> QED
    BY <2>1, <2>2, Zenon DEF PM!InputConstants
<1> QED
  BY <1>1, <1>2, PM!InputTypeCorrect

LEMMA NoiseTyped == PN!Spec => []PN!TypeOK
<1>1. PN!G!GestureConstants
  BY GestureInstance DEF G!GestureConstants, PN!G!GestureConstants
<1>2. PN!InputConstants
  <2>1. {FALSE} \subseteq BOOLEAN /\ {FALSE} # {}
    BY Zenon
  <2>2. {1, 17} \subseteq (1..127) \cup {PN!Prefix + c : c \in 1..127} /\ {3, 2, 0} \subseteq Nat
    BY DEF PN!Prefix
  <2> QED
    BY <2>1, <2>2, Zenon DEF PN!InputConstants
<1> QED
  BY <1>1, <1>2, PN!InputTypeCorrect

\* The part that moves is chosen once, and its steps are those of its module.
LEMMA PartKept == ASSUME NEW x, part = x, [MCNext]_all PROVE (part = x)'
BY DEF MCNext, all

LEMMA PartSteps ==
    ASSUME [MCNext]_all
    PROVE  /\ part = "keys" => [Next]_vars
           /\ part = "mouse" => [M!Next]_(M!vars)
           /\ part = "noise" => [N!Next]_(N!vars)
           /\ part \notin {"keys", "mouse", "noise"} => [G!Next]_(G!vars)
BY DEF MCNext, all, vars, M!vars, N!vars, G!vars, G!data, gesture, user, statics, movm,
   M!user, M!statics, M!movm, N!user, N!statics, N!movm

(***************************************************************************)
(* The variables of the handlers and of the detector keep their types in   *)
(* every part of the composition: handle_mouse_evt collects less than      *)
(* three bytes before it starts again, kbd_parse_data sets only controls   *)
(* of keys in use, and the detector of lab4 counts within its bound.       *)
(***************************************************************************)
THEOREM MCInputTypeCorrect == MCSpec => []InputTypeOK
<1>1. MCSpec => \/ part = "keys" /\ Init
                \/ part = "mouse" /\ PM!Init
                \/ part = "noise" /\ PN!Init
                \/ part = "gesture" /\ G!Init
  BY DEF MCSpec, MCInit, Init, PM!Init, PN!Init, Source, PM!Source, PN!Source
<1>2. MCSpec => [][MCNext]_all
  BY DEF MCSpec, all
<1>3. MCSpec /\ part = "keys" /\ Init => []InputTypeOK
  <2>1. part = "keys" /\ [MCNext]_all => (part = "keys")'
    BY PartKept
  <2>2. part = "keys" /\ [MCNext]_all => [Next]_vars
    BY PartSteps
  <2>3. part = "keys" /\ TypeOK => InputTypeOK
    BY DEF InputTypeOK
  <2> QED
    BY <1>2, <2>1, <2>2, <2>3, InputTypeCorrect, PTL DEF Spec
<1>4. MCSpec /\ part = "mouse" /\ PM!Init => []InputTypeOK
  <2>1. part = "mouse" /\ [MCNext]_all => (part = "mouse")'
    BY PartKept
  <2>2. part = "mouse" /\ [MCNext]_all => [PM!Next]_(PM!vars)
    BY PartSteps, MouseStep
  <2>3. part = "mouse" /\ PM!TypeOK => InputTypeOK
    BY MouseTypes DEF InputTypeOK
  <2> QED
    BY <1>2, <2>1, <2>2, <2>3, MouseTyped, PTL DEF PM!Spec
<1>5. MCSpec /\ part = "noise" /\ PN!Init => []InputTypeOK
  <2>1. part = "noise" /\ [MCNext]_all => (part = "noise")'
    BY PartKept
  <2>2. part = "noise" /\ [MCNext]_all => [PN!Next]_(PN!vars)
    BY PartSteps, NoiseStep
  <2>3. part = "noise" /\ PN!TypeOK => InputTypeOK
    BY NoiseTypes DEF InputTypeOK
  <2> QED
    BY <1>2, <2>1, <2>2, <2>3, NoiseTyped, PTL DEF PN!Spec
<1>6. MCSpec /\ part = "gesture" /\ G!Init => []InputTypeOK
  <2>1. part = "gesture" /\ [MCNext]_all => (part = "gesture")'
    BY PartKept
  <2>2. part = "gesture" /\ [MCNext]_all => [G!Next]_(G!vars)
    BY PartSteps
  <2>3. part = "gesture" /\ GestureInv => InputTypeOK
    BY DEF InputTypeOK, GestureInv
  <2> QED
    BY <1>2, <2>1, <2>2, <2>3, GestureInvariant, PTL DEF G!Spec
<1> QED
  BY <1>1, <1>3, <1>4, <1>5, <1>6
=============================================================================
