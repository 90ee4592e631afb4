-------------------------------- MODULE Input -------------------------------
(***************************************************************************)
(* Keyboard and mouse while the main loop runs: the interrupt handlers of  *)
(* lib/kbc.c, the decoding of controls/controls.c and their dispatch in    *)
(* interrupt_handler.                                                      *)
(*                                                                         *)
(* Both devices share the one-byte output buffer of the i8042.  A handler  *)
(* reads the status and then the buffer; a full buffer stays as it is      *)
(* until it is read, so the two reads are one step, but the controller may *)
(* refill the buffer between the two handlers of one notification.         *)
(* Keyboard bytes are scan codes.  Of a mouse byte only MOUSE_FIRST_BIT,   *)
(* MOUSE_LB and where it comes from are kept: pointer and view movement    *)
(* are sums of the deltas of the packets assembled here.                   *)
(***************************************************************************)
EXTENDS Integers, Sequences

CONSTANTS
    Key,             \* keys in use: scan code, plus Prefix if sent after 0xE0
    PayloadSync,     \* values of bit 3 in the second and third byte of a packet
    MaxStrokes,      \* bound: key presses, releases and repeats
    MaxReports,      \* bound: mouse reports
    MaxErrors,       \* bound: bytes with a parity or timeout error
    MaxResets        \* bound: calls of init_player_ctrls

KBC_DOUBLE_BYTE == 224
KBC_BREAK_CODE == 128
BREAKCODE_ESC == 129
Prefix == 256

ASSUME InputConstants ==
    /\ Key \subseteq (1..127) \cup {Prefix + c : c \in 1..127}
    /\ PayloadSync \subseteq BOOLEAN /\ PayloadSync # {}
    /\ {MaxStrokes, MaxReports, MaxErrors, MaxResets} \subseteq Nat

VARIABLES
    held, btn,       \* the keys and the mouse button the user holds down,
    latest,          \* the key that repeats, as a set
    queue,           \* the bytes each device has yet to send
    obf,             \* output buffer and its status bits, empty or one byte
    irq,             \* notifications the kernel has for the program
    todo,            \* interrupt bits of the message being handled
    last_kb_byte, lastDoubleByte, ms_data,   \* statics; ms_idx is Len(ms_data)
    currPkt,         \* the bytes of the last packet parsed
    kbd_state, movement, mouse_lb, lb_held_down,   \* parts of player.movm
    unseen,          \* held keys whose control init_player_ctrls has cleared
    count            \* counters for the bounds

user == <<held, btn, latest>>
statics == <<last_kb_byte, lastDoubleByte, ms_data, currPkt>>
movm == <<kbd_state, movement, mouse_lb, lb_held_down, unseen>>
vars == <<user, queue, obf, irq, todo, statics, movm, count>>

Source == {"KBD", "MOUSE"}
KeyCode(k) == k % Prefix
BUTTON == 0          \* the mouse button, among the unseen keys

\* What a key controls: a field of kbd_state, or an index of nums_press.
kbd_control(key) ==
    CASE key = 17 -> {"x_pos"}                \* W
      [] key = 31 -> {"x_neg"}                \* S
      [] key = 32 -> {"y_pos"}                \* D
      [] key = 30 -> {"y_neg"}                \* A
      [] key = 42 -> {"sprint"}               \* PT_SHIFT
      [] key = 29 -> {"crouch"}               \* PT_CTRL
      [] key = 16 -> {"gun_menu"}             \* Q
      [] key = 11 -> {<<"nums_press", 0>>}    \* PT_0
      [] key \in 2..10 -> {<<"nums_press", key - 1>>}
      [] OTHER -> {}

Control == UNION {kbd_control(KeyCode(k)) : k \in Key}

MouseByte == [report : 1..MaxReports, pos : 1..3, sync : BOOLEAN, lb : BOOLEAN]
KbdByte == 0..255

TypeOK ==
    /\ held \subseteq Key /\ latest \subseteq held /\ btn \in BOOLEAN
    /\ queue.KBD \in Seq(KbdByte) /\ queue.MOUSE \in Seq(MouseByte)
    /\ Len(obf) \in 0..1
    /\ \A i \in 1..Len(obf) : /\ obf[i].aux \in BOOLEAN /\ obf[i].err \in BOOLEAN
                              /\ obf[i].data \in IF obf[i].aux THEN MouseByte ELSE KbdByte
    /\ irq \subseteq Source /\ todo \subseteq Source
    /\ last_kb_byte \in KbdByte /\ lastDoubleByte \in BOOLEAN
    /\ ms_data \in Seq(MouseByte) /\ Len(ms_data) < 3
    /\ currPkt \in Seq(MouseByte) /\ Len(currPkt) \in {0, 3}
    /\ kbd_state \subseteq Control /\ movement.x \in -1..1 /\ movement.y \in -1..1
    /\ mouse_lb \in BOOLEAN /\ lb_held_down \in BOOLEAN
    /\ unseen \subseteq Key \cup {BUTTON}

-----------------------------------------------------------------------------
(* The devices and the controller.                                         *)

Scan(k, make) == (IF k >= Prefix THEN <<KBC_DOUBLE_BYTE>> ELSE <<>>)
                   \o <<KeyCode(k) + (IF make THEN 0 ELSE KBC_BREAK_CODE)>>

Stroke(k, make) ==
    /\ count.strokes < MaxStrokes
    /\ count' = [count EXCEPT !.strokes = @ + 1]
    /\ queue' = [queue EXCEPT !.KBD = @ \o Scan(k, make)]
    /\ unseen' = unseen \ {k}
    /\ UNCHANGED <<btn, obf, irq, todo, statics, kbd_state, movement, mouse_lb, lb_held_down>>

Press(k) ==
    /\ k \notin held \/ k \in latest
    /\ held' = held \cup {k} /\ latest' = {k}
    /\ Stroke(k, TRUE)

Release(k) ==
    /\ k \in held
    /\ held' = held \ {k} /\ latest' = latest \ {k}
    /\ Stroke(k, FALSE)

\* The mouse reports a movement, with the button as it is then.
Report(b, s2, s3) ==
    /\ count.reports < MaxReports
    /\ count' = [count EXCEPT !.reports = @ + 1]
    /\ btn' = b
    /\ LET Byte(p, s, lb) == [report |-> count.reports + 1, pos |-> p, sync |-> s, lb |-> lb]
       IN  queue' = [queue EXCEPT !.MOUSE =
                        @ \o <<Byte(1, TRUE, b), Byte(2, s2, s2), Byte(3, s3, s3)>>]
    /\ unseen' = unseen \ {BUTTON}
    /\ UNCHANGED <<held, latest, obf, irq, todo, statics, kbd_state, movement, mouse_lb,
                   lb_held_down>>

\* The i8042 takes the next byte of a device and raises its interrupt.
Receive(s, err) ==
    /\ obf = <<>> /\ queue[s] # <<>>
    /\ err => count.errors < MaxErrors
    /\ count' = [count EXCEPT !.errors = IF err THEN @ + 1 ELSE @]
    /\ obf' = <<[aux |-> s = "MOUSE", err |-> err, data |-> Head(queue[s])]>>
    /\ queue' = [queue EXCEPT ![s] = Tail(@)]
    /\ irq' = irq \cup {s}
    /\ UNCHANGED <<user, todo, statics, movm>>

-----------------------------------------------------------------------------
(* The handlers.                                                           *)

Running == last_kb_byte # BREAKCODE_ESC

\* driver_receive answers with every interrupt bit that has come up since.
driver_receive_any(bits) == Source
driver_receive(bits) == bits

interrupt_handler_untested ==
    /\ todo = {} /\ irq # {}
    /\ todo' = driver_receive(irq) /\ irq' = {}
    /\ UNCHANGED <<user, queue, obf, statics, movm, count>>

interrupt_handler ==
    /\ Running /\ todo = {} /\ irq # {}
    /\ todo' = driver_receive(irq) /\ irq' = {}
    /\ UNCHANGED <<user, queue, obf, statics, movm, count>>

\* The byte a handler reads that has the right source and no error, if any.
kbc_ih == IF obf # <<>> /\ ~obf[1].err /\ ~obf[1].aux THEN <<obf[1].data>> ELSE <<>>
mouse_ih == IF obf # <<>> /\ ~obf[1].err /\ obf[1].aux THEN <<obf[1].data>> ELSE <<>>

kbd_state_after_make_only(byte) == kbd_state \cup kbd_control(byte % KBC_BREAK_CODE)
kbd_state_after(byte) ==
    LET c == kbd_control(byte % KBC_BREAK_CODE)
    IN  IF byte < KBC_BREAK_CODE THEN kbd_state \cup c ELSE kbd_state \ c

Axis(st, pos, neg) == (IF pos \in st THEN 1 ELSE 0) - (IF neg \in st THEN 1 ELSE 0)

\* As it was before "getting stuck" was solved: a released key stops its axis.
movement_after_last_key(byte, st) ==
    LET key == byte % KBC_BREAK_CODE
        v == IF byte < KBC_BREAK_CODE THEN 1 ELSE 0
    IN  [x |-> CASE key = 17 -> v [] key = 31 -> -v [] OTHER -> movement.x,
         y |-> CASE key = 32 -> v [] key = 30 -> -v [] OTHER -> movement.y]
movement_after(byte, st) ==
    [x |-> Axis(st, "x_pos", "x_neg"), y |-> Axis(st, "y_pos", "y_neg")]

\* The prefix selects the size of bytes, of which only the last is looked at.
kbd_parse_data(byte) ==
    /\ kbd_state' = kbd_state_after(byte)
    /\ movement' = movement_after(byte, kbd_state')

handle_kbd_evt_clears ==
    /\ "KBD" \in todo /\ "MOUSE" \notin todo
    /\ todo' = {} /\ obf' = <<>>
    /\ last_kb_byte' = 0
    /\ IF kbc_ih # <<>> /\ kbc_ih[1] # KBC_DOUBLE_BYTE
         THEN kbd_parse_data(kbc_ih[1]) /\ lastDoubleByte' = FALSE
         ELSE /\ lastDoubleByte' = (lastDoubleByte \/ kbc_ih # <<>>)
              /\ UNCHANGED <<kbd_state, movement>>
    /\ UNCHANGED <<user, queue, irq, ms_data, currPkt, mouse_lb, lb_held_down, unseen, count>>

handle_kbd_evt ==
    /\ "KBD" \in todo /\ "MOUSE" \notin todo
    /\ todo' = {} /\ obf' = <<>>
    /\ last_kb_byte' = IF kbc_ih = <<>> THEN 0 ELSE kbc_ih[1]
    /\ IF kbc_ih # <<>> /\ kbc_ih[1] # KBC_DOUBLE_BYTE
         THEN kbd_parse_data(kbc_ih[1]) /\ lastDoubleByte' = FALSE
         ELSE /\ lastDoubleByte' = (lastDoubleByte \/ kbc_ih # <<>>)
              /\ UNCHANGED <<kbd_state, movement>>
    /\ UNCHANGED <<user, queue, irq, ms_data, currPkt, mouse_lb, lb_held_down, unseen, count>>

mouse_parse_data_latched(pkt) ==
    /\ currPkt' = pkt
    /\ mouse_lb' = (mouse_lb \/ pkt[1].lb) /\ lb_held_down' = pkt[1].lb

mouse_parse_data(pkt) ==
    /\ currPkt' = pkt
    /\ mouse_lb' = pkt[1].lb /\ lb_held_down' = pkt[1].lb

\* ms_data after a handled byte; an invalid one starts the packet again.
ms_collect_keep(byte) ==
    CASE byte = <<>> -> ms_data
      [] byte # <<>> /\ ms_data = <<>> /\ ~byte[1].sync -> <<>>
      [] OTHER -> ms_data \o byte
ms_collect(byte) ==
    CASE byte = <<>> -> <<>>
      [] byte # <<>> /\ ms_data = <<>> /\ ~byte[1].sync -> <<>>
      [] OTHER -> ms_data \o byte

handle_mouse_evt_no_restart ==
    /\ "MOUSE" \in todo
    /\ todo' = todo \ {"MOUSE"} /\ obf' = <<>>
    /\ ms_data' = ms_collect(mouse_ih)
    /\ IF Len(ms_data') = 3
         THEN mouse_parse_data(ms_data')
         ELSE UNCHANGED <<currPkt, mouse_lb, lb_held_down>>
    /\ UNCHANGED <<user, queue, irq, last_kb_byte, lastDoubleByte, kbd_state, movement,
                   unseen, count>>

handle_mouse_evt ==
    /\ "MOUSE" \in todo
    /\ todo' = todo \ {"MOUSE"} /\ obf' = <<>>
    /\ LET data == ms_collect(mouse_ih)
       IN  IF Len(data) = 3
             THEN mouse_parse_data(data) /\ ms_data' = <<>>
             ELSE ms_data' = data /\ UNCHANGED <<currPkt, mouse_lb, lb_held_down>>
    /\ UNCHANGED <<user, queue, irq, last_kb_byte, lastDoubleByte, kbd_state, movement,
                   unseen, count>>

\* A menu screen sees a click and consumes it (render_menu and its like).
MenuClick ==
    /\ Running /\ todo = {} /\ lb_held_down
    /\ lb_held_down' = FALSE
    /\ UNCHANGED <<user, queue, obf, irq, todo, statics, kbd_state, movement, mouse_lb,
                   unseen, count>>

\* The end of a level, in the timer's handler.
init_player_ctrls ==
    /\ Running /\ todo = {} /\ count.resets < MaxResets
    /\ count' = [count EXCEPT !.resets = @ + 1]
    /\ kbd_state' = {} /\ movement' = [x |-> 0, y |-> 0]
    /\ mouse_lb' = FALSE /\ lb_held_down' = FALSE
    /\ unseen' = held \cup {BUTTON}
    /\ UNCHANGED <<user, queue, obf, irq, todo, statics>>

-----------------------------------------------------------------------------
Init ==
    /\ held = {} /\ btn = FALSE /\ latest = {}
    /\ queue = [s \in Source |-> <<>>] /\ obf = <<>> /\ irq = {} /\ todo = {}
    /\ last_kb_byte = 0 /\ lastDoubleByte = FALSE /\ ms_data = <<>> /\ currPkt = <<>>
    /\ kbd_state = {} /\ movement = [x |-> 0, y |-> 0]
    /\ mouse_lb = FALSE /\ lb_held_down = FALSE /\ unseen = {}
    /\ count = [strokes |-> 0, reports |-> 0, errors |-> 0, resets |-> 0]

Hardware == \E s \in Source, err \in BOOLEAN : Receive(s, err)

Next ==
    \/ \E k \in Key : Press(k) \/ Release(k)
    \/ \E b \in BOOLEAN, s2, s3 \in PayloadSync : Report(b, s2, s3)
    \/ Hardware \/ interrupt_handler \/ handle_mouse_evt \/ handle_kbd_evt
    \/ MenuClick \/ init_player_ctrls

Spec == Init /\ [][Next]_vars

(***************************************************************************)
(* The controller hands over what the devices send, and the loop answers   *)
(* what it is notified of; users may do nothing.                           *)
(***************************************************************************)
Fairness ==
    /\ WF_vars(Hardware)
    /\ WF_vars(interrupt_handler) /\ WF_vars(handle_mouse_evt) /\ WF_vars(handle_kbd_evt)

FairSpec == Spec /\ Fairness

-----------------------------------------------------------------------------
\* No byte of a device is on its way to its handler.
Quiet(s) == /\ queue[s] = <<>> /\ s \notin irq \cup todo
            /\ obf = <<>> \/ obf[1].aux # (s = "MOUSE")

ControlOf(k) == kbd_control(KeyCode(k))

\* The handlers drop a damaged byte, and with it what it said.
Undamaged == count.errors = 0

(***************************************************************************)
(* Neither handler takes the other device's byte: as long as a             *)
(* notification waits or is being handled, the buffer it will read holds a *)
(* byte of its own device.  handle_mouse_evt runs before handle_kbd_evt    *)
(* and empties whatever it finds, so a wrong byte would be lost for good.  *)
(***************************************************************************)
OwnByte == \A s \in irq \cup todo : obf # <<>> /\ obf[1].aux = (s = "MOUSE")

(***************************************************************************)
(* A packet handed to mouse_parse_data is one report of the mouse: its     *)
(* three bytes, in their order.  handle_mouse_evt knows first bytes only   *)
(* by bit 3, which the other bytes may have as well, so it stays in step   *)
(* by counting; after a damaged byte it must find its place again.         *)
(***************************************************************************)
WholePackets ==
    currPkt # <<>> => \A i \in 1..3 : currPkt[i].pos = i /\ currPkt[i].report = currPkt[1].report

(***************************************************************************)
(* The two devices are kept apart: a handler finds a byte of its own       *)
(* device in the buffer they share, and a packet handed to                 *)
(* mouse_parse_data is the three bytes of one report in their order, also  *)
(* after damaged bytes, as long as bit 3 marks the first one.              *)
(***************************************************************************)
BytesAreSorted == OwnByte /\ WholePackets

(***************************************************************************)
(* controls.h says of handle_mouse_evt that it "Detects invalid first      *)
(* bytes": what it takes for the first byte of a packet is one.            *)
(***************************************************************************)
FirstByteDetected == ms_data # <<>> => ms_data[1].pos = 1

(***************************************************************************)
(* No control stays on by itself: once the keyboard's bytes are handled, a *)
(* control that kbd_parse_data left on belongs to a key that is held down, *)
(* also when the end of a level cleared the controls under held keys.      *)
(***************************************************************************)
NoStuckControl ==
    (Quiet("KBD") /\ Running /\ Undamaged) =>
        \A c \in kbd_state : \E k \in held : c \in ControlOf(k)

(***************************************************************************)
(* The player walks as the keys say: with the keyboard's bytes handled,    *)
(* the movement is the difference of the keys held down on each axis. This *)
(* is the "issue on keyboard getting stuck sometimes after pressing two    *)
(* buttons of the same axis" that kbd_parse_data claims to have solved.    *)
(***************************************************************************)
MovementFollowsKeys ==
    (Quiet("KBD") /\ Running /\ Undamaged /\ unseen \subseteq {BUTTON}) =>
        LET on == UNION {ControlOf(k) : k \in held}
        IN  movement = [x |-> Axis(on, "x_pos", "x_neg"), y |-> Axis(on, "y_pos", "y_neg")]

(***************************************************************************)
(* The trigger follows the button: with the mouse's bytes handled,         *)
(* mouse_pkt.lb is the button's position at the last report, and a click   *)
(* that waits for a menu was made with it.                                 *)
(***************************************************************************)
ButtonFollowsMouse ==
    /\ (Quiet("MOUSE") /\ Undamaged /\ BUTTON \notin unseen) => mouse_lb = btn
    /\ lb_held_down => mouse_lb

(***************************************************************************)
(* With all bytes handled, the controls are what the user does: no control *)
(* is on without its key, the movement is that of the keys held, and the   *)
(* trigger is the button.                                                  *)
(***************************************************************************)
ControlsFollowUser == NoStuckControl /\ MovementFollowsKeys /\ ButtonFollowsMouse

(***************************************************************************)
(* Releasing Escape ends the main loop for good, whatever the mouse does   *)
(* and whatever keys are pressed or bytes damaged after it: last_kb_byte,  *)
(* which the loop tests, is overwritten by every notification of the       *)
(* keyboard, by 0 if its byte is damaged, but not before the test nor      *)
(* after it.  Only damage to the break code itself can hide it.            *)
(***************************************************************************)
EscapeSent == \E i \in DOMAIN queue.KBD : queue.KBD[i] = BREAKCODE_ESC
EscapeReceived == obf # <<>> /\ ~obf[1].aux /\ obf[1].data = BREAKCODE_ESC

EscapeEndsLoop ==
    /\ EscapeSent ~> (EscapeReceived \/ ~Running)
    /\ (EscapeReceived /\ ~obf[1].err) ~> []~Running
=============================================================================
