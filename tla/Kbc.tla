--------------------------------- MODULE Kbc --------------------------------
(***************************************************************************)
(* The keyboard controller when it is polled: the commands that init_game  *)
(* and free_game send to the mouse through lib/kbc.c, and the interrupts   *)
(* of the main loop between them (module Input has the details of these).  *)
(*                                                                         *)
(* A status read and the write that depends on it are separate calls, and  *)
(* the i8042 may fill its output buffer between them.  A full buffer stays *)
(* full while the program polls, and the mouse answers within the          *)
(* KBC_MAX_TRIES polls of read_byte_kbc, so of the inner polling loops     *)
(* only the outcome is kept.  The input buffer is empty whenever it is     *)
(* looked at.                                                              *)
(***************************************************************************)
EXTENDS Integers, Sequences

CONSTANTS
    KBC_MAX_TRIES,   \* attempts of write_ms_cmd
    MaxKeys,         \* bound: bytes from the keyboard
    MaxReports,      \* bound: bytes from the mouse that are not answers
    MaxErrors        \* bound: bytes with a parity or timeout error

KbcConstants ==
    /\ KBC_MAX_TRIES \in Nat \ {0}
    /\ {MaxKeys, MaxReports, MaxErrors} \subseteq Nat

VARIABLES
    pc,              \* where the program is: see Position
    failed,          \* the steps of the scripts that returned an error
    masked, irq,     \* the two interrupt lines, and their notifications
    obf,             \* output buffer, empty or one byte with its status bits
    keys, mq,        \* bytes the keyboard and the mouse have yet to send
    mouse,           \* what the mouse has been told
    count            \* counters for the bounds; early counts the keys and
                     \* damaged bytes before the main loop

hardware == <<obf, keys, mq, mouse, count>>
vars == <<pc, failed, masked, irq, hardware>>

Source == {"KBD", "MOUSE"}

\* What init_game and free_game do with the controller, in order.
Step(op, args) == [op |-> op, args |-> args]
init_game_stream_late ==
    << Step("disable", <<>>), Step("mouse", <<"F5">>), Step("mouse", <<"F4">>),
       Step("mouse", <<"EA">>), Step("byte", <<"A8">>), Step("mouse", <<"F3", "60">>),
       Step("mouse", <<"E8", "0">>), Step("enable", <<>>) >>
init_game_unmasked ==
    << Step("enable", <<>>), Step("mouse", <<"F5">>), Step("mouse", <<"EA">>),
       Step("mouse", <<"F4">>), Step("byte", <<"A8">>), Step("mouse", <<"F3", "60">>),
       Step("mouse", <<"E8", "0">>), Step("enable", <<>>) >>
init_game_no_enable ==
    << Step("disable", <<>>), Step("mouse", <<"F5">>), Step("mouse", <<"EA">>),
       Step("mouse", <<"F4">>), Step("byte", <<"A8">>), Step("mouse", <<"F3", "60">>),
       Step("mouse", <<"E8", "0">>) >>
init_game ==
    << Step("disable", <<>>),
       Step("mouse", <<"F5">>), Step("mouse", <<"EA">>), Step("mouse", <<"F4">>),
       Step("byte", <<"A8">>),
       Step("mouse", <<"F3", "60">>), Step("mouse", <<"E8", "0">>),
       Step("enable", <<>>) >>
Required == 2..5     \* the steps of init_game whose error it returns

free_game ==
    << Step("disable", <<>>), Step("mouse", <<"F5">>), Step("mouse", <<"F6">>),
       Step("cmdbyte", <<"dflt">>), Step("enable", <<>>) >>
Disable == 2         \* its error makes ms_set_default skip the next step

Script(phase) == IF phase = "init" THEN init_game ELSE free_game

\* k: step of the script; i: argument; at: D4 written, status read, ack awaited
Position == [phase : {"init", "loop", "free", "done"}, k : 1..8, i : 1..2,
             at : {"cmd", "poll", "arg", "ack"}, tries : 0..(KBC_MAX_TRIES - 1)]
Start(phase, k) == [phase |-> phase, k |-> k, i |-> 1, at |-> "cmd", tries |-> 0]

Command == {"F5", "EA", "F4", "F3", "E8", "F6"}

TypeOK ==
    /\ pc \in Position /\ failed \subseteq {"init", "free"} \X (1..8)
    /\ masked \in BOOLEAN /\ irq \subseteq Source
    /\ Len(obf) \in 0..1
    /\ \A n \in 1..Len(obf) : obf[n] \in [src : Source, err : BOOLEAN,
                                           data : {"key", "move", "ACK", "NAK"}]
    /\ keys \in 0..MaxKeys /\ mq \in Seq({"move", "ACK", "NAK"})
    /\ mouse \in [reporting : BOOLEAN, awaits : {"none", "F3", "E8"},
                  rate : {"default", "60"}, resolution : {"default", "0"}]

-----------------------------------------------------------------------------
(* The devices and the controller.                                         *)

KeyByte ==
    /\ count.keys < MaxKeys /\ pc.phase # "done"
    /\ keys' = keys + 1
    /\ count' = [count EXCEPT !.keys = @ + 1, !.early = IF pc.phase = "init" THEN @ + 1 ELSE @]
    /\ UNCHANGED <<pc, failed, masked, irq, obf, mq, mouse>>

\* A mouse in stream mode, with data reporting on and no argument due.
MouseMoves ==
    /\ count.reports < MaxReports /\ pc.phase # "done"
    /\ mouse.reporting /\ mouse.awaits = "none"
    /\ mq' = Append(mq, "move") /\ count' = [count EXCEPT !.reports = @ + 1]
    /\ UNCHANGED <<pc, failed, masked, irq, obf, keys, mouse>>

Fill(s, data, err) ==
    /\ obf = <<>> /\ pc.phase # "done"
    /\ err => count.errors < MaxErrors
    /\ count' = [count EXCEPT !.errors = IF err THEN @ + 1 ELSE @,
                              !.early = IF err /\ pc.phase = "init" THEN @ + 1 ELSE @]
    /\ obf' = <<[src |-> s, err |-> err, data |-> data]>>
    /\ irq' = IF masked THEN irq ELSE irq \cup {s}
    /\ UNCHANGED <<pc, failed, masked, mouse>>

FromKeyboard(err) == keys > 0 /\ keys' = keys - 1 /\ Fill("KBD", "key", err) /\ UNCHANGED mq
FromMouse(err) == mq # <<>> /\ mq' = Tail(mq) /\ Fill("MOUSE", Head(mq), err) /\ UNCHANGED keys

\* The mouse drops what it was about to send and answers the byte it gets.
MouseTakes(b) ==
    LET arg == mouse.awaits # "none"
        known == IF arg THEN <<mouse.awaits, b>> \in {<<"F3", "60">>, <<"E8", "0">>}
                        ELSE b \in Command
    IN  /\ mq' = <<IF known THEN "ACK" ELSE "NAK">>
        /\ mouse' = CASE ~known -> mouse
                      [] known /\ arg /\ b = "60" -> [mouse EXCEPT !.awaits = "none", !.rate = b]
                      [] known /\ arg /\ b = "0" ->
                           [mouse EXCEPT !.awaits = "none", !.resolution = b]
                      [] known /\ b \in {"F3", "E8"} -> [mouse EXCEPT !.awaits = b]
                      [] known /\ b = "F4" -> [mouse EXCEPT !.reporting = TRUE]
                      [] known /\ b = "F5" -> [mouse EXCEPT !.reporting = FALSE]
                      [] known /\ b = "F6" -> [reporting |-> FALSE, awaits |-> "none",
                                               rate |-> "default", resolution |-> "default"]
                      [] OTHER -> mouse

-----------------------------------------------------------------------------
(* The program.                                                            *)

Polling == pc.phase \in {"init", "free"}
Current == Script(pc.phase)[pc.k]
Error == obf # <<>> /\ obf[1].err

\* The step is over: on to the next one, out of init_game with its error
\* (which proj_main_loop does not look at) or past a step that is skipped.
Return(ok) ==
    LET leave == ~ok /\ pc.phase = "init" /\ pc.k \in Required
        next == pc.k + (IF ~ok /\ pc.phase = "free" /\ pc.k = Disable THEN 2 ELSE 1)
    IN  /\ failed' = IF ok THEN failed ELSE failed \cup {<<pc.phase, pc.k>>}
        /\ pc' = IF leave \/ next > Len(Script(pc.phase))
                   THEN Start(IF pc.phase = "init" THEN "loop" ELSE "done", 1)
                   ELSE Start(pc.phase, next)

kbc_disable_int ==
    /\ Polling /\ Current.op = "disable"
    /\ masked' = TRUE
    /\ Return(TRUE) /\ UNCHANGED <<irq, hardware>>

\* A byte that came meanwhile still asserts its line.
kbc_enable_int ==
    /\ Polling /\ Current.op = "enable"
    /\ masked' = FALSE
    /\ irq' = irq \cup {obf[n].src : n \in DOMAIN obf}
    /\ Return(TRUE) /\ UNCHANGED hardware

\* write_ms_cmd begins again with the first argument, or gives up.
Retry_forever == pc' = [pc EXCEPT !.i = 1, !.at = "cmd"] /\ UNCHANGED failed
Retry_once_more ==
    IF Current.op = "mouse" /\ pc.tries < KBC_MAX_TRIES
      THEN pc' = [pc EXCEPT !.tries = @ + 1, !.i = 1, !.at = "cmd"] /\ UNCHANGED failed
      ELSE Return(FALSE)
Retry ==
    IF Current.op = "mouse" /\ pc.tries + 1 < KBC_MAX_TRIES
      THEN pc' = [pc EXCEPT !.tries = @ + 1, !.i = 1, !.at = "cmd"] /\ UNCHANGED failed
      ELSE Return(FALSE)

\* Commands to the controller itself: enable_ms, MOUSE_WRITE_CMD, KBC_WRITE_CMD.
write_byte_kbc ==
    /\ Polling /\ Current.op \in {"mouse", "byte", "cmdbyte"} /\ pc.at = "cmd"
    /\ CASE Error -> Retry
         [] ~Error /\ Current.op = "byte" -> Return(TRUE)
         [] OTHER -> pc' = [pc EXCEPT !.at = "poll"] /\ UNCHANGED failed
    /\ UNCHANGED <<masked, irq, hardware>>

write_arg_kbc_poll ==
    /\ Polling /\ pc.at = "poll"
    /\ IF obf = <<>> THEN pc' = [pc EXCEPT !.at = "arg"] /\ UNCHANGED failed ELSE Retry
    /\ UNCHANGED <<masked, irq, hardware>>

write_arg_kbc ==
    /\ Polling /\ pc.at = "arg"
    /\ IF Current.op = "cmdbyte"
         THEN Return(TRUE) /\ UNCHANGED <<mq, mouse>>
         ELSE /\ MouseTakes(Current.args[pc.i])
              /\ pc' = [pc EXCEPT !.at = "ack"] /\ UNCHANGED failed
    /\ UNCHANGED <<masked, irq, obf, keys, count>>

\* A byte with an error is not read, and stays.
read_byte_kbc ==
    /\ Polling /\ pc.at = "ack" /\ obf # <<>>
    /\ obf' = IF Error THEN obf ELSE <<>>
    /\ CASE Error \/ obf[1].data # "ACK" -> Retry
         [] ~Error /\ obf[1].data = "ACK" /\ pc.i < Len(Current.args) ->
              pc' = [pc EXCEPT !.i = @ + 1, !.at = "cmd"] /\ UNCHANGED failed
         [] OTHER -> Return(TRUE)
    /\ UNCHANGED <<masked, irq, keys, mq, mouse, count>>

\* kbc_ih or mouse_ih; any byte may be the one that makes the loop end.
interrupt_handler(s) ==
    /\ pc.phase = "loop" /\ s \in irq
    /\ irq' = irq \ {s} /\ obf' = <<>>
    /\ \E phase \in {"loop", "free"} : pc' = Start(phase, 1)
    /\ UNCHANGED <<failed, masked, keys, mq, mouse, count>>

-----------------------------------------------------------------------------
\* Both lines have just been subscribed; the mouse is as free_game leaves it.
Init ==
    /\ pc = Start("init", 1) /\ failed = {} /\ masked = FALSE /\ irq = {}
    /\ obf = <<>> /\ keys = 0 /\ mq = <<>>
    /\ mouse = [reporting |-> FALSE, awaits |-> "none", rate |-> "default",
                resolution |-> "default"]
    /\ count = [keys |-> 0, reports |-> 0, errors |-> 0, early |-> 0]

Controller == \E err \in BOOLEAN : FromKeyboard(err) \/ FromMouse(err)
Program == \/ kbc_disable_int \/ kbc_enable_int \/ write_byte_kbc \/ write_arg_kbc_poll
           \/ write_arg_kbc \/ read_byte_kbc \/ \E s \in Source : interrupt_handler(s)

Next == KeyByte \/ MouseMoves \/ Controller \/ Program

Spec == Init /\ [][Next]_vars

\* The controller passes bytes on, and the program is scheduled.
FairSpec == Spec /\ WF_vars(Controller) /\ WF_vars(Program)

-----------------------------------------------------------------------------
(***************************************************************************)
(* Polling and interrupts do not get into each other's way: a notification *)
(* that waits still finds its own byte in the buffer, although the polling *)
(* functions read the same buffer and a byte may have come in after the    *)
(* lines were subscribed and before kbc_disable_int.                       *)
(***************************************************************************)
NotifiedByteIsThere == pc.phase # "done" => \A s \in irq : obf # <<>> /\ obf[1].src = s

(***************************************************************************)
(* init_game and free_game come to an end whatever the devices do: with    *)
(* keys, movements and damaged bytes at any moment, write_ms_cmd gives up  *)
(* after KBC_MAX_TRIES.                                                    *)
(***************************************************************************)
PollingEnds == \A p \in {"init", "free"} : (pc.phase = p) ~> (pc.phase # p)

\* init_game has not returned an error, whatever later steps did.
Started == \A k \in Required : <<"init", k>> \notin failed

(***************************************************************************)
(* As long as no key is touched and no byte damaged, init_game does not    *)
(* return early, even when the mouse moves as soon as it may: the required *)
(* steps are over before enable_data_reporting lets it speak               *)
(* (enable_stream), and enable_ms awaits no answer.                        *)
(***************************************************************************)
StartsUp == count.early = 0 => Started

(***************************************************************************)
(* In a game that started up no byte stays in the output buffer, where it  *)
(* would block both devices: its interrupt is enabled and was not lost.    *)
(***************************************************************************)
LoopHears == (pc.phase = "loop" /\ Started /\ obf # <<>>) ~> (obf = <<>>)

(***************************************************************************)
(* kbc.h says of write_ms_cmd that it "Tries multiple times when recieving *)
(* acknowledgment errors": it does not fail with the acknowledgement of    *)
(* the mouse in the output buffer.                                         *)
(***************************************************************************)
RetryFindsAck ==
    [][\A f \in failed' \ failed : ~(obf # <<>> /\ obf[1].data = "ACK" /\ ~obf[1].err)]_vars

(***************************************************************************)
(* level_manager.h says of init_game "OK if no errors occurred": when it   *)
(* has run to its end, every command to the mouse has succeeded.           *)
(***************************************************************************)
OkMeansNoErrors ==
    (pc.phase = "loop" /\ ~masked) => \A k \in 1..8 : <<"init", k>> \notin failed
=============================================================================
