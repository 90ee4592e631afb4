-------------------------------- MODULE Uart --------------------------------
(***************************************************************************)
(* The serial driver of lib/uart.c and the 16550 it drives.                *)
(*                                                                         *)
(* The process runs one thing at a time: either a call of the driver's API *)
(* (from the timer tick) or uart_ih.  The hardware runs beside it: a byte  *)
(* leaves the transmitter, a byte arrives, between any two register        *)
(* accesses.  So every API call is one action, uart_ih is one action per   *)
(* register access of its loops, and the hardware steps interleave.        *)
(*                                                                         *)
(* A byte to send is represented by its number in the order of submission; *)
(* a received byte by whether the line damaged it.  in_fifo and out_fifo   *)
(* are the abstract queues that module Queue implements.  The interrupt is *)
(* edge triggered: a notification is queued when the UART's interrupt      *)
(* output rises, not while it stays high.                                  *)
(***************************************************************************)
EXTENDS Integers, Sequences

CONSTANTS MaxSubmit,   \* bound: bytes handed to the driver
          MaxArrive,   \* bound: bytes arriving on the line
          RxDepth      \* receiver FIFO depth of the chip (16 in the 16550)

ASSUME UartConstants ==
    MaxSubmit \in Nat /\ MaxArrive \in Nat /\ RxDepth \in Nat \ {0}

VARIABLES
    can_send,    \* static bool can_send: the transmitter is known to be idle
    out_fifo,    \* numbers of the bytes waiting to be sent
    in_fifo,     \* what the receive path queued: "ERR", "good", "damaged"
    pc,          \* where the process is: "idle", or inside uart_ih
    thr,         \* transmitter holding register: a byte number, 0 if empty
    thri,        \* transmitter-empty interrupt condition, not yet acknowledged
    rx,          \* receiver FIFO of the chip
    overrun,     \* LSR overrun bit
    irq,         \* an interrupt notification waits for the process
    submitted,   \* bytes handed to the driver so far
    written,     \* history: the last byte number written to the THR
    arrived      \* bytes that arrived so far

vars == <<can_send, out_fifo, in_fifo, pc, thr, thri, rx, overrun, irq,
          submitted, written, arrived>>

\* flagged: the parity/framing bit of this byte has not been read from the LSR.
RxByte == [damaged : BOOLEAN, flagged : BOOLEAN]

FlagsOK ==
    /\ can_send \in BOOLEAN /\ thri \in BOOLEAN
    /\ overrun \in BOOLEAN /\ irq \in BOOLEAN
    /\ pc \in {"idle", "loop", "recv", "send"}

QueuesOK ==
    /\ submitted \in Nat /\ written \in 0..submitted /\ arrived \in Nat
    /\ thr \in 0..submitted
    /\ out_fifo \in Seq(1..submitted)
    /\ in_fifo \in Seq({"ERR", "good", "damaged"})
    /\ rx \in Seq(RxByte) /\ Len(rx) <= RxDepth

TypeOK == FlagsOK /\ QueuesOK

-----------------------------------------------------------------------------
(* The chip.                                                               *)

\* IIR_INT is clear: the interrupt output is asserted.
Line == thri \/ rx # <<>> \/ overrun

\* The interrupt output after the step; a rising edge queues a notification.
Edge == irq' = (irq \/ (~Line /\ Line'))

LineStatusInt == overrun \/ (rx # <<>> /\ Head(rx).flagged)

\* The error bits an LSR read returns: OVERRUN, PARITY/FRAMING, FIFO_ERR.
LsrError == overrun \/ \E i \in 1..Len(rx) : rx[i].flagged

\* The shift register takes the byte: THRE rises, and with it the interrupt.
Transfer ==
    /\ thr # 0
    /\ thr' = 0 /\ thri' = TRUE
    /\ UNCHANGED <<can_send, out_fifo, in_fifo, pc, rx, overrun,
                   submitted, written, arrived>>
    /\ Edge

Arrive(d) ==
    /\ arrived < MaxArrive
    /\ arrived' = arrived + 1
    /\ IF Len(rx) < RxDepth
         THEN rx' = Append(rx, [damaged |-> d, flagged |-> d]) /\ UNCHANGED overrun
         ELSE overrun' = TRUE /\ UNCHANGED rx
    /\ UNCHANGED <<can_send, out_fifo, in_fifo, pc, thr, thri, submitted, written>>
    /\ Edge

-----------------------------------------------------------------------------
(* The driver's API, called from game_handler.                             *)

\* Reading the LSR clears the overrun bit and the error bits of the head byte.
ReadLsr ==
    /\ rx' = IF rx = <<>> THEN rx
             ELSE [rx EXCEPT ![1] = [damaged |-> rx[1].damaged, flagged |-> FALSE]]
    /\ overrun' = FALSE

(***************************************************************************)
(* uart_send_byte polls THRE in the LSR UART_MAX_TRIES times: it writes    *)
(* the byte if the holding register is (or, after a Transfer, has become)  *)
(* empty, and otherwise gives up and returns 1.                            *)
(***************************************************************************)
uart_send_byte(b) ==
    /\ ReadLsr
    /\ IF thr = 0 THEN thr' = b /\ thri' = FALSE /\ written' = b
                  ELSE UNCHANGED <<thr, thri, written>>

(***************************************************************************)
(* A sequence of n bytes: the first through uart_safe_transmit, the rest   *)
(* through uart_push_transmit (n = 1 for the bytes of uart_sync, n = 3 in  *)
(* uart_send_data and uart_send_string).  The return value of a direct     *)
(* uart_send_byte is ignored: the byte is then lost.                       *)
(***************************************************************************)

\* The loop of pushes runs one byte past the end of the word.
word_rest_past_end(n) == [i \in 1..n |-> submitted + 1 + i]

\* The bytes that uart_push_transmit queues.
word_rest(n) == [i \in 1..(n - 1) |-> submitted + 1 + i]

\* uart_push_transmit forgets to clear can_send.
still_idle_kept(n) == can_send

\* A direct uart_send_byte keeps can_send; every uart_push_transmit clears it.
still_idle(n) == can_send /\ n = 1

uart_send(n) ==
    /\ pc = "idle" /\ submitted + n <= MaxSubmit
    /\ submitted' = submitted + n
    /\ out_fifo' = IF can_send THEN out_fifo \o word_rest(n)
                               ELSE Append(out_fifo, submitted + 1) \o word_rest(n)
    /\ can_send' = still_idle(n)
    /\ IF can_send THEN uart_send_byte(submitted + 1)
                   ELSE UNCHANGED <<thr, thri, written, rx, overrun>>
    /\ UNCHANGED <<in_fifo, pc, arrived>>
    /\ Edge

empty_transmit_queue ==
    /\ pc = "idle"
    /\ out_fifo' = <<>>
    /\ UNCHANGED <<can_send, in_fifo, pc, thr, thri, rx, overrun, irq,
                   submitted, written, arrived>>

uart_recv_front ==
    /\ pc = "idle" /\ in_fifo # <<>>
    /\ in_fifo' = Tail(in_fifo)
    /\ UNCHANGED <<can_send, out_fifo, pc, thr, thri, rx, overrun, irq,
                   submitted, written, arrived>>

(***************************************************************************)
(* The CLEANUP step of uart_sync: uart_init_fifo clears both chip FIFOs,   *)
(* both queues are emptied, what still arrives is drained, and the join    *)
(* request goes out through uart_safe_transmit.  can_send is not reset.    *)
(* Emptying a holding register that was full raises THRE.                  *)
(***************************************************************************)
cleanup ==
    /\ pc = "idle" /\ submitted < MaxSubmit
    /\ submitted' = submitted + 1
    /\ in_fifo' = <<>> /\ rx' = <<>> /\ overrun' = FALSE
    /\ IF can_send
         THEN /\ thr' = submitted + 1 /\ thri' = FALSE /\ written' = submitted + 1
              /\ out_fifo' = <<>>
         ELSE /\ out_fifo' = <<submitted + 1>>
              /\ thr' = 0 /\ thri' = (thri \/ thr # 0)
              /\ UNCHANGED written
    /\ UNCHANGED <<can_send, pc, arrived>>
    /\ Edge

-----------------------------------------------------------------------------
(* uart_ih: the notification is taken, then the loop over IIR.             *)

uart_ih ==
    /\ pc = "idle" /\ irq
    /\ irq' = FALSE /\ pc' = "loop"
    /\ UNCHANGED <<can_send, out_fifo, in_fifo, thr, thri, rx, overrun,
                   submitted, written, arrived>>

iir_status ==
    /\ LineStatusInt
    /\ ReadLsr
    /\ UNCHANGED <<can_send, out_fifo, in_fifo, pc, thr, thri>>

iir_recv ==
    /\ ~LineStatusInt /\ rx # <<>>
    /\ pc' = "recv"
    /\ UNCHANGED <<can_send, out_fifo, in_fifo, thr, thri, rx, overrun>>

\* Reading IIR acknowledges the transmitter-empty interrupt it reports.
iir_trnsmt_empty_keep ==
    /\ ~LineStatusInt /\ rx = <<>> /\ thri
    /\ thri' = FALSE
    /\ pc' = IF out_fifo = <<>> THEN pc ELSE "send"
    /\ UNCHANGED <<can_send, out_fifo, in_fifo, thr, rx, overrun>>

iir_trnsmt_empty ==
    /\ ~LineStatusInt /\ rx = <<>> /\ thri
    /\ thri' = FALSE
    /\ IF out_fifo = <<>> THEN can_send' = TRUE /\ UNCHANGED pc
                          ELSE pc' = "send" /\ UNCHANGED can_send
    /\ UNCHANGED <<out_fifo, in_fifo, thr, rx, overrun>>

iir_none_unchecked ==
    /\ pc' = "idle"
    /\ UNCHANGED <<can_send, out_fifo, in_fifo, thr, thri, rx, overrun>>

iir_none ==
    /\ ~Line
    /\ pc' = "idle"
    /\ UNCHANGED <<can_send, out_fifo, in_fifo, thr, thri, rx, overrun>>

read_iir ==
    /\ pc = "loop"
    /\ iir_status \/ iir_recv \/ iir_trnsmt_empty \/ iir_none
    /\ UNCHANGED <<submitted, written, arrived>>
    /\ Edge

\* while ((err = uart_receive_byte(&byte)) != 1): LSR, then RBR.
recv_step ==
    /\ pc = "recv"
    /\ IF rx = <<>>
         THEN pc' = "loop" /\ UNCHANGED <<in_fifo, rx, overrun>>
         ELSE LET kind == IF Head(rx).damaged THEN "damaged" ELSE "good" IN
              /\ in_fifo' = IF LsrError THEN in_fifo \o <<"ERR", kind>>
                                        ELSE Append(in_fifo, kind)
              /\ rx' = Tail(rx) /\ overrun' = FALSE
              /\ UNCHANGED pc
    /\ UNCHANGED <<can_send, out_fifo, thr, thri, submitted, written, arrived>>
    /\ Edge

\* while(!queue_empty(out_fifo)): a byte is popped only if it was written.
send_step ==
    /\ pc = "send"
    /\ IF out_fifo = <<>> \/ thr # 0
         THEN /\ can_send' = FALSE /\ pc' = "loop"
              /\ IF out_fifo = <<>> THEN UNCHANGED <<rx, overrun>> ELSE ReadLsr
              /\ UNCHANGED <<out_fifo, thr, thri, written>>
         ELSE /\ uart_send_byte(Head(out_fifo))
              /\ out_fifo' = Tail(out_fifo)
              /\ UNCHANGED <<can_send, pc>>
    /\ UNCHANGED <<in_fifo, submitted, arrived>>
    /\ Edge

-----------------------------------------------------------------------------
(***************************************************************************)
(* init_game enables the interrupts, clears the FIFOs and calls uart_ih    *)
(* itself; the edge of the first transmitter-empty interrupt may have come *)
(* before or after the subscription.                                       *)
(***************************************************************************)
Init ==
    /\ can_send = TRUE /\ out_fifo = <<>> /\ in_fifo = <<>>
    /\ pc = "loop" /\ thr = 0 /\ thri = TRUE
    /\ rx = <<>> /\ overrun = FALSE /\ irq \in BOOLEAN
    /\ submitted = 0 /\ written = 0 /\ arrived = 0

Hardware == Transfer \/ \E d \in BOOLEAN : Arrive(d)

Api == \/ \E n \in {1, 3} : uart_send(n)
       \/ empty_transmit_queue \/ uart_recv_front \/ cleanup

Handler == uart_ih \/ read_iir \/ recv_step \/ send_step

Next == Hardware \/ Api \/ Handler

Spec == Init /\ [][Next]_vars

(***************************************************************************)
(* The chip goes on shifting bytes out, and the main loop goes on taking   *)
(* notifications and finishing uart_ih.  Nothing obliges the game to call  *)
(* the API or the line to deliver bytes.                                   *)
(***************************************************************************)
Fairness == WF_vars(Transfer) /\ WF_vars(Handler)

FairSpec == Spec /\ Fairness

-----------------------------------------------------------------------------
(***************************************************************************)
(* While can_send holds, nothing waits in out_fifo: the byte that          *)
(* uart_safe_transmit then sends directly overtakes no queued one.         *)
(***************************************************************************)
CanSendMeansEmpty == can_send => out_fifo = <<>>

(***************************************************************************)
(* Bytes reach the transmitter in the order they were handed to the        *)
(* driver, none twice, whatever mix of direct writes, queueing and queue   *)
(* cancellation uart_safe_transmit and uart_ih go through.                 *)
(***************************************************************************)
InOrder == [][written' # written => written' > written]_vars

(***************************************************************************)
(* An interrupt cause is never left behind: whenever the chip asserts its  *)
(* output, either a notification waits or uart_ih is running and will read *)
(* IIR again.  With edge-triggered interrupts this is what the outer loop  *)
(* of uart_ih is for.                                                      *)
(***************************************************************************)
NoLostInterrupt == Line => (irq \/ pc # "idle")

(***************************************************************************)
(* A driver that believes the transmitter is busy is going to be told      *)
(* otherwise: the holding register is full, or its interrupt is due, or    *)
(* uart_ih is just refilling it.  So can_send = false is never final,      *)
(* although empty_transmit_queue and cleanup may empty the queue behind    *)
(* its back.                                                               *)
(***************************************************************************)
BusyMeansWakeup ==
    (~can_send \/ pc = "send") =>
        (thr # 0 \/ thri \/ (pc = "send" /\ out_fifo # <<>>))

(***************************************************************************)
(* What waits in out_fifo was submitted after everything already written   *)
(* to the transmitter, and is queued in the order of submission.           *)
(***************************************************************************)
QueueOrdered ==
    /\ \A i \in 1..Len(out_fifo) : out_fifo[i] > written
    /\ \A i, j \in 1..Len(out_fifo) : i < j => out_fifo[i] < out_fifo[j]

(***************************************************************************)
(* Bytes queued for transmission are eventually all handed to the chip or  *)
(* cancelled, and the transmitter is found idle again: uart_ih never       *)
(* strands out_fifo or leaves can_send false for ever.                     *)
(***************************************************************************)
QueueDrains == ~can_send ~> (can_send /\ out_fifo = <<>>)

(***************************************************************************)
(* A byte the chip holds is eventually read out by uart_ih.                *)
(***************************************************************************)
ReceiverDrains == (rx # <<>>) ~> (rx = <<>>)

(***************************************************************************)
(* Both directions of the driver drain: what uart_push_transmit queues is  *)
(* sent, and what the chip receives is read by uart_ih.                    *)
(***************************************************************************)
DriverDrains == QueueDrains /\ ReceiverDrains

(***************************************************************************)
(* uart.h says uart_receive_byte returns OK "if no errors occurred", and   *)
(* uart_ih queues UART_ERROR_CODE in front of a byte received with an      *)
(* error: a damaged byte is never queued without its marker.               *)
(***************************************************************************)
DamagedIsMarked ==
    [][LET n == Len(in_fifo') IN
         (n > Len(in_fifo) /\ in_fifo'[n] = "damaged") =>
             (n > 1 /\ in_fifo'[n - 1] = "ERR")]_vars
=============================================================================
