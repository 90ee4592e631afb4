----------------------------- MODULE SerialProofs ---------------------------
(***************************************************************************)
(* Theorems about the serial port: the driver of module Uart, for every    *)
(* MaxSubmit, MaxArrive and RxDepth, and the linked list of lib/queue.c    *)
(* (module Queue), which is sound and implements the abstract queue of     *)
(* module Fifo, for any heap.                                              *)
(***************************************************************************)
EXTENDS MCSerial, SequenceTheorems, FiniteSetTheorems, WellFoundedInduction, TLAPS

-----------------------------------------------------------------------------
(***************************************************************************)
(* Module Uart.  The transmit path is correct because of four facts that   *)
(* only hold together: nothing is queued while can_send holds, the queue   *)
(* is in order and later than what was written, a busy driver has a        *)
(* wake-up coming, and no interrupt cause is left behind.                  *)
(***************************************************************************)
IInv == TypeOK /\ CanSendMeansEmpty /\ QueueOrdered
               /\ BusyMeansWakeup /\ NoLostInterrupt

(***************************************************************************)
(* The elements of a concatenation; every send appends to out_fifo.        *)
(***************************************************************************)
LEMMA ConcatElements ==
    ASSUME NEW S, NEW s \in Seq(S), NEW t \in Seq(S)
    PROVE  /\ s \o t \in Seq(S)
           /\ Len(s \o t) = Len(s) + Len(t)
           /\ \A i \in 1..(Len(s) + Len(t)) :
                (s \o t)[i] = IF i <= Len(s) THEN s[i] ELSE t[i - Len(s)]
BY ConcatProperties

(***************************************************************************)
(* Taking the front element, as send_step and uart_recv_front do.          *)
(***************************************************************************)
LEMMA TailElements ==
    ASSUME NEW S, NEW s \in Seq(S), s # <<>>
    PROVE  /\ Head(s) \in S /\ Head(s) = s[1] /\ Len(s) >= 1
           /\ Tail(s) \in Seq(S) /\ Len(Tail(s)) = Len(s) - 1
           /\ \A i \in 1..(Len(s) - 1) : Tail(s)[i] = s[i + 1]
BY HeadTailProperties

(***************************************************************************)
(* A queue of submitted bytes stays one when more bytes are submitted.     *)
(***************************************************************************)
LEMMA SubmittedGrows ==
    ASSUME NEW m \in Nat, NEW n \in Nat, m <= n, NEW s \in Seq(1..m)
    PROVE  s \in Seq(1..n)
<1>1. \A i \in 1..Len(s) : s[i] \in 1..n
  BY ElementOfSeq
<1>2. s \in [1..Len(s) -> 1..n] /\ Len(s) \in Nat
  BY <1>1, LenProperties
<1> QED
  BY <1>2, SeqDef

(***************************************************************************)
(* The initial state set up by init_game satisfies the inductive           *)
(* invariant.                                                              *)
(***************************************************************************)
LEMMA UartInit == Init => IInv
<1> SUFFICES ASSUME Init PROVE IInv
  OBVIOUS
<1>1. QueuesOK
  BY UartConstants, EmptySeq DEF UartConstants, Init, QueuesOK
<1>2. FlagsOK
  BY DEF Init, FlagsOK
<1>3. CanSendMeansEmpty /\ QueueOrdered
  BY DEF Init, CanSendMeansEmpty, QueueOrdered
<1>4. BusyMeansWakeup /\ NoLostInterrupt
  BY DEF Init, BusyMeansWakeup, NoLostInterrupt
<1> QED
  BY <1>1, <1>2, <1>3, <1>4 DEF IInv, TypeOK

(***************************************************************************)
(* Reading the LSR leaves the receiver FIFO well formed.                   *)
(***************************************************************************)
LEMMA ReadLsrType ==
    ASSUME QueuesOK, ReadLsr
    PROVE  rx' \in Seq(RxByte) /\ Len(rx') = Len(rx) /\ overrun' = FALSE
<1>1. CASE rx = <<>>
  BY <1>1 DEF ReadLsr, QueuesOK
<1>2. CASE rx # <<>>
  <2> DEFINE h == [damaged |-> rx[1].damaged, flagged |-> FALSE]
  <2> DEFINE r == [rx EXCEPT ![1] = h]
  <2>1. rx \in Seq(RxByte) /\ Len(rx) \in Nat /\ 1 \in 1..Len(rx)
    BY <1>2, EmptySeq, LenProperties DEF QueuesOK
  <2>2. rx[1] \in RxByte
    BY <2>1, ElementOfSeq
  <2>3. h \in RxByte
    BY <2>2 DEF RxByte
  <2>4. r \in Seq(RxByte) /\ Len(r) = Len(rx)
    BY <2>1, <2>3, ExceptSeq
  <2>5. rx' = r /\ overrun' = FALSE
    BY <1>2 DEF ReadLsr
  <2> QED
    BY <2>4, <2>5
<1> QED
  BY <1>1, <1>2

(***************************************************************************)
(* A step that goes through Edge and does not make the process idle leaves *)
(* no interrupt cause behind.                                              *)
(***************************************************************************)
LEMMA EdgeKeepsInterrupt ==
    ASSUME NoLostInterrupt, Edge, pc' = pc \/ pc' # "idle"
    PROVE  NoLostInterrupt' /\ irq' \in BOOLEAN
BY DEF NoLostInterrupt, Edge

(***************************************************************************)
(* The chip's steps keep the inductive invariant.                          *)
(***************************************************************************)
LEMMA HardwareStep == IInv /\ Hardware => IInv'
<1> SUFFICES ASSUME IInv, Hardware PROVE IInv'
  OBVIOUS
<1> USE DEF IInv, TypeOK
<1>1. CASE Transfer
  <2>1. FlagsOK' /\ NoLostInterrupt'
    BY <1>1, EdgeKeepsInterrupt DEF Transfer, FlagsOK
  <2>2. QueuesOK'
    BY <1>1 DEF Transfer, QueuesOK
  <2>3. CanSendMeansEmpty' /\ QueueOrdered'
    BY <1>1 DEF Transfer, CanSendMeansEmpty, QueueOrdered
  <2>4. BusyMeansWakeup'
    BY <1>1 DEF Transfer, BusyMeansWakeup
  <2> QED
    BY <2>1, <2>2, <2>3, <2>4
<1>2. ASSUME NEW d \in BOOLEAN, Arrive(d) PROVE IInv'
  <2>1. FlagsOK' /\ NoLostInterrupt'
    BY <1>2, EdgeKeepsInterrupt DEF Arrive, FlagsOK
  <2>2. rx' \in Seq(RxByte) /\ Len(rx') <= RxDepth
    <3>1. CASE Len(rx) < RxDepth
      <4> DEFINE e == [damaged |-> d, flagged |-> d]
      <4>1. e \in RxByte
        BY DEF RxByte
      <4>2. rx \in Seq(RxByte) /\ rx' = Append(rx, e) /\ Len(rx) \in Nat
        BY <1>2, <3>1, LenProperties DEF Arrive, QueuesOK
      <4> HIDE DEF e
      <4>3. rx' \in Seq(RxByte) /\ Len(rx') = Len(rx) + 1
        BY <4>1, <4>2, AppendProperties
      <4> QED
        BY <3>1, <4>2, <4>3, UartConstants DEF UartConstants
    <3>2. CASE ~(Len(rx) < RxDepth)
      BY <1>2, <3>2 DEF Arrive, QueuesOK
    <3> QED
      BY <3>1, <3>2
  <2>3. QueuesOK'
    BY <1>2, <2>2 DEF Arrive, QueuesOK
  <2>4. CanSendMeansEmpty' /\ QueueOrdered'
    BY <1>2 DEF Arrive, CanSendMeansEmpty, QueueOrdered
  <2>5. BusyMeansWakeup'
    BY <1>2 DEF Arrive, BusyMeansWakeup
  <2> QED
    BY <2>1, <2>3, <2>4, <2>5
<1> QED
  BY <1>1, <1>2 DEF Hardware

(***************************************************************************)
(* uart_send_byte puts at most the given byte into the holding register,   *)
(* which is full afterwards in either case.                                *)
(***************************************************************************)
LEMMA SendByteEffect ==
    ASSUME QueuesOK, NEW b \in Nat \ {0}, uart_send_byte(b)
    PROVE  /\ thr' # 0 /\ thr' \in {thr, b} /\ written' \in {written, b}
           /\ rx' \in Seq(RxByte) /\ Len(rx') = Len(rx) /\ overrun' = FALSE
           /\ thri' \in {thri, FALSE}
<1>1. rx' \in Seq(RxByte) /\ Len(rx') = Len(rx) /\ overrun' = FALSE
  BY ReadLsrType DEF uart_send_byte
<1>2. thri' \in {thri, FALSE}
  BY DEF uart_send_byte
<1>3. thr' # 0 /\ thr' \in {thr, b} /\ written' \in {written, b}
  BY DEF uart_send_byte, QueuesOK
<1> QED
  BY <1>1, <1>2, <1>3

(***************************************************************************)
(* The bytes a send pushes are numbered after the first one, in order.     *)
(***************************************************************************)
LEMMA WordRest ==
    ASSUME submitted \in Nat, NEW n \in {1, 3}
    PROVE  /\ word_rest(n) \in Seq(1..(submitted + n))
           /\ Len(word_rest(n)) = n - 1
           /\ \A i \in 1..(n - 1) : word_rest(n)[i] = submitted + 1 + i
<1> DEFINE w == [i \in 1..(n - 1) |-> submitted + 1 + i]
<1>1. n - 1 \in Nat /\ \A i \in 1..(n - 1) : submitted + 1 + i \in 1..(submitted + n)
  OBVIOUS
<1>2. w \in [1..(n - 1) -> 1..(submitted + n)]
  BY <1>1
<1>3. w \in Seq(1..(submitted + n))
  BY <1>1, <1>2, SeqDef
<1>4. Len(w) = n - 1
  <2>1. Len(w) \in Nat /\ DOMAIN w = 1..Len(w) /\ DOMAIN w = 1..(n - 1)
    BY <1>3, LenProperties
  <2> QED
    BY <2>1, <1>1
<1> QED
  BY <1>3, <1>4 DEF word_rest

(***************************************************************************)
(* What out_fifo becomes in uart_send: its old elements, then numbers in   *)
(* increasing order above all submitted before.                            *)
(***************************************************************************)
LEMMA SendQueue ==
    ASSUME QueuesOK, QueueOrdered, CanSendMeansEmpty,
           NEW n \in {1, 3}, uart_send(n)
    PROVE  /\ out_fifo' \in Seq(1..submitted')
           /\ \A i \in 1..Len(out_fifo') : out_fifo'[i] > written
           /\ can_send => \A i \in 1..Len(out_fifo') : out_fifo'[i] > submitted + 1
           /\ \A i, j \in 1..Len(out_fifo') : i < j => out_fifo'[i] < out_fifo'[j]
           /\ ~can_send => out_fifo' # <<>>
           /\ (can_send /\ n = 1) => out_fifo' = <<>>
<1> DEFINE m == submitted + n
           w == word_rest(n)
<1>1. /\ submitted \in Nat /\ m \in Nat /\ submitted <= m /\ submitted' = m
      /\ written \in 0..submitted /\ submitted + 1 \in 1..m
  BY DEF uart_send, QueuesOK
<1>2. /\ w \in Seq(1..m) /\ Len(w) = n - 1
      /\ \A i \in 1..(n - 1) : w[i] = submitted + 1 + i
  BY <1>1, WordRest
<1>3. out_fifo \in Seq(1..submitted)
  BY DEF QueuesOK
<1>4. out_fifo \in Seq(1..m)
  BY <1>1, <1>3, SubmittedGrows
<1>5. Len(out_fifo) \in Nat /\ \A i \in 1..Len(out_fifo) : out_fifo[i] \in 1..submitted
  BY <1>3, LenProperties, ElementOfSeq
<1> HIDE DEF m, w
<1>6. CASE can_send
  <2>1. out_fifo = <<>> /\ out_fifo' = out_fifo \o w
    BY <1>6 DEF CanSendMeansEmpty, uart_send, w
  <2>2. out_fifo' = w
    BY <2>1, <1>2, ConcatEmptySeq
  <2>3. n = 1 => w = <<>>
    BY <1>2, EmptySeq
  <2> QED
    BY <1>1, <1>2, <1>6, <2>2, <2>3
<1>7. CASE ~can_send
  <2> DEFINE a == Append(out_fifo, submitted + 1)
  <2>1. /\ a \in Seq(1..m) /\ Len(a) = Len(out_fifo) + 1
        /\ \A i \in 1..Len(out_fifo) : a[i] = out_fifo[i]
        /\ a[Len(out_fifo) + 1] = submitted + 1
    BY <1>1, <1>4, AppendProperties
  <2>2. out_fifo' = a \o w
    BY <1>7 DEF uart_send, w
  <2> HIDE DEF a
  <2>3. /\ a \o w \in Seq(1..m)
        /\ Len(a \o w) = Len(out_fifo) + n
        /\ \A i \in 1..(Len(out_fifo) + n) : (a \o w)[i] =
             IF i <= Len(out_fifo) THEN out_fifo[i]
                                   ELSE submitted + i - Len(out_fifo)
    <3>1. Len(a) + Len(w) = Len(out_fifo) + n
      BY <1>2, <1>5, <2>1
    <3>2. /\ a \o w \in Seq(1..m) /\ Len(a \o w) = Len(out_fifo) + n
          /\ \A i \in 1..(Len(out_fifo) + n) :
               (a \o w)[i] = IF i <= Len(a) THEN a[i] ELSE w[i - Len(a)]
      BY <1>2, <2>1, <3>1, ConcatElements
    <3>3. ASSUME NEW i \in 1..(Len(out_fifo) + n)
          PROVE  (a \o w)[i] = IF i <= Len(out_fifo) THEN out_fifo[i]
                                            ELSE submitted + i - Len(out_fifo)
      <4>1. CASE i <= Len(out_fifo)
        BY <1>5, <2>1, <3>2, <4>1
      <4>2. CASE i = Len(out_fifo) + 1
        BY <1>1, <1>5, <2>1, <3>2, <4>2
      <4>3. CASE i > Len(out_fifo) + 1
        <5>1. i - Len(a) \in 1..(n - 1) /\ ~(i <= Len(a))
          BY <1>5, <2>1, <4>3
        <5>2. (a \o w)[i] = submitted + 1 + (i - Len(a))
          BY <1>2, <3>2, <5>1
        <5> QED
          BY <1>1, <1>5, <2>1, <4>3, <5>2
      <4>4. i <= Len(out_fifo) \/ i = Len(out_fifo) + 1 \/ i > Len(out_fifo) + 1
        BY <1>5
      <4> QED
        BY <4>1, <4>2, <4>3, <4>4
    <3> QED
      BY <3>2, <3>3
  <2>4. \A i \in 1..Len(out_fifo) : out_fifo[i] > written
    BY DEF QueueOrdered
  <2>5. \A i, j \in 1..Len(out_fifo) : i < j => out_fifo[i] < out_fifo[j]
    BY DEF QueueOrdered
  <2>6. ASSUME NEW i \in 1..Len(out_fifo')
        PROVE  out_fifo'[i] > written
    <3>1. i \in 1..(Len(out_fifo) + n) /\ n \in Nat
      BY <2>2, <2>3
    <3>2. CASE i <= Len(out_fifo)
      BY <1>5, <2>2, <2>3, <2>4, <3>1, <3>2
    <3>3. CASE i > Len(out_fifo)
      <4>1. out_fifo'[i] = submitted + i - Len(out_fifo)
        BY <1>5, <2>2, <2>3, <3>1, <3>3
      <4> QED
        BY <1>1, <1>5, <3>1, <3>3, <4>1
    <3> QED
      BY <1>5, <3>1, <3>2, <3>3
  <2>7. ASSUME NEW i \in 1..Len(out_fifo'), NEW j \in 1..Len(out_fifo'), i < j
        PROVE  out_fifo'[i] < out_fifo'[j]
    <3>1. i \in 1..(Len(out_fifo) + n) /\ j \in 1..(Len(out_fifo) + n) /\ n \in Nat
      BY <2>2, <2>3
    <3>2. CASE j <= Len(out_fifo)
      <4>1. i \in 1..Len(out_fifo) /\ j \in 1..Len(out_fifo)
        BY <1>5, <2>7, <3>1, <3>2
      <4>2. out_fifo'[i] = out_fifo[i] /\ out_fifo'[j] = out_fifo[j]
        BY <1>5, <2>2, <2>3, <3>1, <4>1
      <4> QED
        BY <2>5, <2>7, <4>1, <4>2
    <3>3. CASE j > Len(out_fifo)
      <4>1. out_fifo'[j] = submitted + j - Len(out_fifo)
        BY <1>5, <2>2, <2>3, <3>1, <3>3
      <4>2. CASE i <= Len(out_fifo)
        <5>1. out_fifo'[i] = out_fifo[i] /\ out_fifo[i] \in 1..submitted
          BY <1>5, <2>2, <2>3, <3>1, <4>2
        <5> QED
          BY <1>1, <1>5, <3>1, <3>3, <4>1, <5>1
      <4>3. CASE i > Len(out_fifo)
        <5>1. out_fifo'[i] = submitted + i - Len(out_fifo)
          BY <1>5, <2>2, <2>3, <3>1, <4>3
        <5> QED
          BY <1>1, <1>5, <2>7, <3>1, <4>1, <5>1
      <4> QED
        BY <1>5, <3>1, <4>2, <4>3
    <3> QED
      BY <1>5, <3>1, <3>2, <3>3
  <2>8. out_fifo' # <<>>
    BY <1>5, <2>2, <2>3, EmptySeq
  <2> QED
    BY <1>1, <1>7, <2>2, <2>3, <2>6, <2>7, <2>8
<1> QED
  BY <1>6, <1>7

(***************************************************************************)
(* The calls of the driver's API keep the inductive invariant.             *)
(***************************************************************************)
LEMMA ApiStep == IInv /\ Api => IInv'
<1> SUFFICES ASSUME IInv, Api PROVE IInv'
  OBVIOUS
<1> USE DEF IInv, TypeOK
<1>1. ASSUME NEW n \in {1, 3}, uart_send(n) PROVE IInv'
  <2>1. /\ submitted \in Nat /\ submitted + 1 \in Nat \ {0}
        /\ submitted' = submitted + n /\ submitted' \in Nat
        /\ submitted + 1 \in 1..submitted' /\ 0..submitted \subseteq 0..submitted'
    BY <1>1 DEF uart_send, QueuesOK
  <2>2. /\ out_fifo' \in Seq(1..submitted')
        /\ \A i \in 1..Len(out_fifo') : out_fifo'[i] > written
        /\ can_send => \A i \in 1..Len(out_fifo') : out_fifo'[i] > submitted + 1
        /\ \A i, j \in 1..Len(out_fifo') : i < j => out_fifo'[i] < out_fifo'[j]
        /\ (can_send /\ n = 1) => out_fifo' = <<>>
    BY <1>1, SendQueue
  <2>3. CASE can_send
    <3>1. uart_send_byte(submitted + 1)
      BY <1>1, <2>3 DEF uart_send
    <3>2. /\ thr' # 0 /\ thr' \in {thr, submitted + 1}
          /\ written' \in {written, submitted + 1}
          /\ rx' \in Seq(RxByte) /\ Len(rx') = Len(rx) /\ overrun' = FALSE
          /\ thri' \in {thri, FALSE}
      BY <2>1, <3>1, SendByteEffect
    <3>3. QueuesOK'
      BY <1>1, <2>1, <2>2, <3>2 DEF QueuesOK, uart_send
    <3>4. FlagsOK' /\ NoLostInterrupt'
      BY <1>1, <3>2, EdgeKeepsInterrupt DEF FlagsOK, uart_send, still_idle
    <3>5. QueueOrdered'
      BY <2>2, <2>3, <3>2 DEF QueueOrdered
    <3>6. CanSendMeansEmpty' /\ BusyMeansWakeup'
      BY <1>1, <2>2, <2>3, <3>2 DEF CanSendMeansEmpty, BusyMeansWakeup, uart_send, still_idle
    <3> QED
      BY <3>3, <3>4, <3>5, <3>6
  <2>4. CASE ~can_send
    <3>1. /\ UNCHANGED <<thr, thri, written, rx, overrun, in_fifo, pc, arrived>>
          /\ can_send' = FALSE /\ Edge
      BY <1>1, <2>4 DEF uart_send, still_idle
    <3>2. QueuesOK'
      BY <2>1, <2>2, <3>1 DEF QueuesOK
    <3>3. FlagsOK' /\ NoLostInterrupt'
      BY <3>1, EdgeKeepsInterrupt DEF FlagsOK
    <3>4. QueueOrdered'
      BY <2>2, <3>1 DEF QueueOrdered
    <3>5. CanSendMeansEmpty'
      BY <3>1 DEF CanSendMeansEmpty
    <3>6. pc = "idle"
      BY <1>1 DEF uart_send
    <3>7. BusyMeansWakeup'
      BY <2>4, <3>1, <3>6 DEF BusyMeansWakeup
    <3> QED
      BY <3>2, <3>3, <3>4, <3>5, <3>7
  <2> QED
    BY <2>3, <2>4
<1>2. CASE empty_transmit_queue
  <2>1. FlagsOK' /\ NoLostInterrupt'
    BY <1>2 DEF empty_transmit_queue, FlagsOK, NoLostInterrupt, Line
  <2>2. QueuesOK'
    BY <1>2, EmptySeq DEF empty_transmit_queue, QueuesOK
  <2>3. QueueOrdered'
    BY <1>2, EmptySeq DEF empty_transmit_queue, QueueOrdered
  <2>4. CanSendMeansEmpty' /\ BusyMeansWakeup'
    BY <1>2 DEF empty_transmit_queue, CanSendMeansEmpty, BusyMeansWakeup
  <2> QED
    BY <2>1, <2>2, <2>3, <2>4
<1>3. CASE uart_recv_front
  <2>1. FlagsOK' /\ NoLostInterrupt'
    BY <1>3 DEF uart_recv_front, FlagsOK, NoLostInterrupt, Line
  <2>2. QueuesOK'
    BY <1>3, TailElements DEF uart_recv_front, QueuesOK
  <2>3. QueueOrdered'
    BY <1>3 DEF uart_recv_front, QueueOrdered
  <2>4. CanSendMeansEmpty' /\ BusyMeansWakeup'
    BY <1>3 DEF uart_recv_front, CanSendMeansEmpty, BusyMeansWakeup
  <2> QED
    BY <2>1, <2>2, <2>3, <2>4
<1>4. CASE cleanup
  <2>1. /\ submitted \in Nat /\ submitted' = submitted + 1 /\ submitted' \in Nat
        /\ written \in 0..submitted /\ submitted + 1 \in 1..submitted'
        /\ in_fifo' = <<>> /\ rx' = <<>> /\ pc = "idle"
        /\ UNCHANGED <<pc, arrived, can_send>>
    BY <1>4 DEF cleanup, QueuesOK
  <2>2. FlagsOK' /\ NoLostInterrupt'
    BY <1>4, EdgeKeepsInterrupt DEF cleanup, FlagsOK
  <2>3. CASE can_send
    <3>1. /\ thr' = submitted + 1 /\ written' = submitted + 1
          /\ out_fifo' = <<>>
      BY <1>4, <2>3 DEF cleanup
    <3>2. QueuesOK'
      BY <2>1, <3>1, EmptySeq, UartConstants DEF QueuesOK, UartConstants
    <3>3. QueueOrdered'
      BY <3>1, EmptySeq DEF QueueOrdered
    <3>4. CanSendMeansEmpty' /\ BusyMeansWakeup'
      BY <2>1, <2>3, <3>1 DEF CanSendMeansEmpty, BusyMeansWakeup
    <3> QED
      BY <2>2, <3>2, <3>3, <3>4
  <2>4. CASE ~can_send
    <3>1. /\ out_fifo' = <<submitted + 1>> /\ thr' = 0
          /\ written' = written
      BY <1>4, <2>4 DEF cleanup
    <3>2. out_fifo' \in Seq(1..submitted') /\ Len(out_fifo') = 1
          /\ out_fifo'[1] = submitted + 1
      BY <2>1, <3>1
    <3>3. QueuesOK'
      BY <2>1, <3>1, <3>2, EmptySeq, UartConstants DEF QueuesOK, UartConstants
    <3>4. QueueOrdered'
      BY <2>1, <3>1, <3>2 DEF QueueOrdered
    <3>5. CanSendMeansEmpty'
      BY <2>1, <2>4 DEF CanSendMeansEmpty
    <3>6. thri' = (thri \/ thr # 0)
      BY <1>4, <2>4 DEF cleanup
    <3>7. BusyMeansWakeup'
      BY <2>1, <2>4, <3>6 DEF BusyMeansWakeup
    <3> QED
      BY <2>2, <3>3, <3>4, <3>5, <3>7
  <2> QED
    BY <2>3, <2>4
<1> QED
  BY <1>1, <1>2, <1>3, <1>4 DEF Api

(***************************************************************************)
(* The steps of uart_ih keep the inductive invariant.                      *)
(***************************************************************************)
LEMMA HandlerStep == IInv /\ Handler => IInv'
<1> SUFFICES ASSUME IInv, Handler PROVE IInv'
  OBVIOUS
<1> USE DEF IInv, TypeOK
<1>1. CASE uart_ih
  <2>1. FlagsOK' /\ NoLostInterrupt'
    BY <1>1 DEF uart_ih, FlagsOK, NoLostInterrupt, Line
  <2>2. QueuesOK'
    BY <1>1 DEF uart_ih, QueuesOK
  <2>3. QueueOrdered'
    BY <1>1 DEF uart_ih, QueueOrdered
  <2>4. CanSendMeansEmpty' /\ BusyMeansWakeup'
    BY <1>1 DEF uart_ih, CanSendMeansEmpty, BusyMeansWakeup
  <2> QED
    BY <2>1, <2>2, <2>3, <2>4
<1>2. CASE read_iir
  <2>1. UNCHANGED <<submitted, written, arrived>> /\ Edge /\ pc = "loop"
    BY <1>2 DEF read_iir
  <2>2. CASE iir_status
    <3>1. /\ ReadLsr /\ UNCHANGED <<can_send, out_fifo, in_fifo, pc, thr, thri>>
      BY <2>2 DEF iir_status
    <3>2. rx' \in Seq(RxByte) /\ Len(rx') = Len(rx) /\ overrun' = FALSE
      BY <3>1, ReadLsrType
    <3>3. QueuesOK'
      BY <2>1, <3>1, <3>2 DEF QueuesOK
    <3>4. FlagsOK' /\ NoLostInterrupt'
      BY <2>1, <3>1, <3>2, EdgeKeepsInterrupt DEF FlagsOK
    <3>5. QueueOrdered'
      BY <2>1, <3>1 DEF QueueOrdered
    <3>6. CanSendMeansEmpty' /\ BusyMeansWakeup'
      BY <3>1 DEF CanSendMeansEmpty, BusyMeansWakeup
    <3> QED
      BY <3>3, <3>4, <3>5, <3>6
  <2>3. CASE iir_recv
    <3>1. /\ pc' = "recv"
          /\ UNCHANGED <<can_send, out_fifo, in_fifo, thr, thri, rx, overrun>>
      BY <2>3 DEF iir_recv
    <3>2. QueuesOK'
      BY <2>1, <3>1 DEF QueuesOK
    <3>3. FlagsOK' /\ NoLostInterrupt'
      BY <2>1, <3>1, EdgeKeepsInterrupt DEF FlagsOK
    <3>4. QueueOrdered'
      BY <2>1, <3>1 DEF QueueOrdered
    <3>5. CanSendMeansEmpty' /\ BusyMeansWakeup'
      BY <2>1, <3>1 DEF CanSendMeansEmpty, BusyMeansWakeup
    <3> QED
      BY <3>2, <3>3, <3>4, <3>5
  <2>4. CASE iir_trnsmt_empty
    <3>1. thri' = FALSE /\ UNCHANGED <<out_fifo, in_fifo, thr, rx, overrun>>
      BY <2>4 DEF iir_trnsmt_empty
    <3>2. \/ out_fifo = <<>> /\ can_send' = TRUE /\ pc' = pc
          \/ out_fifo # <<>> /\ can_send' = can_send /\ pc' = "send"
      BY <2>4 DEF iir_trnsmt_empty
    <3>3. QueuesOK'
      BY <2>1, <3>1 DEF QueuesOK
    <3>4. FlagsOK' /\ NoLostInterrupt'
      BY <2>1, <3>1, <3>2, EdgeKeepsInterrupt DEF FlagsOK
    <3>5. QueueOrdered'
      BY <2>1, <3>1 DEF QueueOrdered
    <3>6. CanSendMeansEmpty' /\ BusyMeansWakeup'
      BY <2>1, <3>1, <3>2 DEF CanSendMeansEmpty, BusyMeansWakeup
    <3> QED
      BY <3>3, <3>4, <3>5, <3>6
  <2>5. CASE iir_none
    <3>1. /\ ~Line /\ pc' = "idle"
          /\ UNCHANGED <<can_send, out_fifo, in_fifo, thr, thri, rx, overrun>>
      BY <2>5 DEF iir_none
    <3>2. QueuesOK'
      BY <2>1, <3>1 DEF QueuesOK
    <3>3. FlagsOK' /\ NoLostInterrupt'
      BY <2>1, <3>1 DEF FlagsOK, NoLostInterrupt, Line, Edge
    <3>4. QueueOrdered'
      BY <2>1, <3>1 DEF QueueOrdered
    <3>5. CanSendMeansEmpty' /\ BusyMeansWakeup'
      BY <2>1, <3>1 DEF CanSendMeansEmpty, BusyMeansWakeup
    <3> QED
      BY <3>2, <3>3, <3>4, <3>5
  <2> QED
    BY <1>2, <2>2, <2>3, <2>4, <2>5 DEF read_iir
<1>3. CASE recv_step
  <2>1. /\ UNCHANGED <<can_send, out_fifo, thr, thri, submitted, written, arrived>>
        /\ Edge /\ pc = "recv" /\ pc' \in {"recv", "loop"}
        /\ overrun' \in {overrun, FALSE}
    BY <1>3 DEF recv_step
  <2>2. /\ in_fifo' \in Seq({"ERR", "good", "damaged"})
        /\ rx' \in Seq(RxByte) /\ Len(rx') <= RxDepth
    <3>1. CASE rx = <<>>
      BY <1>3, <3>1 DEF recv_step, QueuesOK
    <3>2. CASE rx # <<>>
      <4> DEFINE Kinds == {"ERR", "good", "damaged"}
      <4> DEFINE kind == IF Head(rx).damaged THEN "damaged" ELSE "good"
      <4>1. /\ in_fifo' = IF LsrError THEN in_fifo \o <<"ERR", kind>>
                                      ELSE Append(in_fifo, kind)
            /\ rx' = Tail(rx)
        BY <1>3, <3>2 DEF recv_step
      <4>2. kind \in Kinds /\ <<"ERR", kind>> \in Seq(Kinds) /\ in_fifo \in Seq(Kinds)
        BY DEF QueuesOK
      <4> HIDE DEF kind, Kinds
      <4>3. in_fifo' \in Seq(Kinds)
        BY <4>1, <4>2, ConcatProperties, AppendProperties
      <4>4. Tail(rx) \in Seq(RxByte) /\ Len(Tail(rx)) = Len(rx) - 1 /\ Len(rx) \in Nat
        BY <3>2, TailElements, LenProperties DEF QueuesOK
      <4> QED
        BY <4>1, <4>3, <4>4, UartConstants DEF Kinds, QueuesOK, UartConstants
    <3> QED
      BY <3>1, <3>2
  <2>3. QueuesOK'
    BY <2>1, <2>2 DEF QueuesOK
  <2>4. FlagsOK' /\ NoLostInterrupt'
    BY <2>1, EdgeKeepsInterrupt DEF FlagsOK
  <2>5. QueueOrdered'
    BY <2>1 DEF QueueOrdered
  <2>6. CanSendMeansEmpty' /\ BusyMeansWakeup'
    BY <2>1 DEF CanSendMeansEmpty, BusyMeansWakeup
  <2> QED
    BY <2>3, <2>4, <2>5, <2>6
<1>4. CASE send_step
  <2>1. UNCHANGED <<in_fifo, submitted, arrived>> /\ Edge /\ pc = "send"
    BY <1>4 DEF send_step
  <2>2. CASE out_fifo = <<>> \/ thr # 0
    <3>1. /\ can_send' = FALSE /\ pc' = "loop"
          /\ UNCHANGED <<out_fifo, thr, thri, written>>
          /\ UNCHANGED <<rx, overrun>> \/ ReadLsr
      BY <1>4, <2>2 DEF send_step
    <3>2. /\ rx' \in Seq(RxByte) /\ Len(rx') = Len(rx)
          /\ overrun' \in {overrun, FALSE}
      BY <3>1, ReadLsrType DEF QueuesOK
    <3>3. QueuesOK'
      BY <2>1, <3>1, <3>2 DEF QueuesOK
    <3>4. FlagsOK' /\ NoLostInterrupt'
      BY <2>1, <3>1, <3>2, EdgeKeepsInterrupt DEF FlagsOK
    <3>5. QueueOrdered'
      BY <2>1, <3>1 DEF QueueOrdered
    <3>6. CanSendMeansEmpty' /\ BusyMeansWakeup'
      BY <2>1, <2>2, <3>1 DEF CanSendMeansEmpty, BusyMeansWakeup
    <3> QED
      BY <3>3, <3>4, <3>5, <3>6
  <2>3. CASE out_fifo # <<>> /\ thr = 0
    <3>1. /\ uart_send_byte(Head(out_fifo)) /\ out_fifo' = Tail(out_fifo)
          /\ UNCHANGED <<can_send, pc>>
      BY <1>4, <2>3 DEF send_step
    <3>2. /\ Head(out_fifo) \in 1..submitted /\ Head(out_fifo) = out_fifo[1]
          /\ Len(out_fifo) >= 1 /\ Len(out_fifo) \in Nat
          /\ Tail(out_fifo) \in Seq(1..submitted)
          /\ Len(Tail(out_fifo)) = Len(out_fifo) - 1
          /\ \A i \in 1..(Len(out_fifo) - 1) : Tail(out_fifo)[i] = out_fifo[i + 1]
      BY <2>3, TailElements, LenProperties DEF QueuesOK
    <3>3. /\ thr' # 0 /\ thr' = Head(out_fifo) /\ written' = Head(out_fifo)
          /\ rx' \in Seq(RxByte) /\ Len(rx') = Len(rx) /\ overrun' = FALSE
          /\ thri' = FALSE
      <4>1. Head(out_fifo) \in Nat \ {0}
        BY <3>2 DEF QueuesOK
      <4>2. /\ thr' # 0 /\ rx' \in Seq(RxByte)
            /\ Len(rx') = Len(rx) /\ overrun' = FALSE
        BY <3>1, <4>1, SendByteEffect
      <4>3. thr' = Head(out_fifo) /\ written' = Head(out_fifo) /\ thri' = FALSE
        BY <2>3, <3>1 DEF uart_send_byte
      <4> QED
        BY <4>2, <4>3
    <3>4. QueuesOK'
      BY <2>1, <3>1, <3>2, <3>3 DEF QueuesOK
    <3>5. FlagsOK' /\ NoLostInterrupt'
      BY <2>1, <3>1, <3>3, EdgeKeepsInterrupt DEF FlagsOK
    <3>6. \A i \in 1..Len(out_fifo') : out_fifo'[i] > written'
      BY <3>1, <3>2, <3>3 DEF QueueOrdered
    <3>7. \A i, j \in 1..Len(out_fifo') : i < j => out_fifo'[i] < out_fifo'[j]
      BY <3>1, <3>2 DEF QueueOrdered
    <3>8. QueueOrdered'
      BY <3>6, <3>7 DEF QueueOrdered
    <3>9. CanSendMeansEmpty' /\ BusyMeansWakeup'
      BY <2>3, <3>1, <3>3 DEF CanSendMeansEmpty, BusyMeansWakeup
    <3> QED
      BY <3>4, <3>5, <3>8, <3>9
  <2> QED
    BY <2>2, <2>3
<1> QED
  BY <1>1, <1>2, <1>3, <1>4 DEF Handler

(***************************************************************************)
(* The inductive invariant holds in every state of the driver, whatever    *)
(* the interleaving of chip, API calls and uart_ih.                        *)
(***************************************************************************)
THEOREM UartInvariant == Spec => []IInv
<1>1. IInv /\ UNCHANGED vars => IInv'
  <2> SUFFICES ASSUME IInv, UNCHANGED vars PROVE IInv'
    OBVIOUS
  <2> USE DEF vars, IInv, TypeOK
  <2>1. QueuesOK' /\ QueueOrdered'
    BY DEF QueuesOK, QueueOrdered
  <2>2. FlagsOK' /\ CanSendMeansEmpty' /\ BusyMeansWakeup' /\ NoLostInterrupt'
    BY DEF FlagsOK, CanSendMeansEmpty, BusyMeansWakeup, NoLostInterrupt, Line
  <2> QED
    BY <2>1, <2>2
<1>2. IInv /\ [Next]_vars => IInv'
  BY <1>1, HardwareStep, ApiStep, HandlerStep DEF Next
<1> QED
  BY <1>2, UartInit, PTL DEF Spec

(***************************************************************************)
(* Type correctness: every byte in out_fifo and the holding register was   *)
(* submitted, the receiver FIFO never exceeds its depth.                   *)
(***************************************************************************)
THEOREM UartTypeCorrect == Spec => []TypeOK
BY UartInvariant, PTL DEF IInv

(***************************************************************************)
(* uart_safe_transmit's direct write overtakes no queued byte.             *)
(***************************************************************************)
THEOREM UartCanSendMeansEmpty == Spec => []CanSendMeansEmpty
BY UartInvariant, PTL DEF IInv

(***************************************************************************)
(* uart_ih never leaves with an interrupt cause that nobody will look at.  *)
(***************************************************************************)
THEOREM UartNoLostInterrupt == Spec => []NoLostInterrupt
BY UartInvariant, PTL DEF IInv

(***************************************************************************)
(* can_send = false is always going to be corrected by an interrupt.       *)
(***************************************************************************)
THEOREM UartBusyMeansWakeup == Spec => []BusyMeansWakeup
BY UartInvariant, PTL DEF IInv

(***************************************************************************)
(* Bytes are transmitted in the order of submission, none twice.           *)
(***************************************************************************)
THEOREM UartInOrder == Spec => InOrder
<1> DEFINE Later == written' # written => written' > written
<1>1. ASSUME IInv, NEW b \in Nat, b > written, b # 0,
             uart_send_byte(b)
      PROVE  Later
  BY <1>1 DEF uart_send_byte
<1>2. ASSUME IInv, Next PROVE Later
  <2>1. written \in Nat /\ submitted \in Nat /\ written <= submitted
    BY <1>2 DEF IInv, TypeOK, QueuesOK
  <2>2. CASE Hardware
    BY <2>2 DEF Hardware, Transfer, Arrive
  <2>3. ASSUME NEW n \in {1, 3}, uart_send(n) PROVE Later
    <3>1. CASE can_send
      BY <1>1, <1>2, <2>1, <2>3, <3>1 DEF uart_send
    <3>2. CASE ~can_send
      BY <2>3, <3>2 DEF uart_send
    <3> QED
      BY <3>1, <3>2
  <2>4. CASE cleanup
    BY <2>1, <2>4 DEF cleanup
  <2>5. CASE empty_transmit_queue \/ uart_recv_front
    BY <2>5 DEF empty_transmit_queue, uart_recv_front
  <2>6. CASE uart_ih \/ read_iir \/ recv_step
    BY <2>6 DEF uart_ih, read_iir, recv_step
  <2>7. CASE send_step
    <3>1. CASE out_fifo = <<>> \/ thr # 0
      BY <2>7, <3>1 DEF send_step
    <3>2. CASE out_fifo # <<>> /\ thr = 0
      <4>1. uart_send_byte(Head(out_fifo))
        BY <2>7, <3>2 DEF send_step
      <4>2. Head(out_fifo) = out_fifo[1] /\ 1 \in 1..Len(out_fifo)
            /\ Head(out_fifo) \in 1..submitted
        BY <1>2, <3>2, TailElements, LenProperties DEF IInv, TypeOK, QueuesOK
      <4>3. out_fifo[1] > written
        BY <1>2, <4>2 DEF IInv, QueueOrdered
      <4> QED
        BY <1>1, <1>2, <2>1, <4>1, <4>2, <4>3
    <3> QED
      BY <3>1, <3>2
  <2> QED
    BY <1>2, <2>2, <2>3, <2>4, <2>5, <2>6, <2>7 DEF Next, Api, Handler
<1>3. IInv /\ [Next]_vars => [Later]_vars
  BY <1>2
<1> QED
  BY <1>3, UartInvariant, PTL DEF Spec, InOrder

-----------------------------------------------------------------------------
(* Module Queue.                                                           *)

\* A nonempty set of natural numbers has a least element.
LEMMA LeastNat == ASSUME NEW T \in SUBSET Nat, T # {} PROVE \E x \in T : \A y \in T : x <= y
<1> DEFINE R == {ss \in Nat \X Nat : ss[1] < ss[2]}
<1>1. IsWellFoundedOn(R, Nat)
  BY NatLessThanWellFounded DEF OpToRel
<1>2. PICK x \in T : \A y \in T : ~ (<<y, x>> \in R)
  <2> HIDE DEF R
  <2>1. QED
    BY <1>1, WFMin
<1>3. ASSUME NEW y \in T PROVE x <= y
  <2>1. x \in Nat /\ y \in Nat /\ ~(<<y, x>> \in R)
    BY <1>2
  <2>2. ~(y < x)
    BY <2>1
  <2>3. QED
    BY <2>1, <2>2
<1>4. QED
  BY <1>2, <1>3

-----------------------------------------------------------------------------
\* s is the list: its cells are distinct, they are the live ones, and `back`
\* is the last of them.  Of a `back` without a list nothing is known.
Whole(s) ==
    /\ s \in Seq(Cell) /\ Q!Chain(front, s)
    /\ \A i, j \in 1..Len(s) : s[i] = s[j] => i = j
    /\ live = {s[i] : i \in 1..Len(s)}
    /\ s # <<>> => open /\ back = s[Len(s)]

QueueInv == Q!TypeOK /\ \E s : Whole(s)

\* A prefix of a chain is the same in every chain from the same cell.
LEMMA ChainsAgree ==
    ASSUME NEW p, NEW s \in Seq(Cell), NEW t \in Seq(Cell), Q!Chain(p, s), Q!Chain(p, t)
    PROVE  \A i \in 1..Len(s) : i \in 1..Len(t) => s[i] = t[i]
<1> DEFINE T == {i \in 1..Len(s) : i \in 1..Len(t) /\ s[i] # t[i]}
<1>1. SUFFICES ASSUME T # {} PROVE FALSE
  OBVIOUS
<1>2. T \in SUBSET Nat /\ Len(s) \in Nat /\ Len(t) \in Nat
  OBVIOUS
<1>3. PICK x \in T : \A y \in T : x <= y
  <2> HIDE DEF T
  <2>1. QED
    BY <1>1, <1>2, LeastNat
<1>4. x \in 1..Len(s) /\ x \in 1..Len(t) /\ s[x] # t[x]
  OBVIOUS
<1>5. x # 1
  <2>1. s # <<>> /\ t # <<>>
    BY <1>4
  <2>2. s[1] = p /\ t[1] = p
    BY <2>1 DEF Q!Chain
  <2>3. QED
    BY <1>4, <2>2
<1>6. x - 1 \in 1..Len(s) /\ x - 1 \in 1..Len(t) /\ x - 1 # Len(s) /\ x - 1 # Len(t)
  BY <1>4, <1>5, <1>2
<1>7. s[x - 1] = t[x - 1]
  <2>1. x - 1 \notin T
    BY <1>3, <1>4
  <2>2. QED
    BY <1>6, <2>1
<1>8. next[s[x - 1]] = s[(x - 1) + 1] /\ next[t[x - 1]] = t[(x - 1) + 1]
  BY <1>6 DEF Q!Chain
<1>9. (x - 1) + 1 = x
  BY <1>4
<1>10. QED
  BY <1>4, <1>7, <1>8, <1>9

\* No chain is a proper prefix of another one.
LEMMA ChainNotLonger ==
    ASSUME NULL \notin Cell, NEW p, NEW s \in Seq(Cell), NEW t \in Seq(Cell),
           Q!Chain(p, s), Q!Chain(p, t)
    PROVE  ~(Len(s) < Len(t))
<1>1. SUFFICES ASSUME Len(s) < Len(t) PROVE FALSE
  OBVIOUS
<1>2. Len(s) \in Nat /\ Len(t) \in Nat
  OBVIOUS
<1>3. CASE s = <<>>
  <2>1. p = NULL /\ Len(s) = 0
    BY <1>3 DEF Q!Chain
  <2>2. 1 \in 1..Len(t) /\ t # <<>>
    BY <1>1, <1>2, <2>1
  <2>3. p = t[1] /\ t[1] \in Cell
    BY <2>2, ElementOfSeq DEF Q!Chain
  <2>4. QED
    BY <2>1, <2>3
<1>4. CASE s # <<>>
  <2>1. Len(s) \in 1..Len(s) /\ Len(s) \in 1..Len(t) /\ Len(s) + 1 \in 1..Len(t)
    BY <1>1, <1>2, <1>4, EmptySeq
  <2>2. s[Len(s)] = t[Len(s)]
    BY <2>1, ChainsAgree
  <2>3. next[s[Len(s)]] = NULL
    BY <2>1 DEF Q!Chain
  <2>4. next[t[Len(s)]] = t[Len(s) + 1]
    BY <1>1, <1>2, <2>1 DEF Q!Chain
  <2>5. t[Len(s) + 1] \in Cell
    BY <2>1, ElementOfSeq
  <2>6. QED
    BY <2>2, <2>3, <2>4, <2>5
<1>5. QED
  BY <1>3, <1>4

\* There is one chain from a cell.
LEMMA ChainUnique ==
    ASSUME NULL \notin Cell, NEW p, NEW s \in Seq(Cell), NEW t \in Seq(Cell),
           Q!Chain(p, s), Q!Chain(p, t)
    PROVE  s = t
<1>1. Len(s) \in Nat /\ Len(t) \in Nat
  OBVIOUS
<1>2. ~(Len(s) < Len(t)) /\ ~(Len(t) < Len(s))
  BY ChainNotLonger
<1>3. Len(s) = Len(t)
  BY <1>1, <1>2
<1>4. \A i \in 1..Len(s) : s[i] = t[i]
  BY <1>3, ChainsAgree
<1>5. QED
  BY <1>3, <1>4, SeqEqual

\* CellsFrom walks through the list.
LEMMA CellsAre ==
    ASSUME NEW s, Whole(s)
    PROVE  Q!CellsFrom(front) = s
<1> DEFINE Run == UNION {[1..n -> Cell] : n \in 0..Cardinality(Cell)}
<1>1. IsFiniteSet(Cell) /\ NULL \notin Cell
  BY QueueInstance DEF Q!QueueConstants, Q!IsFiniteSet, IsFiniteSet
<1>2. s \in Seq(Cell) /\ Q!Chain(front, s)
  BY DEF Whole
<1>3. \A t \in Run : t \in Seq(Cell)
  <2>1. ASSUME NEW n \in 0..Cardinality(Cell), NEW t \in [1..n -> Cell] PROVE t \in Seq(Cell)
    <3>1. Cardinality(Cell) \in Nat
      BY <1>1, FS_CardinalityType
    <3>2. QED
      BY <3>1, SeqDef
  <2>2. QED
    BY <2>1
<1>4. s \in Run
  <2>1. s \in [1..Len(s) -> Cell] /\ Len(s) \in Nat
    BY <1>2
  <2>2. s \in Injection(1..Len(s), Cell)
    BY <2>1 DEF Whole, Injection, IsInjective
  <2>3. Cardinality(1..Len(s)) <= Cardinality(Cell)
    BY <1>1, <2>2, FS_Injection
  <2>4. Cardinality(1..Len(s)) = Len(s)
    <3>1. Cardinality(1..Len(s)) = IF 1 > Len(s) THEN 0 ELSE Len(s) - 1 + 1
      BY <2>1, FS_Interval
    <3>2. QED
      BY <2>1, <3>1
  <2>5. Cardinality(Cell) \in Nat
    BY <1>1, FS_CardinalityType
  <2>6. Len(s) \in 0..Cardinality(Cell)
    BY <2>1, <2>3, <2>4, <2>5
  <2>7. QED
    BY <2>1, <2>6
<1>5. Q!CellsFrom(front) = CHOOSE t \in Run : Q!Chain(front, t)
  <2>1. Q!Cardinality(Cell) = Cardinality(Cell)
    BY DEF Q!Cardinality, Cardinality
  <2>2. QED
    BY <1>2, <1>4, <2>1 DEF Q!CellsFrom
<1> HIDE DEF Run
<1>6. Q!CellsFrom(front) \in Run /\ Q!Chain(front, Q!CellsFrom(front))
  BY <1>2, <1>4, <1>5
<1>7. QED
  BY <1>1, <1>2, <1>3, <1>6, ChainUnique

-----------------------------------------------------------------------------
\* queue_push appends a cell that was free, whatever `back` was before.
LEMMA PushIs ==
    ASSUME Q!TypeOK, NEW s, Whole(s), NEW b \in Elem, Q!queue_push(b)
    PROVE  \E c \in Cell \ live :
               Whole(Append(s, c))' /\ byte' = [byte EXCEPT ![c] = b] /\ open /\ open' = open
<1>1. PICK c \in Cell \ live :
         /\ live' = live \cup {c}
         /\ byte' = [byte EXCEPT ![c] = b]
         /\ IF Q!queue_empty
              THEN front' = c /\ next' = [next EXCEPT ![c] = NULL]
              ELSE front' = front /\ next' = [next EXCEPT ![c] = NULL, ![back] = c]
         /\ back' = c
  BY DEF Q!queue_push
<1>2. open /\ open' = open
  BY DEF Q!queue_push
<1> DEFINE t == Append(s, c)
<1>3. /\ s \in Seq(Cell) /\ Len(s) \in Nat /\ Q!Chain(front, s)
      /\ NULL \notin Cell /\ next \in [Cell -> Cell \cup {NULL}]
      /\ \A i \in 1..Len(s) : s[i] \in Cell /\ s[i] \in live /\ s[i] # c
  <2>1. s \in Seq(Cell) /\ Q!Chain(front, s) /\ live = {s[i] : i \in 1..Len(s)}
    BY DEF Whole
  <2>2. NULL \notin Cell /\ next \in [Cell -> Cell \cup {NULL}]
    BY QueueInstance DEF Q!QueueConstants, Q!TypeOK, Q!Ptr
  <2>3. QED
    BY <1>1, <2>1, <2>2
<1>4. /\ t \in Seq(Cell) /\ Len(t) = Len(s) + 1 /\ t[Len(t)] = c /\ t # <<>>
      /\ \A i \in 1..Len(s) : t[i] = s[i]
  <2>1. c \in Cell
    BY <1>1
  <2>2. QED
    BY <1>3, <2>1, AppendProperties
<1>5. s = <<>> <=> Q!queue_empty
  <2>1. s # <<>> => 1 \in 1..Len(s) /\ front = s[1]
    BY <1>3, EmptySeq DEF Q!Chain
  <2>2. s = <<>> => front = NULL
    BY <1>3 DEF Q!Chain
  <2>3. QED
    BY <1>3, <2>1, <2>2 DEF Q!queue_empty
<1> HIDE DEF t
<1>6. Q!Chain(front, t)'
  <2>1. front' = t[1]
    <3>1. CASE s = <<>>
      <4>1. front' = c /\ Len(s) = 0
        BY <1>1, <1>5, <3>1
      <4>2. QED
        BY <1>4, <4>1
    <3>2. CASE s # <<>>
      <4>1. 1 \in 1..Len(s) /\ front = s[1] /\ front' = front
        BY <1>1, <1>3, <1>5, <3>2, EmptySeq DEF Q!Chain
      <4>2. QED
        BY <1>4, <4>1
    <3>3. QED
      BY <3>1, <3>2
  <2>2. ASSUME NEW i \in 1..Len(t)
        PROVE  next'[t[i]] = IF i = Len(t) THEN NULL ELSE t[i + 1]
    <3>1. CASE s = <<>>
      <4>1. next' = [next EXCEPT ![c] = NULL] /\ Len(s) = 0
        BY <1>1, <1>5, <3>1
      <4>2. i = Len(t) /\ t[i] = c
        BY <1>4, <4>1
      <4>3. QED
        BY <1>1, <1>3, <4>1, <4>2
    <3>2. CASE s # <<>>
      <4>1. /\ next' = [next EXCEPT ![c] = NULL, ![back] = c]
            /\ back = s[Len(s)] /\ Len(s) \in 1..Len(s)
        BY <1>1, <1>3, <1>5, <3>2, EmptySeq DEF Whole
      <4>2. back \in Cell /\ back # c
        BY <1>3, <4>1
      <4>3. CASE i = Len(t)
        BY <1>1, <1>3, <1>4, <4>1, <4>2, <4>3
      <4>4. CASE i = Len(s)
        <5>1. t[i] = back /\ t[i + 1] = c /\ i # Len(t)
          BY <1>3, <1>4, <4>1, <4>4
        <5>2. QED
          BY <1>3, <4>1, <4>2, <5>1
      <4>5. CASE i # Len(t) /\ i # Len(s)
        <5>1. i \in 1..Len(s) /\ i + 1 \in 1..Len(s)
          BY <1>3, <1>4, <4>5
        <5>2. t[i] = s[i] /\ t[i + 1] = s[i + 1] /\ s[i] # c /\ s[i] \in Cell
          BY <1>3, <1>4, <5>1
        <5>3. s[i] # back
          BY <4>1, <4>5, <5>1 DEF Whole
        <5>4. next[s[i]] = s[i + 1]
          BY <1>3, <4>5, <5>1 DEF Q!Chain
        <5>5. QED
          BY <1>3, <4>1, <4>2, <4>5, <5>2, <5>3, <5>4
      <4>6. QED
        BY <4>3, <4>4, <4>5
    <3>3. QED
      BY <3>1, <3>2
  <2>3. QED
    BY <1>4, <2>1, <2>2 DEF Q!Chain
<1>7. \A i, j \in 1..Len(t) : t[i] = t[j] => i = j
  <2>1. \A i, j \in 1..Len(s) : s[i] = s[j] => i = j
    BY DEF Whole
  <2>2. QED
    BY <1>3, <1>4, <2>1
<1>8. live' = {t[i] : i \in 1..Len(t)}
  <2>1. live' = {s[i] : i \in 1..Len(s)} \cup {c}
    BY <1>1 DEF Whole
  <2>2. QED
    BY <1>3, <1>4, <2>1
<1>9. Whole(t)'
  BY <1>1, <1>2, <1>4, <1>6, <1>7, <1>8 DEF Whole
<1>10. QED
  BY <1>1, <1>2, <1>9 DEF t

\* queue_pop takes the first cell off the list, and off the heap.
LEMMA PopIs ==
    ASSUME Q!TypeOK, NEW s, Whole(s), Q!queue_pop
    PROVE  s # <<>> /\ Whole(Tail(s))' /\ byte' = byte /\ open /\ open' = open
<1>1. /\ open /\ front # NULL /\ front' = next[front] /\ live' = live \ {front}
      /\ open' = open /\ back' = back /\ byte' = byte /\ next' = next
  BY DEF Q!queue_pop, Q!queue_empty
<1>2. s \in Seq(Cell) /\ Len(s) \in Nat /\ Q!Chain(front, s)
  BY DEF Whole
<1>3. s # <<>> /\ front = s[1] /\ Len(s) >= 1
  BY <1>1, <1>2, EmptySeq DEF Q!Chain
<1> DEFINE t == Tail(s)
<1>4. /\ t \in Seq(Cell) /\ Len(t) = Len(s) - 1
      /\ \A i \in 1..Len(t) : t[i] = s[i + 1]
  BY <1>2, <1>3
<1> HIDE DEF t
<1>5. Q!Chain(front, t)'
  <2>1. front' = IF t = <<>> THEN NULL ELSE t[1]
    <3>1. next[s[1]] = IF 1 = Len(s) THEN NULL ELSE s[1 + 1]
      <4>1. 1 \in 1..Len(s)
        BY <1>2, <1>3
      <4>2. QED
        BY <1>2, <4>1 DEF Q!Chain
    <3>2. CASE t = <<>>
      <4>1. Len(s) = 1
        BY <1>2, <1>4, <3>2
      <4>2. QED
        BY <1>1, <1>3, <3>1, <3>2, <4>1
    <3>3. CASE t # <<>>
      <4>1. Len(t) \in Nat \ {0}
        BY <1>4, <3>3, EmptySeq
      <4>2. Len(s) # 1 /\ t[1] = s[1 + 1]
        BY <1>2, <1>4, <4>1
      <4>3. QED
        BY <1>1, <1>3, <3>1, <3>3, <4>2
    <3>4. QED
      BY <3>2, <3>3
  <2>2. ASSUME NEW i \in 1..Len(t)
        PROVE  next'[t[i]] = IF i = Len(t) THEN NULL ELSE t[i + 1]
    <3>1. i + 1 \in 1..Len(s) /\ t[i] = s[i + 1] /\ (i = Len(t) <=> i + 1 = Len(s))
      BY <1>2, <1>4
    <3>2. next[s[i + 1]] = IF i + 1 = Len(s) THEN NULL ELSE s[(i + 1) + 1]
      BY <1>2, <3>1 DEF Q!Chain
    <3>3. i # Len(t) => t[i + 1] = s[(i + 1) + 1]
      BY <1>2, <1>4
    <3>4. QED
      BY <1>1, <3>1, <3>2, <3>3
  <2>3. QED
    BY <2>1, <2>2 DEF Q!Chain
<1>6. \A i, j \in 1..Len(s) : s[i] = s[j] => i = j
  BY DEF Whole
<1>7. \A i, j \in 1..Len(t) : t[i] = t[j] => i = j
  BY <1>2, <1>4, <1>6
<1>8. live' = {t[i] : i \in 1..Len(t)}
  <2>1. live = {s[i] : i \in 1..Len(s)}
    BY DEF Whole
  <2>2. ASSUME NEW x \in live' PROVE x \in {t[i] : i \in 1..Len(t)}
    <3>1. PICK i \in 1..Len(s) : x = s[i]
      BY <1>1, <2>1, <2>2
    <3>2. i # 1
      BY <1>1, <1>3, <2>2, <3>1
    <3>3. i - 1 \in 1..Len(t) /\ (i - 1) + 1 = i
      BY <1>2, <1>4, <3>2
    <3>4. t[i - 1] = x
      BY <1>4, <3>1, <3>3
    <3>5. QED
      BY <3>3, <3>4
  <2>3. ASSUME NEW i \in 1..Len(t) PROVE t[i] \in live'
    <3>1. i + 1 \in 1..Len(s) /\ 1 \in 1..Len(s) /\ i + 1 # 1 /\ t[i] = s[i + 1]
      BY <1>2, <1>3, <1>4
    <3>2. s[i + 1] # s[1]
      BY <1>6, <3>1
    <3>3. QED
      BY <1>1, <1>3, <2>1, <3>1, <3>2
  <2>4. QED
    BY <2>2, <2>3
<1>9. t # <<>> => open' /\ back' = t[Len(t)]
  <2>1. ASSUME t # <<>> PROVE t[Len(t)] = s[Len(s)]
    <3>1. Len(t) \in Nat \ {0}
      BY <1>4, <2>1, EmptySeq
    <3>2. Len(t) \in 1..Len(t) /\ Len(t) + 1 = Len(s)
      BY <1>2, <1>4, <3>1
    <3>3. QED
      BY <1>4, <3>2
  <2>2. back = s[Len(s)]
    BY <1>3 DEF Whole
  <2>3. QED
    BY <1>1, <2>1, <2>2
<1>10. Whole(t)'
  BY <1>4, <1>5, <1>7, <1>8, <1>9 DEF Whole
<1>11. QED
  BY <1>1, <1>3, <1>10 DEF t

\* An empty list.
LEMMA EmptyWhole == ASSUME front = NULL, live = {} PROVE Whole(<<>>)
  BY EmptySeq DEF Whole, Q!Chain

\* queue_clean and queue_delete leave an empty list.
LEMMA CleanIs ==
    ASSUME Q!TypeOK, NEW s, Whole(s), Q!queue_clean \/ Q!queue_delete
    PROVE  Whole(<<>>)' /\ byte' = byte /\ open
<1>1. live' = live \ Q!Listed /\ front' = NULL /\ byte' = byte /\ open
  BY DEF Q!queue_clean, Q!queue_delete
<1>2. Q!Listed = {s[i] : i \in 1..Len(s)}
  BY CellsAre DEF Q!Listed
<1>3. live = {s[i] : i \in 1..Len(s)}
  BY DEF Whole
<1>4. live' = {}
  BY <1>1, <1>2, <1>3
<1>5. front' = NULL /\ live' = {}
  BY <1>1, <1>4
<1>6. Whole(<<>>)'
  BY <1>5, EmptySeq DEF Whole, Q!Chain
<1>7. QED
  BY <1>1, <1>6

\* A new queue has an empty list: the old one was deleted.
LEMMA InitIs ==
    ASSUME NEW s, Whole(s), Q!queue_init
    PROVE  s = <<>> /\ Whole(<<>>)' /\ byte' = byte
<1>1. ~open /\ front' = NULL /\ live' = live /\ byte' = byte
  BY DEF Q!queue_init
<1>2. s = <<>>
  BY <1>1 DEF Whole
<1>3. live' = {}
  BY <1>1, <1>2 DEF Whole
<1>4. Whole(<<>>)'
  BY <1>1, <1>3, EmptySeq DEF Whole, Q!Chain
<1>5. QED
  BY <1>1, <1>2, <1>4

\* Every operation leaves a list.
LEMMA NextWhole ==
    ASSUME Q!TypeOK, NEW s, Whole(s), [Q!Next]_(Q!vars)
    PROVE  \E t : Whole(t)'
<1>1. CASE Q!queue_init
  BY <1>1, InitIs
<1>2. ASSUME NEW b \in Elem, Q!queue_push(b) PROVE \E t : Whole(t)'
  BY <1>2, PushIs
<1>3. CASE Q!queue_pop
  BY <1>3, PopIs
<1>4. CASE Q!queue_clean \/ Q!queue_delete
  BY <1>4, CleanIs
<1>5. CASE UNCHANGED Q!vars
  <2>1. UNCHANGED <<open, live, front, back, byte, next>>
    BY <1>5 DEF Q!vars
  <2>2. Whole(s)'
    BY <2>1 DEF Whole, Q!Chain
  <2>3. QED
    BY <2>2
<1>6. QED
  BY <1>1, <1>2, <1>3, <1>4, <1>5 DEF Q!Next

\* Every operation leaves pointers in the heap.
LEMMA NextQueueTyped ==
    ASSUME Q!TypeOK, NEW s, Whole(s), [Q!Next]_(Q!vars)
    PROVE  Q!TypeOK'
<1> USE DEF Q!TypeOK, Q!Ptr
<1>1. CASE Q!queue_init
  BY <1>1 DEF Q!queue_init
<1>2. ASSUME NEW b \in Elem, Q!queue_push(b) PROVE Q!TypeOK'
  <2>1. PICK c \in Cell \ live :
         /\ live' = live \cup {c}
         /\ byte' = [byte EXCEPT ![c] = b]
         /\ IF Q!queue_empty
              THEN front' = c /\ next' = [next EXCEPT ![c] = NULL]
              ELSE front' = front /\ next' = [next EXCEPT ![c] = NULL, ![back] = c]
         /\ back' = c
    BY <1>2 DEF Q!queue_push
  <2>2. open' = open
    BY <1>2 DEF Q!queue_push
  <2>3. next' \in [Cell -> Cell \cup {NULL}]
    <3>1. [next EXCEPT ![c] = NULL] \in [Cell -> Cell \cup {NULL}]
      BY <2>1
    <3>2. [next EXCEPT ![c] = NULL, ![back] = c] \in [Cell -> Cell \cup {NULL}]
      BY <2>1, <3>1
    <3>3. QED
      BY <2>1, <3>1, <3>2
  <2>4. byte' \in [Cell -> Elem]
    BY <1>2, <2>1
  <2>5. QED
    BY <2>1, <2>2, <2>3, <2>4
<1>3. CASE Q!queue_pop
  BY <1>3 DEF Q!queue_pop, Q!queue_empty
<1>4. CASE Q!queue_clean \/ Q!queue_delete
  BY <1>4 DEF Q!queue_clean, Q!queue_delete
<1>5. CASE UNCHANGED Q!vars
  BY <1>5 DEF Q!vars
<1>6. QED
  BY <1>1, <1>2, <1>3, <1>4, <1>5 DEF Q!Next

\* The invariant of the list holds in every state.
LEMMA QueueInvariant == Q!Spec => []QueueInv
<1>1. Q!Init => QueueInv
  <2>1. ASSUME Q!Init PROVE Q!TypeOK
    BY <2>1 DEF Q!Init, Q!TypeOK, Q!Ptr
  <2>2. ASSUME Q!Init PROVE Whole(<<>>)
    BY <2>2, EmptyWhole DEF Q!Init
  <2>3. QED
    BY <2>1, <2>2 DEF QueueInv
<1>2. QueueInv /\ [Q!Next]_(Q!vars) => QueueInv'
  BY NextWhole, NextQueueTyped DEF QueueInv
<1>3. QED
  BY <1>1, <1>2, PTL DEF Q!Spec

(***************************************************************************)
(* On a heap of any size, after any mix of queue_push, queue_pop,          *)
(* queue_clean and queue_delete, the heap holds exactly the cells of the   *)
(* list, and queue_push writes through `back` only when that is the last   *)
(* one, although queue_pop and queue_clean leave `back` dangling.          *)
(***************************************************************************)
THEOREM QueueListIsSound == Q!Spec => []ListIsSound
<1>1. ASSUME QueueInv PROVE ListIsSound
  <2>1. PICK s : Whole(s)
    BY <1>1 DEF QueueInv
  <2>2. Q!CellsFrom(front) = s
    BY <2>1, CellsAre
  <2>3. /\ s \in Seq(Cell) /\ live = {s[i] : i \in 1..Len(s)} /\ (s # <<>> => open)
        /\ s # <<>> => back = s[Len(s)]
    BY <2>1 DEF Whole
  <2>4. Q!NoLeakNoDangling
    <3>1. Q!Listed = live
      BY <2>2, <2>3 DEF Q!Listed
    <3>2. ~open => live = {}
      BY <2>3
    <3>3. QED
      BY <3>1, <3>2 DEF Q!NoLeakNoDangling
  <2>5. Q!BackIsLast
    <3>1. ASSUME open, front # NULL
          PROVE  back \in live /\ next[back] = NULL /\ s[Len(s)] = back
      <4>1. s # <<>>
        BY <2>1, <3>1 DEF Whole, Q!Chain
      <4>2. Len(s) \in 1..Len(s)
        BY <2>3, <4>1, EmptySeq
      <4>3. next[s[Len(s)]] = NULL
        BY <2>1, <4>2 DEF Whole, Q!Chain
      <4>4. QED
        BY <2>3, <4>1, <4>2, <4>3
    <3>2. QED
      BY <2>2, <3>1 DEF Q!BackIsLast, Q!queue_empty
  <2>6. QED
    BY <1>1, <2>4, <2>5 DEF QueueInv, ListIsSound
<1>2. QED
  BY <1>1, QueueInvariant, PTL

-----------------------------------------------------------------------------
\* What the abstract queue holds is in the cells of the list.
Held == \A s : Whole(s) => Q!Contents = [i \in 1..Len(s) |-> byte[s[i]]]

\* It does in every state.
LEMMA ContentsAre == Held
  BY CellsAre DEF Held, Q!Contents

\* It does in the next state.
LEMMA ContentsAreNext == Held'
  BY ContentsAre, PTL

\* queue_push is Push of the abstract queue.
LEMMA PushRefines ==
    ASSUME Q!TypeOK, NEW s, Whole(s), NEW b \in Elem, Q!queue_push(b)
    PROVE  Q!Abstract!Push(b)
<1>1. PICK c \in Cell \ live :
         Whole(Append(s, c))' /\ byte' = [byte EXCEPT ![c] = b] /\ open /\ open' = open
  BY PushIs
<1> DEFINE t == Append(s, c)
           old == [i \in 1..Len(s) |-> byte[s[i]]]
           new == [i \in 1..Len(t) |-> byte'[t[i]]]
<1>2. Q!Contents = old /\ Q!Contents' = new
  BY <1>1, ContentsAre, ContentsAreNext DEF Held
<1>3. /\ s \in Seq(Cell) /\ Len(s) \in Nat /\ byte \in [Cell -> Elem] /\ c \in Cell
      /\ \A i \in 1..Len(s) : s[i] \in Cell /\ s[i] # c
  BY <1>1 DEF Whole, Q!TypeOK
<1>4. /\ Len(t) = Len(s) + 1 /\ t[Len(s) + 1] = c
      /\ \A i \in 1..Len(s) : t[i] = s[i]
  BY <1>3, AppendProperties
<1> HIDE DEF t
<1>5. old \in Seq(Elem) /\ Len(old) = Len(s)
  BY <1>3
<1>6. new \in Seq(Elem) /\ Len(new) = Len(s) + 1
  <2>1. \A i \in 1..Len(t) : byte'[t[i]] \in Elem
    BY <1>1, <1>3, <1>4
  <2>2. QED
    BY <1>3, <1>4, <2>1
<1>7. /\ \A i \in 1..Len(s) : new[i] = old[i]
      /\ new[Len(s) + 1] = b
  BY <1>1, <1>3, <1>4
<1> HIDE DEF old, new
<1>8. new = Append(old, b)
  <2>1. /\ Append(old, b) \in Seq(Elem) /\ Len(Append(old, b)) = Len(s) + 1
        /\ \A i \in 1..Len(s) : Append(old, b)[i] = old[i]
        /\ Append(old, b)[Len(s) + 1] = b
    BY <1>5, AppendProperties
  <2>2. \A i \in 1..(Len(s) + 1) : i \in 1..Len(s) \/ i = Len(s) + 1
    BY <1>3
  <2>3. \A i \in 1..(Len(s) + 1) : new[i] = Append(old, b)[i]
    BY <1>7, <2>1, <2>2
  <2>4. QED
    BY <1>6, <2>1, <2>3, SeqEqual
<1>9. QED
  BY <1>1, <1>2, <1>8 DEF Q!Abstract!Push

\* queue_pop is Pop of the abstract queue.
LEMMA PopRefines ==
    ASSUME Q!TypeOK, NEW s, Whole(s), Q!queue_pop
    PROVE  Q!Abstract!Pop
<1>1. s # <<>> /\ Whole(Tail(s))' /\ byte' = byte /\ open /\ open' = open
  BY PopIs
<1> DEFINE t == Tail(s)
           old == [i \in 1..Len(s) |-> byte[s[i]]]
           new == [i \in 1..Len(t) |-> byte[t[i]]]
<1>2. Q!Contents = old /\ Q!Contents' = new
  BY <1>1, ContentsAre, ContentsAreNext DEF Held
<1>3. s \in Seq(Cell) /\ Len(s) \in Nat \ {0} /\ byte \in [Cell -> Elem]
  BY <1>1, EmptySeq DEF Whole, Q!TypeOK
<1>4. t \in Seq(Cell) /\ Len(t) = Len(s) - 1 /\ \A i \in 1..Len(t) : t[i] = s[i + 1]
  BY <1>1, <1>3
<1> HIDE DEF t
<1>5. old \in Seq(Elem) /\ Len(old) = Len(s)
  <2>1. \A i \in 1..Len(s) : byte[s[i]] \in Elem
    BY <1>3
  <2>2. QED
    BY <1>3, <2>1
<1>6. new \in Seq(Elem) /\ Len(new) = Len(s) - 1
  <2>1. \A i \in 1..Len(t) : byte[t[i]] \in Elem
    BY <1>3, <1>4
  <2>2. QED
    BY <1>3, <1>4, <2>1
<1>7. \A i \in 1..(Len(s) - 1) : new[i] = old[i + 1]
  BY <1>3, <1>4
<1> HIDE DEF old, new
<1>8. old # <<>> /\ new = Tail(old)
  <2>1. old # <<>>
    BY <1>3, <1>5
  <2>2. /\ Tail(old) \in Seq(Elem) /\ Len(Tail(old)) = Len(s) - 1
        /\ \A i \in 1..(Len(s) - 1) : Tail(old)[i] = old[i + 1]
    BY <1>3, <1>5, <2>1
  <2>3. QED
    BY <1>6, <1>7, <2>1, <2>2, SeqEqual
<1>9. QED
  BY <1>1, <1>2, <1>8 DEF Q!Abstract!Pop

\* The list is empty, and so is the abstract queue.
LEMMA EmptyRefines == ASSUME Whole(<<>>)' PROVE Q!Contents' = <<>>
<1>1. Q!Contents' = [i \in 1..Len(<<>>) |-> byte'[<<>>[i]]]
  BY ContentsAreNext DEF Held
<1>2. QED
  BY <1>1

(***************************************************************************)
(* The linked list of queue.c implements the FIFO that in_fifo and         *)
(* out_fifo of the driver are taken for, on a heap of any size that hands  *)
(* out freed cells in any order.                                           *)
(***************************************************************************)
THEOREM QueueRefinesFifo == Q!Spec => RefinesFifo
<1>1. ASSUME Q!Init PROVE Q!Abstract!Init
  <2>1. Whole(<<>>) /\ open = FALSE
    BY <1>1, EmptyWhole DEF Q!Init
  <2>2. Q!Contents = [i \in 1..Len(<<>>) |-> byte[<<>>[i]]]
    BY <2>1, ContentsAre DEF Held
  <2>3. Q!Contents = <<>>
    BY <2>2
  <2>4. QED
    BY <2>1, <2>3 DEF Q!Abstract!Init
<1>2. ASSUME QueueInv, [Q!Next]_(Q!vars) PROVE [Q!Abstract!Next]_(Q!Abstract!vars)
  <2>1. PICK s : Whole(s)
    BY <1>2 DEF QueueInv
  <2>2. Q!TypeOK
    BY <1>2 DEF QueueInv
  <2>3. CASE Q!queue_init
    <3>1. ~open /\ open' = TRUE
      BY <2>3 DEF Q!queue_init
    <3>2. Q!Contents' = <<>>
      BY <2>1, <2>3, InitIs, EmptyRefines
    <3>3. QED
      BY <3>1, <3>2 DEF Q!Abstract!Next, Q!Abstract!Create
  <2>4. ASSUME NEW b \in Elem, Q!queue_push(b) PROVE Q!Abstract!Next
    BY <2>1, <2>2, <2>4, PushRefines DEF Q!Abstract!Next
  <2>5. CASE Q!queue_pop
    BY <2>1, <2>2, <2>5, PopRefines DEF Q!Abstract!Next
  <2>6. CASE Q!queue_clean
    <3>1. Q!Contents' = <<>> /\ open
      BY <2>1, <2>2, <2>6, CleanIs, EmptyRefines
    <3>2. QED
      BY <2>6, <3>1 DEF Q!queue_clean, Q!Abstract!Next, Q!Abstract!Clean
  <2>7. CASE Q!queue_delete
    <3>1. Q!Contents' = <<>> /\ open
      BY <2>1, <2>2, <2>7, CleanIs, EmptyRefines
    <3>2. QED
      BY <2>7, <3>1 DEF Q!queue_delete, Q!Abstract!Next, Q!Abstract!Delete
  <2>8. CASE UNCHANGED Q!vars
    <3>1. UNCHANGED <<open, live, front, back, byte, next>>
      BY <2>8 DEF Q!vars
    <3>2. Whole(s)'
      BY <2>1, <3>1 DEF Whole, Q!Chain
    <3>3. Q!Contents' = Q!Contents
      BY <2>1, <3>1, <3>2, ContentsAre, ContentsAreNext DEF Held
    <3>4. QED
      BY <3>1, <3>3 DEF Q!Abstract!vars
  <2>9. QED
    BY <1>2, <2>3, <2>4, <2>5, <2>6, <2>7, <2>8 DEF Q!Next
<1>3. QED
  BY <1>1, <1>2, QueueInvariant, PTL DEF Q!Spec, RefinesFifo, Q!RefinesFifo, Q!Abstract!Spec
=============================================================================
