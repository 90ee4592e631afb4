------------------------------ MODULE MCSerial ------------------------------
(***************************************************************************)
(* The serial line, for TLC: the driver (module Uart), the linked list     *)
(* under its two queues (Queue), and how two machines find each other over *)
(* a clean line (Networking).  They share no state, and in a behaviour one *)
(* part moves.                                                             *)
(***************************************************************************)
EXTENDS Uart

CONSTANTS Cell, NULL, Elem, Peer

VARIABLES
    part,
    open, live, front, back, byte, next,
    screen, nstate, idx, tries, player, idle, waiting, got, cable, joins, noise

Q == INSTANCE Queue

\* Bytes travel faster than ticks; one user leaves and joins again, twice.
N == INSTANCE Networking WITH
       can_send <- idle, out_fifo <- waiting, in_fifo <- got, wire <- cable,
       SyncTries <- 2, Returning <- {CHOOSE p \in Peer : TRUE}, MaxJoins <- 3,
       MaxNoise <- 0, NoiseByte <- {"J"}, Marked <- TRUE, Timely <- TRUE

ASSUME QueueInstance == Q!QueueConstants

handshake == <<screen, nstate, idx, tries, player, idle, waiting, got, cable, joins, noise>>
queue == <<open, live, front, back, byte, next>>

\* The part that stands still has one initial state.
MCInit ==
    /\ part \in {"uart", "queue", "handshake"} /\ Init /\ Q!Init /\ N!Init
    /\ part # "queue" => byte = [c \in Cell |-> CHOOSE b \in Elem : TRUE]
    /\ part # "uart" => irq
    /\ part # "handshake" => idle = [p \in Peer |-> TRUE]

MCNext ==
    \/ part = "uart" /\ Next /\ UNCHANGED <<part, queue, handshake>>
    \/ part = "queue" /\ Q!Next /\ UNCHANGED <<part, vars, handshake>>
    \/ part = "handshake" /\ N!Next /\ UNCHANGED <<part, vars, queue>>

\* The fairness of Uart and Networking, for the behaviours in which they move.
MCFairness ==
    /\ WF_vars(part = "uart" /\ Transfer) /\ WF_vars(part = "uart" /\ Handler)
    /\ \A p \in Peer :
         /\ WF_handshake(part = "handshake" /\ N!game_handler(p))
         /\ WF_handshake(part = "handshake" /\ N!TransmitterEmpty(p))
         /\ WF_handshake(part = "handshake" /\ N!Deliver(p))

MCSpec == MCInit /\ [][MCNext]_<<part, vars, queue, handshake>> /\ MCFairness

-----------------------------------------------------------------------------
(***************************************************************************)
(* The list of queue.c is sound after any mix of queue_push, queue_pop,    *)
(* queue_clean and queue_delete: the heap holds exactly its cells, and     *)
(* queue_push writes through `back` only when that is the last one,        *)
(* although queue_pop and queue_clean leave `back` dangling.               *)
(***************************************************************************)
ListIsSound == Q!TypeOK /\ Q!NoLeakNoDangling /\ Q!BackIsLast

(***************************************************************************)
(* The linked list of queue.c implements the FIFO that in_fifo and         *)
(* out_fifo of the driver are taken for.                                   *)
(***************************************************************************)
RefinesFifo == Q!RefinesFifo

(***************************************************************************)
(* The handshake comes to an end: nobody waits in the multiplayer menu for *)
(* ever, because uart_sync connects the machine or its count of tries      *)
(* takes it back; and a machine that joins while the other one waits on a  *)
(* quiet line gets connected to it, unless a user leaves, since its join   *)
(* request makes the other one forget a password it had begun              *)
(* (uart_sync_link).                                                       *)
(***************************************************************************)
HandshakeEnds == N!MpMenuEnds /\ N!LateJoinerConnects
=============================================================================
