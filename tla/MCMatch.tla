------------------------------ MODULE MCMatch -------------------------------
(***************************************************************************)
(* A match between two machines, for TLC: what they send while they play   *)
(* (module Packets), and how the match ends on both (module Match).  They  *)
(* share no state, and in a behaviour one part moves.                      *)
(***************************************************************************)
EXTENDS Packets

CONSTANTS
    Peer,            \* the two machines
    Patience,        \* UART_PACKET_TRIES of module Match
    Skew, MaxLoss

VARIABLES part, state, tries, arrived, batches, lead, decided, late, loss

M == INSTANCE Match WITH in_fifo <- arrived, wire <- batches, PacketTries <- Patience

ASSUME MatchInstances == M!MatchConstants

match == <<state, tries, arrived, batches, lead, decided, late, loss>>

\* Controls whose bytes are the awkward ones: mouse bytes and flags that look
\* like the start of a packet or spell WIN, and movements beyond the limit of
\* 1.9 radians.
MCControls == {
    \* mouse_byte 87 'W', flags 73 'I'
    [keys |-> {"w", "d"}, lb |-> TRUE, gun_index |-> 0, mouse_desl |-> 870],
    \* mouse_byte 78 'N', flags 170: a header with bit 1
    [keys |-> {"a", "d", "ctrl"}, lb |-> FALSE, gun_index |-> 1, mouse_desl |-> -789],
    \* mouse_byte 73 'I', flags 78 'N'
    [keys |-> {"w", "d", "shift", "ctrl"}, lb |-> FALSE, gun_index |-> 1, mouse_desl |-> 730],
    \* beyond the limit; flags 87 'W'
    [keys |-> {"w", "s", "shift", "ctrl"}, lb |-> TRUE, gun_index |-> 2, mouse_desl |-> 4000]}

MCInit == part \in {"packets", "match"} /\ Init /\ M!Init

MCNext ==
    \/ part = "packets" /\ Next /\ UNCHANGED <<part, match>>
    \/ part = "match" /\ M!Next /\ UNCHANGED <<part, vars>>

\* The fairness of the two modules, for the behaviours in which they move.
MCFairness ==
    /\ WF_vars(part = "packets" /\ Deliver) /\ WF_vars(part = "packets" /\ uart_receive_data)
    /\ WF_vars(part = "packets" /\ take_byte) /\ WF_vars(part = "packets" /\ queue_emptied)
    /\ \A p \in Peer :
         /\ WF_match(part = "match" /\ M!game_handler(p, "on", FALSE))
         /\ WF_match(part = "match" /\ M!Deliver(p))

MCSpec == MCInit /\ [][MCNext]_<<part, vars, match>> /\ MCFairness

-----------------------------------------------------------------------------
(***************************************************************************)
(* The variables of both modules have their types: packet_tries stops one  *)
(* beyond UART_PACKET_TRIES, where the machine gives up.                   *)
(***************************************************************************)
MatchTypeOK == TypeOK /\ M!TypeOK

(***************************************************************************)
(* Two machines judge a match differently only if their messages cross:    *)
(* one that is told the result by the other shows the opposite of what     *)
(* that one shows, also when Escape, the exit button or a lost packet got  *)
(* in between, and it hears of it before it plays a second tick, when no   *)
(* packet is lost (update_game_state).                                     *)
(***************************************************************************)
ResultsAgree == M!ToldIsOpposite /\ M!HearsOfResult

(***************************************************************************)
(* No machine gives up a partner that still plays, as long as the packets  *)
(* lost in the match and twice the skew of the two timers do not add up to *)
(* more than UART_PACKET_TRIES.                                            *)
(***************************************************************************)
DisconnectMeansGone == M!DisconnectMeansGone

(***************************************************************************)
(* Nobody plays on alone: a partner that stops sending is noticed whatever *)
(* bytes it left behind (uart_receive_data), and when one machine leaves   *)
(* the match, for whatever reason, the other one leaves it too, even if    *)
(* the string that says so is lost.                                        *)
(***************************************************************************)
NobodyPlaysAlone == PartnerIsMissed /\ M!LeaveTogether
=============================================================================
