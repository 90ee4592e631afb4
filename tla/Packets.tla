------------------------------- MODULE Packets ------------------------------
(***************************************************************************)
(* The packets of a match (networking/networking.c): one machine sends     *)
(* what its player does in every tick, the other repeats it on its copy of *)
(* that player.  encode_packet and encode_data turn the controls into      *)
(* three bytes, uart_receive_data finds the three bytes in the stream, and *)
(* decode_data and decode_packet turn them back; WIN and LOS end the match.*)
(*                                                                         *)
(* Bytes are numbers here, because the framing rests on their values.  The *)
(* drivers deliver them in order (module Uart); the cable may lose a byte  *)
(* or damage one, which then follows its UART_ERROR_CODE in in_fifo.       *)
(***************************************************************************)
EXTENDS Integers, Sequences, SequencesExt

CONSTANTS
    Controls,        \* what the sending player may do in a tick
    PacketTries,     \* UART_PACKET_TRIES
    MaxPackets,      \* bound: packets sent in a match
    MaxMatches,      \* bound: matches played
    MaxNoise,        \* bound: bytes lost or damaged
    NoiseByte        \* what a damaged byte may turn into

Key == {"w", "a", "s", "d", "shift", "ctrl"}

\* Mouse movement (mouse_desl) is counted in 1/1280 of a radian.
ASSUME PacketsConstants ==
    /\ Controls \subseteq [keys : SUBSET Key, lb : BOOLEAN, gun_index : 0..2, mouse_desl : Int]
    /\ PacketTries \in Nat /\ MaxPackets \in Nat /\ MaxMatches \in Nat /\ MaxNoise \in Nat
    /\ NoiseByte \subseteq 0..255

VARIABLES
    sent, ended,     \* what the sender did in this match, and how it ended it
    wire, in_fifo,
    receiving,       \* uart_receive_data is running
    bytes,           \* the first packet_idx bytes of the static array
    packet_tries,
    applied, out,    \* what the receiver repeated, and how the match ended for it
    noise, matches,  \* counters for the bounds
    damaged          \* what damaged bytes have turned into

packet_idx == Len(bytes)

vars == <<sent, ended, wire, in_fifo, receiving, bytes, packet_tries,
          applied, out, noise, matches, damaged>>

-----------------------------------------------------------------------------
DATA_BYTES == 3
DATA_CONFIRM_PACKET == 168            \* bits 7, 5 and 3; the mask is 0xf8
UART_ERROR_CODE == -1
UART_WIN_GAME == <<87, 73, 78>>
UART_LOSE_GAME == <<76, 79, 83>>

Bit == [shoot |-> 1, ctrl |-> 2, shift |-> 4, d |-> 8, s |-> 16, a |-> 32, w |-> 64, msb |-> 128]
DATA_GUN_DOWN == <<1, 2, 4>>

Confirmed(byte) == byte >= 0 /\ byte - (byte % 8) = DATA_CONFIRM_PACKET

-----------------------------------------------------------------------------
(* The sender.                                                             *)

\* 1.9 radians, and the quantum 1/128.
Limit == 2432
Quantum == 10

Clamp(x) == IF x > Limit THEN Limit ELSE IF x < -Limit THEN -Limit ELSE x
Magnitude(x) == IF x < 0 THEN -x ELSE x

encode_packet(c) ==
    [down |-> c.keys \cup (IF c.lb THEN {"shoot"} ELSE {})
                     \cup (IF c.mouse_desl < 0 THEN {"msb"} ELSE {}),
     gun_down |-> c.gun_index + 1,
     mouse_byte |-> (Magnitude(Clamp(c.mouse_desl)) \div Quantum) % 256]

Flag(pkt, k) == IF k \in pkt.down THEN Bit[k] ELSE 0

encode_data(pkt) ==
    <<DATA_CONFIRM_PACKET + DATA_GUN_DOWN[pkt.gun_down], pkt.mouse_byte,
      Flag(pkt, "shoot") + Flag(pkt, "ctrl") + Flag(pkt, "shift") + Flag(pkt, "d")
        + Flag(pkt, "s") + Flag(pkt, "a") + Flag(pkt, "w") + Flag(pkt, "msb")>>

\* What the sender's own player_int_ih makes of the controls.
LocalEffect(c) ==
    LET x == (Magnitude(Clamp(c.mouse_desl)) \div Quantum) % 256
    IN  [keys |-> c.keys, lb |-> c.lb, gun |-> c.gun_index,
         turn |-> IF c.mouse_desl < 0 THEN -x ELSE x]

uart_send_data(c) ==
    /\ ended = "no" /\ Len(sent) < MaxPackets
    /\ sent' = Append(sent, LocalEffect(c))
    /\ wire' = wire \o encode_data(encode_packet(c))
    /\ UNCHANGED <<ended, in_fifo, receiving, bytes, packet_tries, applied, out, noise, matches, damaged>>

\* update_game_state: the loser tells the other machine that it won.
uart_send_string(word) ==
    /\ ended = "no"
    /\ ended' = IF word = UART_WIN_GAME THEN "WIN" ELSE "LOSE"
    /\ wire' = wire \o word
    /\ UNCHANGED <<sent, in_fifo, receiving, bytes, packet_tries, applied, out, noise, matches, damaged>>

-----------------------------------------------------------------------------
(* The cable and the receiving driver; uart_ih does not run inside a tick. *)

Deliver ==
    /\ wire # <<>> /\ ~receiving
    /\ wire' = Tail(wire) /\ in_fifo' = Append(in_fifo, Head(wire))
    /\ UNCHANGED <<sent, ended, receiving, bytes, packet_tries, applied, out, noise, matches, damaged>>

Disturb ==
    /\ wire # <<>> /\ ~receiving /\ noise < MaxNoise
    /\ wire' = Tail(wire) /\ noise' = noise + 1
    /\ \/ in_fifo' = in_fifo /\ damaged' = damaged      \* overrun: the byte is lost
       \/ \E b \in NoiseByte : /\ in_fifo' = in_fifo \o <<UART_ERROR_CODE, b>>
                                /\ damaged' = damaged \cup {b}
    /\ UNCHANGED <<sent, ended, receiving, bytes, packet_tries, applied, out, matches>>

-----------------------------------------------------------------------------
(* The receiver.                                                           *)

decode_data(data) ==
    [down |-> {k \in DOMAIN Bit : (data[3] \div Bit[k]) % 2 = 1},
     mouse_byte |-> data[2],
     gun_down |-> CASE data[1] % 2 = 1 -> 1
                    [] data[1] % 2 = 0 /\ (data[1] \div 2) % 2 = 1 -> 2
                    [] data[1] % 4 = 0 /\ (data[1] \div 4) % 2 = 1 -> 3
                    [] OTHER -> 0]

\* decode_packet, and what player_int_ih then does with that player; it keeps
\* its gun (-1) when no gun bit is set.
RemoteEffect(pkt) ==
    LET x == Magnitude(Clamp(pkt.mouse_byte * Quantum)) \div Quantum
    IN  [keys |-> pkt.down \ {"shoot", "msb"}, lb |-> "shoot" \in pkt.down,
         gun |-> pkt.gun_down - 1, turn |-> IF "msb" \in pkt.down THEN -x ELSE x]

uart_receive_data_silence_uncounted ==
    /\ out = "no" /\ ~receiving
    /\ receiving' = TRUE
    /\ packet_tries' = IF in_fifo = <<>> THEN packet_tries ELSE packet_tries + 1
    /\ UNCHANGED <<sent, ended, wire, in_fifo, bytes, applied, out, noise, matches, damaged>>

\* uart_receive_data, one tick of a match: count the try, take the queue byte
\* by byte, give up after too many ticks without a packet.
uart_receive_data ==
    /\ out = "no" /\ ~receiving
    /\ receiving' = TRUE /\ packet_tries' = packet_tries + 1
    /\ UNCHANGED <<sent, ended, wire, in_fifo, bytes, applied, out, noise, matches, damaged>>

MayStart(byte) == Confirmed(byte) \/ byte \in {UART_WIN_GAME[1], UART_LOSE_GAME[1]}

Result_by_first_byte(packet) ==
    CASE packet[1] = UART_WIN_GAME[1] -> "WIN"
      [] packet[1] = UART_LOSE_GAME[1] -> "LOSE"
      [] OTHER -> "no"

Result(packet) ==
    CASE packet = UART_WIN_GAME -> "WIN"
      [] packet = UART_LOSE_GAME -> "LOSE"
      [] OTHER -> "no"

take_byte ==
    /\ receiving /\ in_fifo # <<>>
    /\ in_fifo' = Tail(in_fifo)
    /\ LET skip == packet_idx = 0 /\ ~MayStart(Head(in_fifo))
           full == Append(bytes, Head(in_fifo) % 256)
           done == ~skip /\ packet_idx + 1 = DATA_BYTES
       IN  /\ bytes' = IF skip \/ done THEN <<>> ELSE full
           /\ packet_tries' = IF done THEN 0 ELSE packet_tries
           /\ out' = IF done THEN Result(full) ELSE out
           /\ applied' = IF done /\ Result(full) = "no"
                           THEN Append(applied, RemoteEffect(decode_data(full))) ELSE applied
           /\ receiving' = (out' = "no")
    /\ UNCHANGED <<sent, ended, wire, noise, matches, damaged>>

give_up_never == "no"

give_up == IF packet_tries > PacketTries THEN "DISCONNECTED" ELSE "no"

queue_emptied ==
    /\ receiving /\ in_fifo = <<>>
    /\ receiving' = FALSE
    /\ out' = give_up
    /\ UNCHANGED <<sent, ended, wire, in_fifo, bytes, packet_tries, applied, noise, matches, damaged>>

\* A machine ends its match without being told: it decides the outcome itself,
\* or (the sender) is told or gives up in the other direction.
SenderStops ==
    /\ ended = "no" /\ ended' = "stopped"
    /\ UNCHANGED <<sent, wire, in_fifo, receiving, bytes, packet_tries, applied,
                   out, noise, matches, damaged>>

ReceiverStops ==
    /\ out = "no" /\ ~receiving /\ out' = "stopped"
    /\ UNCHANGED <<sent, ended, wire, in_fifo, receiving, bytes, packet_tries,
                   applied, noise, matches, damaged>>

NewMatch(rest, tries) ==
    /\ out # "no" /\ ended # "no" /\ matches < MaxMatches
    /\ matches' = matches + 1
    /\ bytes' = rest /\ packet_tries' = tries
    /\ sent' = <<>> /\ applied' = <<>> /\ ended' = "no" /\ out' = "no"
    /\ wire' = <<>> /\ in_fifo' = <<>>
    /\ UNCHANGED <<receiving, noise, damaged>>

cleanup_keeps_idx == NewMatch(bytes, 0)

\* Between two matches uart_sync cleans up, and the handshake (module
\* Networking) uses up whatever was still on its way.
cleanup == NewMatch(<<>>, 0)

-----------------------------------------------------------------------------
Init ==
    /\ sent = <<>> /\ applied = <<>> /\ ended = "no" /\ out = "no"
    /\ wire = <<>> /\ in_fifo = <<>> /\ receiving = FALSE
    /\ bytes = <<>> /\ packet_tries = 0
    /\ noise = 0 /\ matches = 1 /\ damaged = {}

Next ==
    \/ \E c \in Controls : uart_send_data(c)
    \/ \E word \in {UART_WIN_GAME, UART_LOSE_GAME} : uart_send_string(word)
    \/ Deliver
    \/ Disturb
    \/ uart_receive_data
    \/ take_byte
    \/ queue_emptied
    \/ SenderStops
    \/ ReceiverStops
    \/ cleanup

Spec == Init /\ [][Next]_vars

\* The receiver's timer ticks and the cable delivers what is on it.
FairSpec ==
    /\ Spec /\ WF_vars(Deliver)
    /\ WF_vars(uart_receive_data) /\ WF_vars(take_byte) /\ WF_vars(queue_emptied)

Effect == [keys : SUBSET Key, lb : BOOLEAN, gun : -1..2, turn : -243..243]

TypeOK ==
    /\ sent \in Seq(Effect) /\ applied \in Seq(Effect)
    /\ ended \in {"no", "WIN", "LOSE", "stopped"}
    /\ out \in {"no", "WIN", "LOSE", "DISCONNECTED", "stopped"}
    /\ wire \in Seq(0..255) /\ in_fifo \in Seq(-1..255) /\ receiving \in BOOLEAN
    /\ bytes \in Seq(0..255) /\ packet_idx < DATA_BYTES
    /\ packet_tries \in 0..(PacketTries + 1) /\ noise \in 0..MaxNoise /\ damaged \subseteq NoiseByte

-----------------------------------------------------------------------------
(***************************************************************************)
(* On a clean line the copy of a player does exactly what the player did:  *)
(* the same keys, trigger, gun and rotation, tick by tick and in order,    *)
(* although the bytes come in any pieces, extreme mouse movements are cut  *)
(* off, payload bytes may look like the start of a packet, and the match   *)
(* before may have been left in the middle of a packet.                    *)
(***************************************************************************)
CopyFollows == noise = 0 => IsPrefix(applied, sent)

(***************************************************************************)
(* Nobody is told a result that was not sent: with payload bytes that      *)
(* spell WIN or LOS and one byte lost or damaged at any place,             *)
(* uart_receive_data returns WIN_GAME_ERR or LOSE_GAME_ERR only for the    *)
(* string the other machine sent.  The exception is a byte that is damaged *)
(* into a letter of the strings: a header that becomes W, before a payload *)
(* I N, is a result.                                                       *)
(***************************************************************************)
Letter == {UART_WIN_GAME[i] : i \in 1..3} \cup {UART_LOSE_GAME[i] : i \in 1..3}
NoFalseResult == (out \in {"WIN", "LOSE"} /\ damaged \cap Letter = {}) => ended = out

(***************************************************************************)
(* A machine whose partner has left the match does not play on: the        *)
(* partner's string arrives, or UART_PACKET_TRIES runs out, also when a    *)
(* damaged stream hides the string inside a wrong packet.                  *)
(***************************************************************************)
PartnerIsMissed == (ended # "no") ~> (out # "no")
=============================================================================
