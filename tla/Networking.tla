------------------------------ MODULE Networking ----------------------------
(***************************************************************************)
(* The connection handshake of networking/networking.c (uart_sync and what *)
(* it calls) between two machines joined by a serial cable, together with  *)
(* the part of game_handler that runs it while the multiplayer menu is up. *)
(*                                                                         *)
(* The serial drivers are seen through what module Uart establishes: bytes *)
(* arrive in order; a byte sent while can_send holds is on its way at      *)
(* once; otherwise it waits in out_fifo, where empty_transmit_queue can    *)
(* still cancel it, until the next transmitter-empty interrupt.            *)
(* Once CONNECTED a machine is in the game and reads no handshake byte.    *)
(***************************************************************************)
EXTENDS Integers, Sequences

CONSTANTS
    Peer,            \* the two machines
    SyncTries,       \* UART_SYNC_TRIES
    Returning,       \* the users who come back to the multiplayer menu, and
    MaxJoins,        \* bound: how often they open it (the others: once)
    MaxNoise,        \* bound: bytes the line damages
    NoiseByte,       \* what a damaged byte may turn into
    Marked,          \* every damaged byte carries its UART_ERROR_CODE
    Timely           \* bytes travel faster than the 60 Hz ticks of game_handler

ASSUME NetworkingConstants ==
    /\ \E a, b \in Peer : a # b /\ Peer = {a, b}
    /\ Returning \subseteq Peer
    /\ SyncTries \in Nat /\ MaxJoins \in Nat /\ MaxNoise \in Nat
    /\ Marked \in BOOLEAN /\ Timely \in BOOLEAN

VARIABLES
    screen,          \* "menu", "mp" (multiplayer menu) or "game", per machine
    nstate,          \* network_state_t
    idx, tries, player,
    can_send, out_fifo, in_fifo,   \* the serial driver of each machine
    wire,            \* bytes each machine has sent and the other has not got
    joins, noise     \* counters for the bounds

vars == <<screen, nstate, idx, tries, player, can_send, out_fifo, in_fifo,
          wire, joins, noise>>

-----------------------------------------------------------------------------
UART_SYNC_PASSWORD == <<"S", "T", "A", "R", "T">>
UART_SYNC_RESPONSE == <<"B", "E", "G", "I", "N">>
UART_PASSWORD_SIZE == Len(UART_SYNC_PASSWORD)

\* The C string indexed from 0; its byte number UART_PASSWORD_SIZE is the NUL,
\* and what lies beyond it is not part of the string.
CharAt(str, i) == IF i < Len(str) THEN str[i + 1]
                  ELSE IF i = Len(str) THEN "NUL" ELSE "beyond"

Byte == {"J", "O", "P", "NUL", "beyond", "other"}
          \cup {UART_SYNC_PASSWORD[i] : i \in 1..Len(UART_SYNC_PASSWORD)}
          \cup {UART_SYNC_RESPONSE[i] : i \in 1..Len(UART_SYNC_RESPONSE)}

ASSUME NoiseAssumption == NoiseByte \subseteq Byte

UART_ERROR_CODE == "ERR"

Other(p) == CHOOSE q \in Peer : q # p

NetworkState == {"INIT", "WAITING", "LINKED", "CONNECTED", "DISCONNECTED", "CLEANUP"}

TypeOK ==
    /\ screen \in [Peer -> {"menu", "mp", "game"}]
    /\ nstate \in [Peer -> NetworkState]
    /\ idx \in [Peer -> 0..UART_PASSWORD_SIZE]
    /\ tries \in [Peer -> 0..SyncTries]
    /\ player \in [Peer -> 0..2]
    /\ can_send \in [Peer -> BOOLEAN]
    /\ out_fifo \in [Peer -> Seq(Byte)] /\ wire \in [Peer -> Seq(Byte)]
    /\ in_fifo \in [Peer -> Seq(Byte \cup {UART_ERROR_CODE})]

-----------------------------------------------------------------------------
(***************************************************************************)
(* One machine's share of the state, as uart_sync passes it along.         *)
(***************************************************************************)
Local(p) == [ns |-> nstate[p], ix |-> idx[p], tr |-> tries[p], pl |-> player[p],
             can |-> can_send[p], out |-> out_fifo[p], in |-> in_fifo[p],
             sent |-> <<>>]

uart_safe_transmit(l, b) ==
    IF l.can THEN [l EXCEPT !.sent = Append(@, b)] ELSE [l EXCEPT !.out = Append(@, b)]

empty_transmit_queue(l) == [l EXCEPT !.out = <<>>]

\* Result codes of uart_sync_link and uart_sync_connect are carried in err.
Outcome(l, e) == [l |-> l, err |-> e]

uart_sync_link_idx_kept(l0) ==
    LET byte == Head(l0.in)
        l == [l0 EXCEPT !.in = Tail(@)]
    IN  CASE byte = UART_ERROR_CODE -> Outcome(l, 1)
          [] byte = "O" /\ l.ix = UART_PASSWORD_SIZE ->
               Outcome(uart_safe_transmit([l EXCEPT !.ns = "LINKED", !.ix = 0], "P"), 0)
          [] byte = "O" /\ l.ix # UART_PASSWORD_SIZE ->
               Outcome([uart_safe_transmit(l, CharAt(UART_SYNC_PASSWORD, l.ix))
                          EXCEPT !.ix = @ + 1], 0)
          [] byte = "J" -> Outcome(uart_safe_transmit(empty_transmit_queue(l), "O"), 0)
          [] byte = CharAt(UART_SYNC_PASSWORD, l.ix) ->
               LET m == [uart_safe_transmit(l, "O") EXCEPT !.ix = @ + 1]
               IN  Outcome(IF m.ix = UART_PASSWORD_SIZE
                             THEN [m EXCEPT !.ns = "LINKED", !.ix = 0] ELSE m, 0)
          [] OTHER -> Outcome(l, 2)

uart_sync_link(l0) ==
    LET byte == Head(l0.in)
        l == [l0 EXCEPT !.in = Tail(@)]
    IN  CASE byte = UART_ERROR_CODE -> Outcome(l, 1)
          [] byte = "O" /\ l.ix = UART_PASSWORD_SIZE ->
               Outcome(uart_safe_transmit([l EXCEPT !.ns = "LINKED", !.ix = 0], "P"), 0)
          [] byte = "O" /\ l.ix # UART_PASSWORD_SIZE ->
               Outcome([uart_safe_transmit(l, CharAt(UART_SYNC_PASSWORD, l.ix))
                          EXCEPT !.ix = @ + 1], 0)
          [] byte = "J" ->
               Outcome([uart_safe_transmit(empty_transmit_queue(l), "O") EXCEPT !.ix = 0], 0)
          [] byte = CharAt(UART_SYNC_PASSWORD, l.ix) ->
               LET m == [uart_safe_transmit(l, "O") EXCEPT !.ix = @ + 1]
               IN  Outcome(IF m.ix = UART_PASSWORD_SIZE
                             THEN [m EXCEPT !.ns = "LINKED", !.ix = 0] ELSE m, 0)
          [] OTHER -> Outcome(l, 2)

uart_sync_connect_same_player(l0) ==
    LET byte == Head(l0.in)
        l == [l0 EXCEPT !.in = Tail(@)]
    IN  CASE byte = UART_ERROR_CODE -> Outcome(l, 1)
          [] byte = "O" /\ l.ix = UART_PASSWORD_SIZE ->
               Outcome(empty_transmit_queue([l EXCEPT !.ns = "CONNECTED", !.pl = 1]), 0)
          [] byte = "O" /\ l.ix # UART_PASSWORD_SIZE ->
               Outcome([uart_safe_transmit(l, CharAt(UART_SYNC_RESPONSE, l.ix))
                          EXCEPT !.ix = @ + 1], 0)
          [] byte = "P" ->
               Outcome([uart_safe_transmit(empty_transmit_queue(l),
                          CharAt(UART_SYNC_RESPONSE, 0)) EXCEPT !.ix = 1], 0)
          [] byte = CharAt(UART_SYNC_RESPONSE, l.ix) ->
               LET m == [uart_safe_transmit(l, "O") EXCEPT !.ix = @ + 1]
               IN  Outcome(IF m.ix = UART_PASSWORD_SIZE
                             THEN empty_transmit_queue(
                                    [m EXCEPT !.ns = "CONNECTED", !.pl = 1])
                             ELSE m, 0)
          [] OTHER -> Outcome(l, 2)

uart_sync_connect_last_unacked(l0) ==
    LET byte == Head(l0.in)
        l == [l0 EXCEPT !.in = Tail(@)]
    IN  CASE byte = UART_ERROR_CODE -> Outcome(l, 1)
          [] byte = "O" /\ l.ix = UART_PASSWORD_SIZE - 1 ->
               Outcome(empty_transmit_queue([l EXCEPT !.ns = "CONNECTED", !.pl = 1]), 0)
          [] byte = "O" /\ l.ix # UART_PASSWORD_SIZE - 1 ->
               Outcome([uart_safe_transmit(l, CharAt(UART_SYNC_RESPONSE, l.ix))
                          EXCEPT !.ix = @ + 1], 0)
          [] byte = "P" ->
               Outcome([uart_safe_transmit(empty_transmit_queue(l),
                          CharAt(UART_SYNC_RESPONSE, 0)) EXCEPT !.ix = 1], 0)
          [] byte = CharAt(UART_SYNC_RESPONSE, l.ix) ->
               LET m == [uart_safe_transmit(l, "O") EXCEPT !.ix = @ + 1]
               IN  Outcome(IF m.ix = UART_PASSWORD_SIZE
                             THEN empty_transmit_queue(
                                    [m EXCEPT !.ns = "CONNECTED", !.pl = 2])
                             ELSE m, 0)
          [] OTHER -> Outcome(l, 2)

uart_sync_connect(l0) ==
    LET byte == Head(l0.in)
        l == [l0 EXCEPT !.in = Tail(@)]
    IN  CASE byte = UART_ERROR_CODE -> Outcome(l, 1)
          [] byte = "O" /\ l.ix = UART_PASSWORD_SIZE ->
               Outcome(empty_transmit_queue([l EXCEPT !.ns = "CONNECTED", !.pl = 1]), 0)
          [] byte = "O" /\ l.ix # UART_PASSWORD_SIZE ->
               Outcome([uart_safe_transmit(l, CharAt(UART_SYNC_RESPONSE, l.ix))
                          EXCEPT !.ix = @ + 1], 0)
          [] byte = "P" ->
               Outcome([uart_safe_transmit(empty_transmit_queue(l),
                          CharAt(UART_SYNC_RESPONSE, 0)) EXCEPT !.ix = 1], 0)
          [] byte = CharAt(UART_SYNC_RESPONSE, l.ix) ->
               LET m == [uart_safe_transmit(l, "O") EXCEPT !.ix = @ + 1]
               IN  Outcome(IF m.ix = UART_PASSWORD_SIZE
                             THEN empty_transmit_queue(
                                    [m EXCEPT !.ns = "CONNECTED", !.pl = 2])
                             ELSE m, 0)
          [] OTHER -> Outcome(l, 2)

\* An empty in_fifo is result 2; then the three results are told apart.
reset_sync(l) == [l EXCEPT !.ns = "CLEANUP", !.ix = 0]

count_try_late(l) ==
    IF l.tr > SyncTries THEN [l EXCEPT !.ix = 0, !.ns = "INIT", !.tr = 0]
                        ELSE [l EXCEPT !.tr = @ + 1]

count_try_endless(l) == [l EXCEPT !.tr = IF @ < SyncTries THEN @ + 1 ELSE 0]

count_try(l) ==
    IF l.tr + 1 > SyncTries THEN [l EXCEPT !.ix = 0, !.ns = "INIT", !.tr = 0]
                            ELSE [l EXCEPT !.tr = @ + 1]

Judge(r) == CASE r.err = 1 -> reset_sync(r.l)
              [] r.err = 2 -> count_try(r.l)
              [] OTHER -> r.l

sync_cleanup(l) ==
    IF l.ns = "CLEANUP"
      THEN uart_safe_transmit([l EXCEPT !.ns = "WAITING", !.ix = 0, !.tr = 0,
                                        !.out = <<>>, !.in = <<>>], "J")
      ELSE l

sync_link(l) ==
    IF l.ns = "WAITING"
      THEN Judge(IF l.in = <<>> THEN Outcome(l, 2) ELSE uart_sync_link(l))
      ELSE l

sync_connect(l) ==
    IF l.ns = "LINKED"
      THEN Judge(IF l.in = <<>> THEN Outcome(l, 2) ELSE uart_sync_connect(l))
      ELSE l

uart_sync(l) == sync_connect(sync_link(sync_cleanup(l)))

-----------------------------------------------------------------------------
\* Bytes of p are on their way, or its next tick has something to do.
Sending(p) == wire[p] # <<>> \/ out_fifo[p] # <<>> \/ ~can_send[p]
Pending(p) == screen[p] = "mp" /\ (in_fifo[p] # <<>> \/ nstate[p] \in {"CLEANUP", "INIT"})

(***************************************************************************)
(* A byte takes 0.1 ms, a tick 17 ms, and both machines tick.  With        *)
(* Timely, a machine finds its transmitter idle at every tick, and an idle *)
(* tick, which only counts towards the timeout, comes when nothing is on   *)
(* its way and the other machine has nothing to do either.                 *)
(***************************************************************************)
TickAllowed(p) ==
    Timely => /\ can_send[p] /\ out_fifo[p] = <<>>
              /\ Pending(p) \/ ~(\E q \in Peer : Sending(q) \/ Pending(q))

\* The MP_MENU branch of game_handler.  A byte still on the wire when CLEANUP
\* resets the chip and drains it arrives afterwards.
game_handler(p) ==
    /\ screen[p] = "mp" /\ TickAllowed(p)
    /\ LET l == uart_sync(Local(p))
           left == l.ns = "INIT"
       IN  /\ nstate' = [nstate EXCEPT ![p] = IF left THEN "CLEANUP" ELSE l.ns]
           /\ screen' = [screen EXCEPT ![p] = IF left THEN "menu" ELSE
                            IF l.ns = "CONNECTED" THEN "game" ELSE "mp"]
           /\ idx' = [idx EXCEPT ![p] = l.ix]
           /\ tries' = [tries EXCEPT ![p] = l.tr]
           /\ player' = [player EXCEPT ![p] = l.pl]
           /\ out_fifo' = [out_fifo EXCEPT ![p] = l.out]
           /\ in_fifo' = [in_fifo EXCEPT ![p] = l.in]
           /\ wire' = [wire EXCEPT ![p] = @ \o l.sent]
    /\ UNCHANGED <<can_send, joins, noise>>

\* The multiplayer button of the main menu (render_menu).
OpenMpMenu(p) ==
    /\ screen[p] = "menu" /\ joins[p] < (IF p \in Returning THEN MaxJoins ELSE 1)
    /\ screen' = [screen EXCEPT ![p] = "mp"]
    /\ joins' = [joins EXCEPT ![p] = @ + 1]
    /\ UNCHANGED <<nstate, idx, tries, player, can_send, out_fifo, in_fifo, wire, noise>>

\* The exit button of the multiplayer menu (render_mp_menu).
LeaveMpMenu(p) ==
    /\ screen[p] = "mp"
    /\ screen' = [screen EXCEPT ![p] = "menu"]
    /\ nstate' = [nstate EXCEPT ![p] = "INIT"]
    /\ UNCHANGED <<idx, tries, player, can_send, out_fifo, in_fifo, wire, joins, noise>>

-----------------------------------------------------------------------------
(* The serial line and the drivers' interrupt handlers.                    *)

\* uart_ih on a transmitter-empty interrupt.
TransmitterEmpty(p) ==
    /\ ~can_send[p]
    /\ can_send' = [can_send EXCEPT ![p] = out_fifo[p] = <<>>]
    /\ wire' = [wire EXCEPT ![p] = @ \o out_fifo[p]]
    /\ out_fifo' = [out_fifo EXCEPT ![p] = <<>>]
    /\ UNCHANGED <<screen, nstate, idx, tries, player, in_fifo, joins, noise>>

\* A byte of p reaches the in_fifo of the other machine.
Deliver(p) ==
    /\ wire[p] # <<>>
    /\ wire' = [wire EXCEPT ![p] = Tail(@)]
    /\ in_fifo' = [in_fifo EXCEPT ![Other(p)] = Append(@, Head(wire[p]))]
    /\ UNCHANGED <<screen, nstate, idx, tries, player, can_send, out_fifo, joins, noise>>

\* It arrives damaged, with the error marker or (see module Uart) without.
DeliverDamaged(p) ==
    /\ wire[p] # <<>> /\ noise < MaxNoise
    /\ noise' = noise + 1
    /\ wire' = [wire EXCEPT ![p] = Tail(@)]
    /\ \E b \in NoiseByte, marked \in {TRUE, Marked} :
         in_fifo' = [in_fifo EXCEPT ![Other(p)] =
                        @ \o (IF marked THEN <<UART_ERROR_CODE, b>> ELSE <<b>>)]
    /\ UNCHANGED <<screen, nstate, idx, tries, player, can_send, out_fifo, joins>>

-----------------------------------------------------------------------------
\* A machine that comes from a match may still be waiting for its transmitter.
Init ==
    /\ screen = [p \in Peer |-> "menu"] /\ nstate = [p \in Peer |-> "CLEANUP"]
    /\ idx = [p \in Peer |-> 0] /\ tries = [p \in Peer |-> 0]
    /\ player = [p \in Peer |-> 0]
    /\ can_send \in [Peer -> BOOLEAN]
    /\ out_fifo = [p \in Peer |-> <<>>] /\ in_fifo = [p \in Peer |-> <<>>]
    /\ wire = [p \in Peer |-> <<>>]
    /\ joins = [p \in Peer |-> 0] /\ noise = 0

Next == \E p \in Peer :
    \/ game_handler(p) \/ OpenMpMenu(p) \/ LeaveMpMenu(p)
    \/ TransmitterEmpty(p) \/ Deliver(p) \/ DeliverDamaged(p)

Spec == Init /\ [][Next]_vars

(***************************************************************************)
(* The timer keeps calling game_handler, interrupts are answered and bytes *)
(* sent arrive (module Uart).  Users are free to do nothing.               *)
(***************************************************************************)
Fairness == \A p \in Peer :
    WF_vars(game_handler(p)) /\ WF_vars(TransmitterEmpty(p)) /\ WF_vars(Deliver(p))

FairSpec == Spec /\ Fairness

-----------------------------------------------------------------------------
Connected(p) == nstate[p] = "CONNECTED"

(***************************************************************************)
(* The two machines never play on the same side: setup_multiplayer puts    *)
(* player 1 and player 2 at opposite corners from get_network_player, and  *)
(* the two values come from different branches of uart_sync_connect on     *)
(* different machines.                                                     *)
(***************************************************************************)
DistinctPlayers ==
    \A p, q \in Peer : (p # q /\ Connected(p) /\ Connected(q)) => player[p] # player[q]

(***************************************************************************)
(* Player 1 connects last: when a machine enters the game as player 1, the *)
(* other one has entered it as player 2.                                   *)
(***************************************************************************)
FirstImpliesSecond ==
    \A p \in Peer : (Connected(p) /\ player[p] = 1) =>
        (Connected(Other(p)) /\ player[Other(p)] = 2)

(***************************************************************************)
(* The handshake of uart_sync gives the two machines different sides, and  *)
(* player 1, whose turn comes last, never starts a match alone.            *)
(***************************************************************************)
SidesAgree == DistinctPlayers /\ FirstImpliesSecond

(***************************************************************************)
(* Nobody waits in the multiplayer menu for ever: uart_sync connects the   *)
(* machine or, through its count of tries, game_handler returns it to the  *)
(* main menu, whatever the other side does and whatever the line garbles.  *)
(***************************************************************************)
MpMenuEnds == \A p \in Peer : (screen[p] = "mp") ~> (screen[p] # "mp")

\* The user pressed exit; a timeout leaves CLEANUP behind instead.
UserLeft == \E p \in Peer : screen[p] = "menu" /\ nstate[p] = "INIT"

BothConnected == \A p \in Peer : Connected(p)

\* p waits, perhaps halfway through the password with a partner that has gone;
\* q's next tick is its CLEANUP.
JoinsWaiting(p, q) ==
    /\ screen[p] = "mp" /\ nstate[p] = "WAITING" /\ in_fifo[p] = <<>>
    /\ tries[p] < SyncTries
    /\ screen[q] = "mp" /\ nstate[q] = "CLEANUP"
    /\ \A r \in Peer : ~Sending(r)

(***************************************************************************)
(* A machine that joins while the other one is waiting and the line is     *)
(* quiet gets connected to it, unless a user leaves: its join request      *)
(* makes the other one forget a password it had begun with somebody else,  *)
(* and the handshake runs to its end on both sides.                        *)
(***************************************************************************)
LateJoinerConnects ==
    \A p, q \in Peer : p # q =>
        (JoinsWaiting(p, q) ~> (BothConnected \/ UserLeft))

(***************************************************************************)
(* networking.h says uart_sync performs the operations "to complete the    *)
(* sync between the 2 pc's": two machines that open the multiplayer menu   *)
(* over a quiet line, neither of them near its timeout, connect unless a   *)
(* user leaves.                                                            *)
(***************************************************************************)
SyncCompletes ==
    (\A p \in Peer : screen[p] = "mp" /\ nstate[p] = "CLEANUP" /\ ~Sending(p))
      ~> (BothConnected \/ UserLeft)
=============================================================================
