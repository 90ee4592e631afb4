-------------------------------- MODULE Match -------------------------------
(***************************************************************************)
(* The end of a match, on both machines at once: the MP_GAME part of       *)
(* game_handler and update_game_state (game/game_manager.c) on each, and   *)
(* the packets and result strings they exchange.  Module Packets shows     *)
(* that a packet arrives as it was sent; here it is one unit, or lost.     *)
(*                                                                         *)
(* Each machine simulates both players and judges for itself who has died, *)
(* so who is dead is a choice in every tick, independently on each side.   *)
(* Both tick at 60 Hz: neither gets more than Skew ticks ahead, and what   *)
(* one sends in a tick is there before the other ticks twice.              *)
(***************************************************************************)
EXTENDS Integers, Sequences, SequencesExt

CONSTANTS
    Peer,            \* the two machines
    PacketTries,     \* UART_PACKET_TRIES
    Skew,            \* ticks by which one clock may lead the other
    MaxLoss          \* bound: batches of packets lost on the cable

MatchConstants ==
    /\ \E a, b \in Peer : a # b /\ Peer = {a, b}
    /\ PacketTries \in Nat /\ Skew \in Nat \ {0} /\ MaxLoss \in Nat
    /\ PacketTries >= 2 * Skew + MaxLoss

VARIABLES
    state,           \* of each machine; "QUIT": its user has released Escape
    tries,           \* packet_tries
    in_fifo,         \* packets that have arrived
    wire,            \* what each machine has sent, tick by tick
    lead,            \* the ticks each machine is ahead of the other
    decided,         \* the machine judged the match itself
    late,            \* ticks it has played since the other one left the match
    loss             \* counter for the bound

vars == <<state, tries, in_fifo, wire, lead, decided, late, loss>>

Other(p) == CHOOSE q \in Peer : q # p

GameState == {"MP_GAME", "WIN_GAME", "LOSE_GAME", "DISCONNECT", "QUIT"}
Packet == {"data", "WIN", "LOS"}
LateCap == 2         \* bound: more late ticks are not told apart
Fate == {"on", "dead", "enemy dead"}

TypeOK ==
    /\ state \in [Peer -> GameState] /\ tries \in [Peer -> 0..(PacketTries + 1)]
    /\ in_fifo \in [Peer -> Seq(Packet)]
    /\ \A p \in Peer : \A i \in DOMAIN wire[p] :
         wire[p][i].pkts \in Seq(Packet) /\ wire[p][i].old \in BOOLEAN
    /\ lead \in [Peer -> -Skew..Skew] /\ decided \in [Peer -> BOOLEAN]
    /\ late \in [Peer -> 0..LateCap] /\ loss \in 0..MaxLoss

-----------------------------------------------------------------------------
\* Position of the first result string among the packets, or 0.
FirstResult(s) == SelectInSeq(s, LAMBDA x : x # "data")

\* What uart_receive_data and the lines after it make of the state.
count_try_silence_free(p) == IF in_fifo[p] = <<>> THEN tries[p] ELSE 0
count_try_kept(p) == tries[p] + 1
count_try(p) == IF in_fifo[p] = <<>> THEN tries[p] + 1 ELSE 0

give_up_never(t) == FALSE
give_up(t) == t > PacketTries

mp_receive(p) ==
    LET r == FirstResult(in_fifo[p])
    IN  CASE r # 0 /\ in_fifo[p][r] = "WIN" -> "WIN_GAME"
          [] r # 0 /\ in_fifo[p][r] = "LOS" -> "LOSE_GAME"
          [] OTHER -> IF give_up(count_try(p)) THEN "DISCONNECT" ELSE "MP_GAME"

\* update_game_state: the new state, and what is sent to the other machine.
\* The exit button has made the state END_M_GAME by then.
update_game_state_exit_unsaid(fate, exit) ==
    CASE exit -> <<"LOSE_GAME", <<>>>>
      [] ~exit /\ fate = "dead" -> <<"LOSE_GAME", <<"WIN">>>>
      [] ~exit /\ fate = "enemy dead" -> <<"WIN_GAME", <<"LOS">>>>
      [] OTHER -> <<"MP_GAME", <<>>>>
update_game_state_told_own(fate, exit) ==
    CASE exit -> <<"LOSE_GAME", <<"WIN">>>>
      [] ~exit /\ fate = "dead" -> <<"LOSE_GAME", <<"LOS">>>>
      [] ~exit /\ fate = "enemy dead" -> <<"WIN_GAME", <<"WIN">>>>
      [] OTHER -> <<"MP_GAME", <<>>>>
update_game_state(fate, exit) ==
    CASE exit -> <<"LOSE_GAME", <<"WIN">>>>
      [] ~exit /\ fate = "dead" -> <<"LOSE_GAME", <<"WIN">>>>
      [] ~exit /\ fate = "enemy dead" -> <<"WIN_GAME", <<"LOS">>>>
      [] OTHER -> <<"MP_GAME", <<>>>>

\* Before it ticks again, a machine has what was sent before its last tick.
Punctual(p) == \A i \in DOMAIN wire[Other(p)] : ~wire[Other(p)][i].old
Age(batches) == [i \in DOMAIN batches |-> [batches[i] EXCEPT !.old = TRUE]]

\* A machine out of the match keeps ticking, which nothing here depends on,
\* and takes no packet from in_fifo until uart_sync has emptied it.
KeepsPace(p) == /\ state[Other(p)] = "MP_GAME" => lead[p] < Skew
                /\ lead' = [lead EXCEPT
                     ![p] = IF state[Other(p)] = "MP_GAME" THEN @ + 1 ELSE @,
                     ![Other(p)] = IF state[Other(p)] = "MP_GAME" THEN @ - 1 ELSE @]

game_handler(p, fate, exit) ==
    /\ state[p] = "MP_GAME" /\ Punctual(p) /\ KeepsPace(p)
    /\ LET out == mp_receive(p)
           end == update_game_state(fate, exit)
           on == out = "MP_GAME"
           sent == IF on THEN <<"data">> \o end[2] ELSE <<>>
           r == FirstResult(in_fifo[p])
       IN  /\ state' = [state EXCEPT ![p] = IF on THEN end[1] ELSE out]
           /\ tries' = [tries EXCEPT ![p] = IF r = 0 THEN count_try(p) ELSE 0]
           /\ in_fifo' = [in_fifo EXCEPT ![p] = IF r = 0 THEN <<>>
                                                 ELSE SubSeq(@, r + 1, Len(@))]
           /\ wire' = [wire EXCEPT
                ![p] = IF sent = <<>> \/ state[Other(p)] # "MP_GAME" THEN @
                       ELSE Append(@, [pkts |-> sent, old |-> FALSE]),
                ![Other(p)] = Age(@)]
           /\ decided' = [decided EXCEPT ![p] = on /\ end[1] # "MP_GAME"]
           /\ late' = [late EXCEPT ![p] = IF on /\ state[Other(p)] # "MP_GAME" /\ @ < LateCap
                                         THEN @ + 1 ELSE @]
    /\ UNCHANGED loss

\* interrupt_handler ends its loop without a word to the other machine.
EscReleased(p) ==
    /\ state[p] = "MP_GAME"
    /\ state' = [state EXCEPT ![p] = "QUIT"]
    /\ UNCHANGED <<tries, in_fifo, wire, lead, decided, late, loss>>

Deliver(p) ==
    /\ wire[p] # <<>>
    /\ in_fifo' = [in_fifo EXCEPT
         ![Other(p)] = IF state[Other(p)] = "MP_GAME" THEN @ \o Head(wire[p]).pkts ELSE @]
    /\ wire' = [wire EXCEPT ![p] = Tail(@)]
    /\ UNCHANGED <<state, tries, lead, decided, late, loss>>

Lose(p) ==
    /\ wire[p] # <<>> /\ loss < MaxLoss
    /\ wire' = [wire EXCEPT ![p] = Tail(@)]
    /\ loss' = loss + 1
    /\ UNCHANGED <<state, tries, in_fifo, lead, decided, late>>

-----------------------------------------------------------------------------
Init ==
    /\ state = [p \in Peer |-> "MP_GAME"] /\ tries = [p \in Peer |-> 0]
    /\ in_fifo = [p \in Peer |-> <<>>] /\ wire = [p \in Peer |-> <<>>]
    /\ lead = [p \in Peer |-> 0] /\ decided = [p \in Peer |-> FALSE]
    /\ late = [p \in Peer |-> 0] /\ loss = 0

Tick(p) == \E fate \in Fate, exit \in BOOLEAN : game_handler(p, fate, exit)

Next == \E p \in Peer : Tick(p) \/ EscReleased(p) \/ Deliver(p) \/ Lose(p)

Spec == Init /\ [][Next]_vars

\* Both timers tick, and what is on the cable arrives or is lost.  Fairness
\* promises only ticks in which nobody dies and no button is pressed.
FairSpec == Spec /\ \A p \in Peer :
    WF_vars(game_handler(p, "on", FALSE)) /\ WF_vars(Deliver(p))

-----------------------------------------------------------------------------
Result == {"WIN_GAME", "LOSE_GAME"}

(***************************************************************************)
(* Two machines show the same result only if each judged the match itself: *)
(* a machine that is told the result by the other one shows the opposite   *)
(* of what that one shows, also when Escape, the exit button or a lost     *)
(* packet got in between.                                                  *)
(***************************************************************************)
ToldIsOpposite ==
    \A p \in Peer : (state[p] \in Result /\ ~decided[p]) =>
        state[Other(p)] = (CHOOSE r \in Result : r # state[p])

(***************************************************************************)
(* Such a disagreement needs messages that cross: once a machine has left  *)
(* the match with a result, the other one plays at most one more tick      *)
(* before it hears of it, when no packet is lost.                          *)
(***************************************************************************)
HearsOfResult ==
    \A p \in Peer : (state[Other(p)] \in Result /\ loss = 0) => late[p] <= 1

(***************************************************************************)
(* game_manager.h says of DISCONNECT "The other player in multi player     *)
(* mode has disconnected": no machine gives up a partner that still plays, *)
(* as long as the packets lost in the match and twice the skew of the two  *)
(* timers do not add up to more than UART_PACKET_TRIES.                    *)
(***************************************************************************)
DisconnectMeansGone ==
    \A p \in Peer : state[p] = "DISCONNECT" => state[Other(p)] # "MP_GAME"

(***************************************************************************)
(* Nobody plays on alone: when one machine leaves the match, by a result,  *)
(* the exit button, Escape or a disconnection, the other one leaves it     *)
(* too, even if the string that says so is lost.                           *)
(***************************************************************************)
LeaveTogether == \A p \in Peer : (state[p] # "MP_GAME") ~> (state[Other(p)] # "MP_GAME")
=============================================================================
