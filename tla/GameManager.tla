----------------------------- MODULE GameManager ----------------------------
(***************************************************************************)
(* The screens of the game and what hangs on them: game/game_manager.c,    *)
(* the level loading of game/level_manager.c, the buttons of               *)
(* game/main_menu.c and inventory/menu.c, and the round clock of           *)
(* lib/rtc_controller.c.                                                   *)
(*                                                                         *)
(* Everything runs in one thread: interrupt_handler answers one interrupt  *)
(* at a time.  A timer tick runs the whole of game_handler.  What happens  *)
(* inside a match (who is hit, who reaches the portal, which bytes the     *)
(* other machine sent) enters a tick as a choice.                          *)
(***************************************************************************)
EXTENDS Integers

CONSTANTS
    RoundTimer,      \* ROUND_TIMER
    LAST_LVL,
    MayGoSilent,     \* the other machine may be unheard for UART_PACKET_TRIES ticks
    MapFound         \* what opening the map file may answer

ASSUME GameManagerConstants ==
    /\ RoundTimer \in Nat \ {0} /\ LAST_LVL \in Nat \ {0}
    /\ MayGoSilent \in BOOLEAN /\ MapFound \subseteq BOOLEAN /\ MapFound # {}

VARIABLES
    g,               \* the static variables of the modules above, see Game
    ticked,          \* game_handler has run since the last periodic interrupt
    loop             \* "running", "stopped" (left the loop) or "aborted" (by free)

vars == <<g, ticked, loop>>

GameState == {"MAIN_MENU", "MP_MENU", "GAME", "MP_GAME", "END_S_GAME", "END_M_GAME",
              "WIN_GAME", "LOSE_GAME", "DISCONNECT", "EXIT"}
NetworkState == {"INIT", "WAITING", "LINKED", "CONNECTED", "DISCONNECTED", "CLEANUP"}

TimerFloor == -1     \* bound: the round timer is not followed further down

\* live: the level's memory is allocated.  ghost: `enemies` still begins with
\* the enemies of an earlier level.  bad_free: memory was freed twice.
\* abandoned (history): a lost connection has left a level that no free_level
\* has been run for since.
Game == [state : GameState, net : NetworkState, curr_lvl : (-1)..LAST_LVL,
         live : BOOLEAN, ghost : BOOLEAN, bad_free : BOOLEAN, abandoned : BOOLEAN,
         game_timer : TimerFloor..RoundTimer, pie_state : 0..1,
         pie : BOOLEAN, uie : BOOLEAN]

TypeOK == g \in Game /\ ticked \in BOOLEAN /\ loop \in {"running", "stopped", "aborted"}

-----------------------------------------------------------------------------
(* Levels and states.                                                      *)

set_state(h, s) == [h EXCEPT !.uie = @ \/ h.state = "MAIN_MENU", !.state = s]

\* init_player appends to `enemies`, whatever is already in it.
load_level(h, n, mode) ==
    [set_state(h, IF mode = 1 THEN "GAME" ELSE "MP_GAME") EXCEPT
        !.live = TRUE, !.ghost = h.live, !.curr_lvl = IF mode = 1 THEN n ELSE -1]

free_level_pie_kept(h) ==
    [h EXCEPT !.bad_free = @ \/ ~h.live, !.live = FALSE, !.ghost = FALSE, !.abandoned = FALSE]

free_level(h) ==
    [h EXCEPT !.bad_free = @ \/ ~h.live, !.live = FALSE, !.ghost = FALSE, !.abandoned = FALSE,
              !.pie = FALSE]

gm_init_game_timer_kept(h, n, found) ==
    IF found
      THEN [set_state(load_level([h EXCEPT !.uie = FALSE], n, 1), "GAME") EXCEPT
              !.pie_state = 0, !.pie = TRUE]
      ELSE [h EXCEPT !.uie = FALSE]

\* When the map cannot be opened the state stays, but UIE is already off.
gm_init_game(h, n, found) ==
    IF found
      THEN [set_state(load_level([h EXCEPT !.uie = FALSE], n, 1), "GAME") EXCEPT
              !.game_timer = RoundTimer, !.pie_state = 0, !.pie = TRUE]
      ELSE [h EXCEPT !.uie = FALSE]

gm_reset_mp_game_net_kept(h) == free_level(h)

gm_reset_mp_game(h) == free_level([h EXCEPT !.net = "CLEANUP"])

-----------------------------------------------------------------------------
(* The buttons, as each screen tests them after drawing them.  "again" is  *)
(* the restart or next-level button.                                       *)

Click == {"none", "single", "multi", "again", "exit"}

render_menu(h, click, found) ==
    CASE click = "single" -> gm_init_game(h, 1, found)
      [] click = "multi" -> set_state(h, "MP_MENU")
      [] click = "exit" -> set_state(h, "EXIT")
      [] OTHER -> h

render_mp_menu(h, click) ==
    IF click = "exit" THEN [set_state(h, "MAIN_MENU") EXCEPT !.net = "INIT"] ELSE h

render_win_lose_screen(h, click, found) ==
    CASE click = "exit" -> set_state(h, "MAIN_MENU")
      [] click = "again" /\ h.curr_lvl = -1 -> set_state(h, "MP_MENU")
      [] click = "again" /\ h.curr_lvl # -1 /\ h.curr_lvl # LAST_LVL /\ h.state = "WIN_GAME" ->
           gm_init_game(h, h.curr_lvl + 1, found)
      [] click = "again" /\ h.curr_lvl # -1 /\ h.state = "LOSE_GAME" ->
           gm_init_game(h, h.curr_lvl, found)
      [] OTHER -> h

render_disconnect_screen(h, click) ==
    IF click = "exit" THEN set_state(h, "MAIN_MENU") ELSE h

\* The exit button of the weapon menu that render_game shows.
display_menu(h, click) ==
    IF click # "exit" THEN h
    ELSE set_state(h, IF h.state = "MP_GAME" THEN "END_M_GAME" ELSE "END_S_GAME")

display(h, click, found) ==
    CASE h.state \in {"GAME", "MP_GAME"} -> display_menu(h, click)
      [] h.state = "MAIN_MENU" -> render_menu(h, click, found)
      [] h.state = "MP_MENU" -> render_mp_menu(h, click)
      [] h.state \in {"WIN_GAME", "LOSE_GAME"} -> render_win_lose_screen(h, click, found)
      [] h.state = "DISCONNECT" -> render_disconnect_screen(h, click)
      [] OTHER -> h

-----------------------------------------------------------------------------
(* The phases of game_handler.                                             *)

\* What uart_receive_data answers; "silent" is the return that set DISCONNECTED.
Received == {"packet", "LOSE", "WIN"} \cup (IF MayGoSilent THEN {"silent"} ELSE {})

mp_receive(h, out) ==
    IF h.state # "MP_GAME" THEN h
    ELSE CASE out = "LOSE" -> gm_reset_mp_game(set_state(h, "LOSE_GAME"))
           [] out = "WIN" -> gm_reset_mp_game(set_state(h, "WIN_GAME"))
           [] out = "silent" ->
                set_state([h EXCEPT !.net = "DISCONNECTED", !.abandoned = TRUE], "DISCONNECT")
           [] OTHER -> h

\* The network states one call of uart_sync can leave (module Networking).
uart_sync(net) ==
    CASE net = "CLEANUP" -> {"WAITING"}
      [] net = "WAITING" -> {"WAITING", "LINKED", "CLEANUP", "INIT"}
      [] net = "LINKED" -> {"LINKED", "CONNECTED", "CLEANUP", "INIT"}
      [] OTHER -> {net}

mp_menu_init_kept(h, net, found) ==
    LET k == [h EXCEPT !.net = net]
    IN  CASE h.state # "MP_MENU" -> h
          [] h.state = "MP_MENU" /\ net = "CONNECTED" /\ found -> load_level(k, 3, 2)
          [] OTHER -> k

\* load_level's error is not looked at: the next tick tries again.
mp_menu(h, net, found) ==
    LET k == [h EXCEPT !.net = net]
    IN  CASE h.state = "MP_MENU" /\ net = "CONNECTED" ->
               IF found THEN load_level(k, 3, 2) ELSE k
          [] h.state = "MP_MENU" /\ net = "INIT" ->
               [set_state(k, "MAIN_MENU") EXCEPT !.net = "CLEANUP"]
          [] h.state = "MP_MENU" /\ net \notin {"CONNECTED", "INIT"} -> k
          [] OTHER -> h

\* What a tick of play brings.
Fate == {"on", "dead", "enemy dead", "portal"}

update_game_state_exit_leaks(h, fate) ==
    CASE h.state = "GAME" /\ (fate = "dead" \/ h.game_timer = 0) ->
           free_level(set_state(h, "LOSE_GAME"))
      [] h.state = "END_S_GAME" -> set_state([h EXCEPT !.pie = FALSE], "MAIN_MENU")
      [] OTHER -> h

\* A death in a match resets it before and after the new state is set.
update_game_state(h, fate) ==
    CASE h.state = "GAME" /\ (fate = "dead" \/ h.game_timer = 0) ->
           free_level(set_state(h, "LOSE_GAME"))
      [] h.state = "GAME" /\ fate = "portal" /\ h.game_timer # 0 ->
           free_level(set_state(h, "WIN_GAME"))
      [] h.state = "MP_GAME" /\ fate = "dead" ->
           gm_reset_mp_game(set_state(gm_reset_mp_game(h), "LOSE_GAME"))
      [] h.state = "MP_GAME" /\ fate = "enemy dead" ->
           gm_reset_mp_game(set_state(gm_reset_mp_game(h), "WIN_GAME"))
      [] h.state = "END_S_GAME" -> free_level(set_state(h, "MAIN_MENU"))
      [] h.state = "END_M_GAME" -> gm_reset_mp_game(set_state(h, "LOSE_GAME"))
      [] OTHER -> h

\* fate is "on" in a tick that has not run player_int_ih.
Handled(out, net, found, click, fate) ==
    LET received == mp_receive(g, out)
        played == received.state \in {"GAME", "MP_GAME"}
        synced == mp_menu(received, net, found)
    IN  update_game_state(display(synced, click, found), IF played THEN fate ELSE "on")

-----------------------------------------------------------------------------
(* interrupt_handler: one action per interrupt that changes this state.    *)

\* Freeing twice corrupts the heap: the allocator notices and aborts, or not.
game_handler(out, click, fate) ==
    /\ loop = "running"
    /\ \E net \in uart_sync(g.net), found \in MapFound :
         g' = Handled(out, net, found, click, fate)
    /\ loop' \in CASE g'.state = "EXIT" -> {"stopped"}
                   [] g'.bad_free /\ ~g.bad_free -> {"running", "aborted"}
                   [] OTHER -> {"running"}
    /\ ticked' = TRUE

rtc_ih_no_wrap(pf) ==
    IF pf THEN [g EXCEPT !.pie_state = @ + 1] ELSE g

rtc_ih_stopped(pf) ==
    IF pf THEN [g EXCEPT !.pie_state = 0] ELSE g

\* The update flag only refreshes the date on the main menu.
rtc_ih(pf) ==
    CASE pf /\ g.pie_state = 1 -> [g EXCEPT !.game_timer = @ - 1, !.pie_state = 0]
      [] pf /\ g.pie_state # 1 -> [g EXCEPT !.pie_state = @ + 1]
      [] OTHER -> g

\* An interrupt needs an enabled source, but register C reports the periodic
\* flag whether or not its interrupt is enabled.  At 60 Hz a tick falls
\* between two periods of 500 ms.
RtcInterrupt(pf) ==
    /\ loop = "running" /\ ((pf /\ g.pie) \/ g.uie)
    /\ pf => ticked /\ (g.game_timer > TimerFloor)
    /\ g' = rtc_ih(pf)
    /\ ticked' = (ticked /\ ~pf)
    /\ UNCHANGED loop

\* handle_kbd_evt stores BREAKCODE_ESC in last_kb_byte; the loop ends.
EscReleased == loop = "running" /\ loop' = "stopped" /\ UNCHANGED <<g, ticked>>

-----------------------------------------------------------------------------
Init ==
    /\ g = [state |-> "MAIN_MENU", net |-> "CLEANUP", curr_lvl |-> 0,
            live |-> FALSE, ghost |-> FALSE, bad_free |-> FALSE, abandoned |-> FALSE,
            game_timer |-> 0, pie_state |-> 0, pie |-> FALSE, uie |-> TRUE]
    /\ ticked = TRUE /\ loop = "running"

Next ==
    \/ \E out \in Received, click \in Click, fate \in Fate : game_handler(out, click, fate)
    \/ \E pf \in BOOLEAN : RtcInterrupt(pf)
    \/ EscReleased

Spec == Init /\ [][Next]_vars

(***************************************************************************)
(* The timer ticks, and the clock's periodic interrupt keeps coming while  *)
(* it is enabled.  Fairness promises only ticks in which no button is      *)
(* pressed, nobody is hit and the other machine sends an ordinary packet.  *)
(***************************************************************************)
Fairness == WF_vars(game_handler("packet", "none", "on")) /\ WF_vars(RtcInterrupt(TRUE))

FairSpec == Spec /\ Fairness

-----------------------------------------------------------------------------
Playing == g.state \in {"GAME", "MP_GAME"}

(***************************************************************************)
(* No tick renders, moves or shoots on a freed level: whatever button or   *)
(* message ended a game, free_level never runs while the state still says  *)
(* that a game is on.                                                      *)
(***************************************************************************)
PlayingHasLevel == Playing => g.live

(***************************************************************************)
(* The level's memory is held exactly while a game is on or after a lost   *)
(* connection, which leaves the match without free_level: every other way  *)
(* out of a game frees what load_level and setup_game_x allocated.  A      *)
(* level is loaded over another one only in that case, and the end of the  *)
(* next game puts things right.                                            *)
(***************************************************************************)
LevelIffPlaying ==
    /\ g.live <=> Playing \/ g.abandoned
    /\ Playing => (g.ghost <=> g.abandoned)

(***************************************************************************)
(* The match and the link agree: a match is only played over a connection, *)
(* and once it is over network_state_t has left CONNECTED, so that the     *)
(* multiplayer menu can handshake again.  (MP_MENU with CONNECTED is a     *)
(* match whose map could not be loaded yet.)                               *)
(***************************************************************************)
MatchIsConnected ==
    /\ g.state = "MP_GAME" => g.net = "CONNECTED"
    /\ g.net = "CONNECTED" => g.state \in {"MP_GAME", "MP_MENU"}

(***************************************************************************)
(* The periodic interrupt is on exactly during a single player round: no   *)
(* path into GAME misses enable_pie_int, none out of it misses free_level. *)
(***************************************************************************)
RoundClock == g.pie <=> g.state = "GAME"

(***************************************************************************)
(* update_game_state tests game_timer == 0, not <= 0: during a round the   *)
(* timer never slips below zero unseen, whatever it was counted down to in *)
(* the menus before.                                                       *)
(***************************************************************************)
RoundTimerInRange == g.state = "GAME" => g.game_timer \in 0..RoundTimer

(***************************************************************************)
(* Screen, level, link and round clock belong together in every state      *)
(* between two interrupts: update_game_state, gm_init_game,                *)
(* gm_reset_mp_game and set_state each change some of them, on many paths. *)
(***************************************************************************)
ScreensAgree == LevelIffPlaying /\ MatchIsConnected /\ RoundClock /\ RoundTimerInRange

(***************************************************************************)
(* A round ends, if only by its timer: two periodic interrupts make one    *)
(* decrement, and the tick after the last one leaves GAME.                 *)
(***************************************************************************)
RoundEnds == (g.state = "GAME") ~> (g.state # "GAME" \/ loop # "running")

(***************************************************************************)
(* A machine that stays in the multiplayer menu gets uart_sync to wait for *)
(* a partner again, after every end of a match or of a handshake but one:  *)
(* uart_sync does nothing in the state that a lost connection leaves (see  *)
(* MpMenuWaits), and that one lasts until the player leaves the menu.      *)
(***************************************************************************)
Waits == g.net \in {"WAITING", "LINKED", "CONNECTED"}
LeftMpMenu == g.state # "MP_MENU" \/ loop # "running"
HandshakesAgain ==
    (g.state = "MP_MENU" /\ g.net # "DISCONNECTED") ~> (LeftMpMenu \/ Waits)

(***************************************************************************)
(* No screen is a dead end: a round ends, if only by its timer, and the    *)
(* multiplayer menu gets back to waiting for a partner, unless it was      *)
(* entered after a lost connection.                                        *)
(***************************************************************************)
ScreensGoOn == RoundEnds /\ HandshakesAgain

-----------------------------------------------------------------------------
(* What the comments promise and the code does not do.                     *)

(***************************************************************************)
(* level_manager.h: "properly handle the game's memory while loading       *)
(* levels": free_level is never run twice for one load_level.              *)
(***************************************************************************)
NoDoubleFree == ~g.bad_free

(***************************************************************************)
(* player.h: get_mp_enemy_player returns "player's 2 (mulitplayer)         *)
(* pointer": in a match enemies[0] is the opponent of this match, not one  *)
(* left over from an earlier level.                                        *)
(***************************************************************************)
OpponentIsCurrent == g.state = "MP_GAME" => ~g.ghost

(***************************************************************************)
(* game_manager.h calls MP_MENU the screen "waiting for connection":       *)
(* whatever state the link was left in by the last match, a lost           *)
(* connection included, a machine that stays there waits for a partner     *)
(* again.                                                                  *)
(***************************************************************************)
MpMenuWaits == (g.state = "MP_MENU") ~> (LeftMpMenu \/ Waits)

(***************************************************************************)
(* set_state's comment: "Reenabling UIE interrupts when joining the menu": *)
(* in the main menu, which shows the date, the clock reports its updates.  *)
(***************************************************************************)
MenuHasClock == g.state = "MAIN_MENU" => g.uie
=============================================================================
