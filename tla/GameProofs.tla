----------------------------- MODULE GameProofs -----------------------------
(***************************************************************************)
(* Theorems about the game around the fighting: modules GameManager,       *)
(* Patrol, Level, Renders and Pickups, for all values of their constants.  *)
(***************************************************************************)
EXTENDS MCGame, SequenceTheorems, FiniteSetTheorems, WellFoundedInduction,
        NaturalsInduction, TLAPS

-----------------------------------------------------------------------------
(***************************************************************************)
(* Module GameManager, for every round length, number of levels and        *)
(* behaviour of the map files and of the other machine.                    *)
(*                                                                         *)
(* game_handler is a composition of four phases.  SafeGame holds before    *)
(* and after each of them, except that display may leave one of the two    *)
(* END states for update_game_state to resolve (SafeEnd).                  *)
(***************************************************************************)
\* A level is held during a game, and otherwise only if it was abandoned.
InGame(h) == h.state \in {"GAME", "MP_GAME", "END_S_GAME", "END_M_GAME"}

LevelFits(h) ==
    /\ h.live <=> InGame(h) \/ h.abandoned
    /\ InGame(h) => (h.ghost <=> h.abandoned)

LinkFits(h) ==
    /\ h.state \in {"MP_GAME", "END_M_GAME"} => h.net = "CONNECTED"
    /\ h.net = "CONNECTED" => h.state \in {"MP_GAME", "MP_MENU", "END_M_GAME"}

ClockFits(h) ==
    /\ h.pie <=> h.state \in {"GAME", "END_S_GAME"}
    /\ h.state = "GAME" => h.game_timer \in 0..RoundTimer

SafeEnd(h) == h \in Game /\ LevelFits(h) /\ LinkFits(h) /\ ClockFits(h)

SafeGame(h) == SafeEnd(h) /\ h.state \notin {"END_S_GAME", "END_M_GAME"}

\* The round timer at zero has not been seen by a tick yet.
ZeroIsNew == g.state = "GAME" /\ g.game_timer = 0 => ~ticked

IInv == TypeOK /\ SafeGame(g) /\ ZeroIsNew

-----------------------------------------------------------------------------
(* What the operations of the game manager do to each field.               *)

\* Only state and uie change, whatever the new state is.
LEMMA SetStateFields ==
    ASSUME NEW h \in Game, NEW s \in GameState
    PROVE  LET k == set_state(h, s)
           IN  /\ k \in Game /\ k.state = s
               /\ k.net = h.net /\ k.curr_lvl = h.curr_lvl /\ k.live = h.live
               /\ k.ghost = h.ghost /\ k.abandoned = h.abandoned
               /\ k.game_timer = h.game_timer /\ k.pie = h.pie
  BY DEF set_state, Game

\* The level is gone, and the periodic interrupt with it.
LEMMA FreeLevelFields ==
    ASSUME NEW h \in Game
    PROVE  LET k == free_level(h)
           IN  /\ k \in Game /\ k.state = h.state
               /\ k.net = h.net /\ k.curr_lvl = h.curr_lvl /\ k.live = FALSE
               /\ k.ghost = FALSE /\ k.abandoned = FALSE /\ k.game_timer = h.game_timer
               /\ k.pie = FALSE
  BY DEF free_level, Game

\* Assigning the link state leaves every other field alone.
LEMMA NetFields ==
    ASSUME NEW h \in Game, NEW net \in NetworkState
    PROVE  LET k == [h EXCEPT !.net = net]
           IN  /\ k \in Game /\ k.state = h.state
               /\ k.net = net /\ k.curr_lvl = h.curr_lvl /\ k.live = h.live
               /\ k.ghost = h.ghost /\ k.abandoned = h.abandoned
               /\ k.game_timer = h.game_timer /\ k.pie = h.pie
  BY DEF Game

\* free_level, and the link is told to clean up.
LEMMA ResetMpFields ==
    ASSUME NEW h \in Game
    PROVE  LET k == gm_reset_mp_game(h)
           IN  /\ k \in Game /\ k.state = h.state
               /\ k.net = "CLEANUP" /\ k.curr_lvl = h.curr_lvl /\ k.live = FALSE
               /\ k.ghost = FALSE /\ k.abandoned = FALSE /\ k.game_timer = h.game_timer
               /\ k.pie = FALSE
  <1> DEFINE j == [h EXCEPT !.net = "CLEANUP"]
  <1>1. /\ j \in Game /\ j.state = h.state /\ j.net = "CLEANUP"
        /\ j.curr_lvl = h.curr_lvl /\ j.game_timer = h.game_timer
    BY NetFields DEF NetworkState
  <1>2. gm_reset_mp_game(h) = free_level(j)
    BY DEF gm_reset_mp_game
  <1> HIDE DEF j
  <1> QED
    BY <1>1, <1>2, FreeLevelFields

\* A single player level is loaded.
LEMMA LoadGameFields ==
    ASSUME NEW h \in Game, NEW n \in 0..LAST_LVL
    PROVE  LET k == load_level(h, n, 1)
           IN  /\ k \in Game /\ k.state = "GAME"
               /\ k.net = h.net /\ k.live = TRUE
               /\ k.ghost = h.live /\ k.abandoned = h.abandoned /\ k.game_timer = h.game_timer
               /\ k.pie = h.pie
  <1> DEFINE j == set_state(h, "GAME")
  <1>1. /\ j \in Game /\ j.state = "GAME" /\ j.net = h.net
        /\ j.game_timer = h.game_timer /\ j.pie = h.pie /\ j.abandoned = h.abandoned
    BY SetStateFields DEF GameState
  <1>2. h.live \in BOOLEAN
    BY DEF Game
  <1>3. n \in (-1)..LAST_LVL
    BY GameManagerConstants
  <1>4. load_level(h, n, 1) = [j EXCEPT !.live = TRUE, !.ghost = h.live, !.curr_lvl = n]
    BY DEF load_level
  <1> HIDE DEF j
  <1> QED
    BY <1>1, <1>2, <1>3, <1>4 DEF Game

\* The multiplayer level is loaded.
LEMMA LoadMatchFields ==
    ASSUME NEW h \in Game
    PROVE  LET k == load_level(h, 3, 2)
           IN  /\ k \in Game /\ k.state = "MP_GAME"
               /\ k.net = h.net /\ k.live = TRUE
               /\ k.ghost = h.live /\ k.abandoned = h.abandoned /\ k.game_timer = h.game_timer
               /\ k.pie = h.pie
  <1> DEFINE j == set_state(h, "MP_GAME")
  <1>1. /\ j \in Game /\ j.state = "MP_GAME" /\ j.net = h.net
        /\ j.game_timer = h.game_timer /\ j.pie = h.pie /\ j.abandoned = h.abandoned
    BY SetStateFields DEF GameState
  <1>2. h.live \in BOOLEAN
    BY DEF Game
  <1>3. -1 \in (-1)..LAST_LVL
    BY GameManagerConstants
  <1>4. load_level(h, 3, 2) = [j EXCEPT !.live = TRUE, !.ghost = h.live, !.curr_lvl = -1]
    BY DEF load_level
  <1> HIDE DEF j
  <1> QED
    BY <1>1, <1>2, <1>3, <1>4 DEF Game

\* A round starts.
LEMMA InitGameFields ==
    ASSUME NEW h \in Game, NEW n \in 0..LAST_LVL
    PROVE  LET k == gm_init_game(h, n, TRUE)
           IN  /\ k \in Game /\ k.state = "GAME" /\ k.net = h.net /\ k.live = TRUE
               /\ k.ghost = h.live /\ k.abandoned = h.abandoned /\ k.game_timer = RoundTimer
               /\ k.pie = TRUE
  <1> DEFINE off == [h EXCEPT !.uie = FALSE]
             j == load_level(off, n, 1)
             r == set_state(j, "GAME")
             k == [r EXCEPT !.game_timer = RoundTimer, !.pie_state = 0, !.pie = TRUE]
  <1>1. off \in Game /\ off.net = h.net /\ off.live = h.live /\ off.abandoned = h.abandoned
    BY DEF Game
  <1>2. gm_init_game(h, n, TRUE) = k
    BY DEF gm_init_game
  <1> HIDE DEF off
  <1>3. /\ j \in Game /\ j.net = h.net /\ j.live = TRUE /\ j.ghost = h.live
        /\ j.abandoned = h.abandoned
    BY <1>1, LoadGameFields
  <1> HIDE DEF j
  <1>4. /\ r \in Game /\ r.state = "GAME" /\ r.net = h.net /\ r.live = TRUE
        /\ r.ghost = h.live /\ r.abandoned = h.abandoned
    BY <1>3, SetStateFields DEF GameState
  <1> HIDE DEF r
  <1>5. k \in Game
    <2>1. RoundTimer \in TimerFloor..RoundTimer /\ 0 \in 0..1
      BY GameManagerConstants DEF TimerFloor
    <2>2. r \in Game
      BY <1>4
    <2> QED
      BY <2>1, <2>2 DEF Game
  <1>6. /\ k.state = "GAME" /\ k.net = h.net /\ k.live = TRUE /\ k.ghost = h.live
        /\ k.abandoned = h.abandoned
        /\ k.game_timer = RoundTimer /\ k.pie = TRUE
    BY <1>4 DEF Game
  <1> HIDE DEF k
  <1> QED
    BY <1>2, <1>5, <1>6

\* The map is missing: only UIE has changed.
LEMMA MissingMapFields ==
    ASSUME NEW h \in Game, NEW n \in 0..LAST_LVL
    PROVE  LET k == gm_init_game(h, n, FALSE)
           IN  /\ k \in Game /\ k.state = h.state /\ k.net = h.net /\ k.live = h.live
               /\ k.ghost = h.ghost /\ k.abandoned = h.abandoned
               /\ k.game_timer = h.game_timer /\ k.pie = h.pie
  BY DEF gm_init_game, Game

-----------------------------------------------------------------------------
(* The phases of game_handler.                                             *)

\* Receiving in a match: LOSE and WIN reset it, silence leaves it.
LEMMA ReceiveSafe ==
    ASSUME NEW h, SafeGame(h), NEW out \in Received
    PROVE  SafeGame(mp_receive(h, out))
  <1> USE DEF SafeGame, SafeEnd
  <1>1. CASE h.state # "MP_GAME" \/ out \notin {"LOSE", "WIN", "silent"}
    BY <1>1 DEF mp_receive
  <1>2. ASSUME h.state = "MP_GAME",
               NEW s \in {"LOSE_GAME", "WIN_GAME"},
               mp_receive(h, out) = gm_reset_mp_game(set_state(h, s))
        PROVE  SafeGame(mp_receive(h, out))
    <2> DEFINE j == set_state(h, s)
               k == gm_reset_mp_game(j)
    <2>1. j \in Game /\ j.state = s
      BY SetStateFields DEF GameState
    <2> HIDE DEF j
    <2>2. /\ k \in Game /\ k.state = s /\ k.net = "CLEANUP" /\ k.live = FALSE
          /\ k.ghost = FALSE /\ k.abandoned = FALSE /\ k.pie = FALSE
      BY <2>1, ResetMpFields
    <2>3. mp_receive(h, out) = k
      BY <1>2 DEF j
    <2> HIDE DEF k
    <2> QED
      BY <2>2, <2>3 DEF LevelFits, InGame, LinkFits, ClockFits
  <1>3. CASE h.state = "MP_GAME" /\ out = "LOSE"
    BY <1>2, <1>3 DEF mp_receive
  <1>4. CASE h.state = "MP_GAME" /\ out = "WIN"
    BY <1>2, <1>4 DEF mp_receive
  <1>5. CASE h.state = "MP_GAME" /\ out = "silent"
    <2> DEFINE j == [h EXCEPT !.net = "DISCONNECTED", !.abandoned = TRUE]
               k == set_state(j, "DISCONNECT")
    <2>1. h.live
      BY <1>5 DEF LevelFits, InGame
    <2>2. /\ j \in Game /\ j.net = "DISCONNECTED" /\ j.pie = h.pie
          /\ j.live = h.live /\ j.abandoned = TRUE
      BY DEF Game, NetworkState
    <2> HIDE DEF j
    <2>3. /\ k \in Game /\ k.state = "DISCONNECT" /\ k.net = "DISCONNECTED" /\ k.pie = h.pie
          /\ k.live = h.live /\ k.abandoned = TRUE
      BY <2>2, SetStateFields DEF GameState
    <2>4. mp_receive(h, out) = k
      BY <1>5 DEF mp_receive, j
    <2> HIDE DEF k
    <2> QED
      BY <2>1, <2>3, <2>4, <1>5 DEF LevelFits, InGame, LinkFits, ClockFits
  <1> QED
    BY <1>1, <1>3, <1>4, <1>5

\* The multiplayer menu: the handshake may load the match or give up.
LEMMA MenuSafe ==
    ASSUME NEW h, SafeGame(h), NEW net \in NetworkState, NEW found \in BOOLEAN
    PROVE  SafeGame(mp_menu(h, net, found))
  <1> USE DEF SafeGame, SafeEnd
  <1> DEFINE k == [h EXCEPT !.net = net]
  <1>1. /\ k \in Game /\ k.state = h.state /\ k.net = net /\ k.live = h.live
        /\ k.ghost = h.ghost /\ k.abandoned = h.abandoned /\ k.game_timer = h.game_timer
        /\ k.pie = h.pie
    BY NetFields
  <1>2. CASE h.state # "MP_MENU"
    BY <1>2 DEF mp_menu
  <1>3. CASE h.state = "MP_MENU" /\ net = "CONNECTED" /\ found
    <2> DEFINE j == load_level(k, 3, 2)
    <2>1. mp_menu(h, net, found) = j
      BY <1>3 DEF mp_menu
    <2> HIDE DEF k
    <2>3. /\ j \in Game /\ j.state = "MP_GAME" /\ j.net = k.net /\ j.live = TRUE
          /\ j.ghost = k.live /\ j.abandoned = k.abandoned /\ j.pie = k.pie
      BY <1>1, LoadMatchFields
    <2> HIDE DEF j
    <2> QED
      BY <1>1, <1>3, <2>1, <2>3 DEF LevelFits, InGame, LinkFits, ClockFits
  <1>4. CASE h.state = "MP_MENU" /\ net = "INIT"
    <2> DEFINE i == set_state(k, "MAIN_MENU")
               j == [i EXCEPT !.net = "CLEANUP"]
    <2>1. mp_menu(h, net, found) = j
      BY <1>4 DEF mp_menu
    <2> HIDE DEF k
    <2>2. /\ i \in Game /\ i.state = "MAIN_MENU" /\ i.live = k.live /\ i.ghost = k.ghost
          /\ i.abandoned = k.abandoned
          /\ i.pie = k.pie
      BY <1>1, SetStateFields DEF GameState
    <2> HIDE DEF i
    <2>3. /\ j \in Game /\ j.state = "MAIN_MENU" /\ j.net = "CLEANUP" /\ j.live = k.live
          /\ j.ghost = k.ghost /\ j.abandoned = k.abandoned /\ j.pie = k.pie
      BY <2>2, NetFields DEF NetworkState
    <2> HIDE DEF j
    <2> QED
      BY <1>1, <1>4, <2>1, <2>3 DEF LevelFits, InGame, LinkFits, ClockFits
  <1>5. CASE h.state = "MP_MENU" /\ net # "INIT" /\ ~(net = "CONNECTED" /\ found)
    <2>1. mp_menu(h, net, found) = k
      BY <1>5 DEF mp_menu
    <2> HIDE DEF k
    <2> QED
      BY <1>1, <1>5, <2>1 DEF LevelFits, InGame, LinkFits, ClockFits
  <1> QED
    BY <1>2, <1>3, <1>4, <1>5

\* gm_init_game from a screen on which no level is in use.
LEMMA InitGameSafe ==
    ASSUME NEW h, SafeGame(h), NEW n \in 0..LAST_LVL, NEW found \in BOOLEAN,
           h.state \in {"MAIN_MENU", "WIN_GAME", "LOSE_GAME"}
    PROVE  SafeGame(gm_init_game(h, n, found))
  <1> USE DEF SafeGame, SafeEnd
  <1>1. CASE found = TRUE
    <2> DEFINE k == gm_init_game(h, n, TRUE)
    <2>1. /\ k \in Game /\ k.state = "GAME" /\ k.net = h.net /\ k.live = TRUE
          /\ k.ghost = h.live /\ k.abandoned = h.abandoned /\ k.game_timer = RoundTimer
          /\ k.pie = TRUE
      BY InitGameFields
    <2>2. h.live <=> h.abandoned
      BY DEF LevelFits, InGame
    <2>3. RoundTimer \in 0..RoundTimer
      BY GameManagerConstants
    <2> HIDE DEF k
    <2>4. LevelFits(k) /\ LinkFits(k) /\ ClockFits(k)
      BY <2>1, <2>2, <2>3 DEF LevelFits, InGame, LinkFits, ClockFits
    <2> QED
      BY <1>1, <2>1, <2>4 DEF k
  <1>2. CASE found = FALSE
    <2> DEFINE k == gm_init_game(h, n, FALSE)
    <2>1. /\ k \in Game /\ k.state = h.state /\ k.net = h.net /\ k.live = h.live
          /\ k.ghost = h.ghost /\ k.abandoned = h.abandoned /\ k.game_timer = h.game_timer
          /\ k.pie = h.pie
      BY MissingMapFields
    <2> HIDE DEF k
    <2>2. LevelFits(k) /\ LinkFits(k) /\ ClockFits(k)
      BY <2>1 DEF LevelFits, InGame, LinkFits, ClockFits
    <2> QED
      BY <1>2, <2>1, <2>2 DEF k
  <1> QED
    BY <1>1, <1>2

\* A button that only changes the screen, from a screen outside a game.
LEMMA ScreenSafe ==
    ASSUME NEW h, SafeGame(h),
           NEW s \in {"MAIN_MENU", "MP_MENU", "EXIT"},
           h.state \notin {"GAME", "MP_GAME", "MP_MENU"}
    PROVE  SafeGame(set_state(h, s))
  <1> USE DEF SafeGame, SafeEnd
  <1> DEFINE k == set_state(h, s)
  <1>1. /\ k \in Game /\ k.state = s /\ k.net = h.net /\ k.live = h.live
        /\ k.ghost = h.ghost /\ k.abandoned = h.abandoned /\ k.pie = h.pie
    BY SetStateFields DEF GameState
  <1> HIDE DEF k
  <1> QED
    BY <1>1 DEF LevelFits, InGame, LinkFits, ClockFits, k

\* Every button of every screen; only the exit button of a game leaves an END
\* state.
LEMMA DisplaySafe ==
    ASSUME NEW h, SafeGame(h), NEW click \in Click, NEW found \in BOOLEAN
    PROVE  SafeEnd(display(h, click, found))
  <1> USE DEF SafeGame
  <1>0. h \in Game /\ h.curr_lvl \in (-1)..LAST_LVL /\ LAST_LVL \in Nat \ {0}
    BY GameManagerConstants DEF SafeEnd, Game
  <1>1. CASE h.state \in {"GAME", "MP_GAME"} /\ click # "exit"
    BY <1>1 DEF display, display_menu
  <1>2. CASE h.state \in {"GAME", "MP_GAME"} /\ click = "exit"
    <2> DEFINE s == IF h.state = "MP_GAME" THEN "END_M_GAME" ELSE "END_S_GAME"
               k == set_state(h, s)
    <2>1. display(h, click, found) = k
      BY <1>2 DEF display, display_menu
    <2>2. s \in GameState
      BY DEF GameState
    <2>3. /\ k \in Game /\ k.state = s /\ k.net = h.net /\ k.live = h.live
          /\ k.ghost = h.ghost /\ k.abandoned = h.abandoned /\ k.pie = h.pie
      BY <1>0, <2>2, SetStateFields
    <2> HIDE DEF k
    <2> QED
      BY <1>2, <2>1, <2>3 DEF SafeEnd, LevelFits, InGame, LinkFits, ClockFits
  <1>3. CASE h.state = "MAIN_MENU"
    <2>1. 1 \in 0..LAST_LVL
      BY <1>0
    <2>2. display(h, click, found) = render_menu(h, click, found)
      BY <1>3 DEF display
    <2>3. CASE click = "single"
      BY <1>3, <2>1, <2>2, <2>3, InitGameSafe DEF render_menu
    <2>4. CASE click = "multi"
      BY <1>3, <2>2, <2>4, ScreenSafe DEF render_menu
    <2>5. CASE click = "exit"
      BY <1>3, <2>2, <2>5, ScreenSafe DEF render_menu
    <2>6. CASE click \notin {"single", "multi", "exit"}
      BY <2>2, <2>6 DEF render_menu
    <2> QED
      BY <2>3, <2>4, <2>5, <2>6
  <1>4. CASE h.state = "MP_MENU"
    <2>1. display(h, click, found) = render_mp_menu(h, click)
      BY <1>4 DEF display
    <2>2. CASE click = "exit"
      <3> DEFINE j == set_state(h, "MAIN_MENU")
                 k == [j EXCEPT !.net = "INIT"]
      <3>1. /\ j \in Game /\ j.state = "MAIN_MENU" /\ j.live = h.live /\ j.ghost = h.ghost
            /\ j.abandoned = h.abandoned
            /\ j.pie = h.pie
        BY <1>0, SetStateFields DEF GameState
      <3>2. display(h, click, found) = k
        BY <2>1, <2>2 DEF render_mp_menu
      <3> HIDE DEF j
      <3>3. /\ k \in Game /\ k.state = "MAIN_MENU" /\ k.net = "INIT" /\ k.live = h.live
            /\ k.ghost = h.ghost /\ k.abandoned = h.abandoned /\ k.pie = h.pie
        BY <3>1, NetFields DEF NetworkState
      <3> HIDE DEF k
      <3> QED
        BY <1>4, <3>2, <3>3 DEF SafeEnd, LevelFits, InGame, LinkFits, ClockFits
    <2>3. CASE click # "exit"
      BY <2>1, <2>3 DEF render_mp_menu
    <2> QED
      BY <2>2, <2>3
  <1>5. CASE h.state \in {"WIN_GAME", "LOSE_GAME"}
    <2>1. display(h, click, found) = render_win_lose_screen(h, click, found)
      BY <1>5 DEF display
    <2>2. CASE click = "exit"
      BY <1>5, <2>1, <2>2, ScreenSafe DEF render_win_lose_screen
    <2>3. CASE click = "again" /\ h.curr_lvl = -1
      BY <1>5, <2>1, <2>3, ScreenSafe DEF render_win_lose_screen
    <2>4. CASE click = "again" /\ h.curr_lvl # -1 /\ h.curr_lvl # LAST_LVL /\ h.state = "WIN_GAME"
      <3>1. h.curr_lvl + 1 \in 0..LAST_LVL
        BY <1>0, <2>4
      <3>2. display(h, click, found) = gm_init_game(h, h.curr_lvl + 1, found)
        BY <2>1, <2>4 DEF render_win_lose_screen
      <3> QED
        BY <1>5, <3>1, <3>2, InitGameSafe
    <2>5. CASE click = "again" /\ h.curr_lvl # -1 /\ h.state = "LOSE_GAME"
      <3>1. display(h, click, found) = gm_init_game(h, h.curr_lvl, found)
        BY <2>1, <2>5 DEF render_win_lose_screen
      <3> QED
        BY <1>0, <1>5, <2>5, <3>1, InitGameSafe
    <2>6. CASE /\ click # "exit"
               /\ click = "again" => /\ h.curr_lvl # -1
                                     /\ h.state = "WIN_GAME" /\ h.curr_lvl = LAST_LVL
      BY <2>1, <2>6 DEF render_win_lose_screen
    <2> QED
      BY <1>5, <2>2, <2>3, <2>4, <2>5, <2>6
  <1>6. CASE h.state = "DISCONNECT"
    BY <1>6, ScreenSafe DEF display, render_disconnect_screen
  <1>7. CASE h.state = "EXIT"
    BY <1>7 DEF display
  <1> QED
    BY <1>0, <1>1, <1>2, <1>3, <1>4, <1>5, <1>6, <1>7 DEF Game, GameState, SafeEnd

\* What a tick may end with: no END state, and no round whose timer is zero.
Settled(h) == SafeGame(h) /\ (h.state = "GAME" => h.game_timer # 0)

\* A single player game is over.
LEMMA FreeSettled ==
    ASSUME NEW h, SafeEnd(h), NEW s \in {"LOSE_GAME", "WIN_GAME", "MAIN_MENU"},
           h.state \in {"GAME", "END_S_GAME"}
    PROVE  Settled(free_level(set_state(h, s)))
  <1> DEFINE j == set_state(h, s)
             k == free_level(j)
  <1>1. j \in Game /\ j.state = s /\ j.net = h.net
    BY SetStateFields DEF SafeEnd, GameState
  <1> HIDE DEF j
  <1>2. /\ k \in Game /\ k.state = s /\ k.net = h.net /\ k.live = FALSE /\ k.ghost = FALSE
        /\ k.abandoned = FALSE
        /\ k.pie = FALSE
    BY <1>1, FreeLevelFields
  <1> HIDE DEF k
  <1>3. Settled(k)
    BY <1>2 DEF Settled, SafeGame, SafeEnd, LevelFits, InGame, LinkFits, ClockFits
  <1> QED
    BY <1>3 DEF k, j

\* A match is over; the double reset is as good as one here.
LEMMA ResetSettled ==
    ASSUME NEW h \in Game, NEW s \in {"LOSE_GAME", "WIN_GAME"}
    PROVE  Settled(gm_reset_mp_game(set_state(h, s)))
  <1> DEFINE j == set_state(h, s)
             k == gm_reset_mp_game(j)
  <1>1. j \in Game /\ j.state = s
    BY SetStateFields DEF GameState
  <1> HIDE DEF j
  <1>2. /\ k \in Game /\ k.state = s /\ k.net = "CLEANUP" /\ k.live = FALSE /\ k.ghost = FALSE
        /\ k.abandoned = FALSE
        /\ k.pie = FALSE
    BY <1>1, ResetMpFields
  <1> HIDE DEF k
  <1>3. Settled(k)
    BY <1>2 DEF Settled, SafeGame, SafeEnd, LevelFits, InGame, LinkFits, ClockFits
  <1> QED
    BY <1>3 DEF k, j

\* update_game_state resolves the END states and ends what is over.
LEMMA UpdateSettles ==
    ASSUME NEW h, SafeEnd(h), NEW fate \in Fate
    PROVE  Settled(update_game_state(h, fate))
  <1> DEFINE u == update_game_state(h, fate)
  <1>0. h \in Game
    BY DEF SafeEnd
  <1>1. CASE h.state = "GAME" /\ (fate = "dead" \/ h.game_timer = 0)
    BY <1>1, FreeSettled DEF update_game_state
  <1>2. CASE h.state = "GAME" /\ fate = "portal" /\ h.game_timer # 0
    BY <1>2, FreeSettled DEF update_game_state
  <1>3. CASE h.state = "GAME" /\ fate \notin {"dead", "portal"} /\ h.game_timer # 0
    BY <1>3 DEF update_game_state, Settled, SafeGame
  <1>4. CASE h.state = "MP_GAME" /\ fate = "dead"
    <2>1. gm_reset_mp_game(h) \in Game
      BY <1>0, ResetMpFields
    <2>2. u = gm_reset_mp_game(set_state(gm_reset_mp_game(h), "LOSE_GAME"))
      BY <1>4 DEF update_game_state
    <2> QED
      BY <2>1, <2>2, ResetSettled
  <1>5. CASE h.state = "MP_GAME" /\ fate = "enemy dead"
    <2>1. gm_reset_mp_game(h) \in Game
      BY <1>0, ResetMpFields
    <2>2. u = gm_reset_mp_game(set_state(gm_reset_mp_game(h), "WIN_GAME"))
      BY <1>5 DEF update_game_state
    <2> QED
      BY <2>1, <2>2, ResetSettled
  <1>6. CASE h.state = "END_S_GAME"
    BY <1>6, FreeSettled DEF update_game_state
  <1>7. CASE h.state = "END_M_GAME"
    BY <1>0, <1>7, ResetSettled DEF update_game_state
  <1>8. CASE /\ h.state \notin {"GAME", "END_S_GAME", "END_M_GAME"}
             /\ h.state = "MP_GAME" => fate \notin {"dead", "enemy dead"}
    BY <1>8 DEF update_game_state, Settled, SafeGame
  <1> QED
    BY <1>1, <1>2, <1>3, <1>4, <1>5, <1>6, <1>7, <1>8

-----------------------------------------------------------------------------
(* The invariant.                                                          *)

\* A whole tick.
LEMMA TickSettles ==
    ASSUME SafeGame(g), NEW out \in Received, NEW net \in NetworkState,
           NEW found \in BOOLEAN, NEW click \in Click, NEW fate \in Fate
    PROVE  Settled(Handled(out, net, found, click, fate))
  <1> DEFINE received == mp_receive(g, out)
             played == received.state \in {"GAME", "MP_GAME"}
             synced == mp_menu(received, net, found)
             painted == display(synced, click, found)
             lot == IF played THEN fate ELSE "on"
  <1>1. SafeGame(received)
    BY ReceiveSafe
  <1>2. lot \in Fate
    BY DEF Fate
  <1>3. Handled(out, net, found, click, fate) = update_game_state(painted, lot)
    BY DEF Handled
  <1> HIDE DEF received, lot
  <1>4. SafeGame(synced)
    BY <1>1, MenuSafe
  <1> HIDE DEF synced
  <1>5. SafeEnd(painted)
    BY <1>4, DisplaySafe
  <1> HIDE DEF painted
  <1> QED
    BY <1>2, <1>3, <1>5, UpdateSettles

\* The game starts on the main menu, without a level or a link.
LEMMA InitIInv == Init => IInv
  BY GameManagerConstants DEF Init, IInv, TypeOK, SafeGame, SafeEnd, LevelFits, InGame, LinkFits,
     ClockFits, ZeroIsNew, Game, GameState, NetworkState, TimerFloor

\* Every interrupt handler keeps the invariant.
LEMMA NextIInv == IInv /\ [Next]_vars => IInv'
  <1> SUFFICES ASSUME IInv, [Next]_vars PROVE IInv'
    OBVIOUS
  <1>0. g \in Game /\ SafeGame(g)
    BY DEF IInv, SafeGame, SafeEnd
  <1>1. ASSUME NEW out \in Received, NEW click \in Click, NEW fate \in Fate,
               game_handler(out, click, fate)
        PROVE  IInv'
    <2>1. g.net \in NetworkState
      BY <1>0 DEF Game
    <2>2. PICK net \in uart_sync(g.net), found \in MapFound :
            g' = Handled(out, net, found, click, fate)
      BY <1>1 DEF game_handler
    <2>3. net \in NetworkState /\ found \in BOOLEAN
      BY <2>1, <2>2, GameManagerConstants DEF uart_sync, NetworkState
    <2>4. Settled(g')
      BY <1>0, <2>2, <2>3, TickSettles
    <2>5. SafeGame(g') /\ g' \in Game /\ (g'.state = "GAME" => g'.game_timer # 0)
      BY <2>4 DEF Settled, SafeGame, SafeEnd
    <2>6. ticked' \in BOOLEAN /\ loop' \in {"running", "stopped", "aborted"}
      BY <1>1 DEF game_handler
    <2> QED
      BY <2>5, <2>6 DEF IInv, TypeOK, ZeroIsNew, SafeGame, SafeEnd, LevelFits, InGame,
         LinkFits, ClockFits
  <1>2. ASSUME NEW pf \in BOOLEAN, RtcInterrupt(pf)
        PROVE  IInv'
    <2>0. ticked' \in BOOLEAN /\ loop' = loop
      BY <1>2 DEF RtcInterrupt, IInv, TypeOK
    <2>1. CASE pf = FALSE
      <3>1. g' = g /\ (ticked' => ticked)
        BY <1>2, <2>1 DEF RtcInterrupt, rtc_ih
      <3> QED
        BY <2>0, <3>1 DEF IInv, TypeOK, ZeroIsNew, SafeGame, SafeEnd, LevelFits, InGame,
           LinkFits, ClockFits
    <2>2. CASE pf = TRUE
      <3>1. ticked /\ ~ticked' /\ g.game_timer > TimerFloor /\ g' = rtc_ih(TRUE)
        BY <1>2, <2>2 DEF RtcInterrupt
      <3>2. /\ g.game_timer \in TimerFloor..RoundTimer /\ TimerFloor = -1
            /\ RoundTimer \in Nat /\ g.pie_state \in 0..1
            /\ g.state = "GAME" => g.game_timer \in 1..RoundTimer
        BY <1>0, <3>1, GameManagerConstants
           DEF Game, TimerFloor, IInv, ZeroIsNew, SafeGame, SafeEnd, ClockFits
      <3>3. /\ g' \in Game
            /\ g'.state = g.state /\ g'.net = g.net /\ g'.live = g.live /\ g'.ghost = g.ghost
            /\ g'.abandoned = g.abandoned
            /\ g'.pie = g.pie
            /\ g.state = "GAME" => g'.game_timer \in 0..RoundTimer
        <4>1. CASE g.pie_state = 1
          <5>1. g' = [g EXCEPT !.game_timer = g.game_timer - 1, !.pie_state = 0]
            BY <3>1, <4>1 DEF rtc_ih
          <5>2. g.game_timer - 1 \in TimerFloor..RoundTimer /\ 0 \in 0..1
            BY <3>1, <3>2
          <5>3. g' \in Game
            BY <1>0, <5>1, <5>2 DEF Game
          <5>4. /\ g'.state = g.state /\ g'.net = g.net /\ g'.live = g.live
                /\ g'.ghost = g.ghost /\ g'.abandoned = g.abandoned /\ g'.pie = g.pie
                /\ g'.game_timer = g.game_timer - 1
            BY <1>0, <5>1 DEF Game
          <5> QED
            BY <3>2, <5>3, <5>4
        <4>2. CASE g.pie_state # 1
          <5>1. g' = [g EXCEPT !.pie_state = g.pie_state + 1]
            BY <3>1, <4>2 DEF rtc_ih
          <5>2. g.pie_state + 1 \in 0..1
            BY <3>2, <4>2
          <5>3. g' \in Game
            BY <1>0, <5>1, <5>2 DEF Game
          <5>4. /\ g'.state = g.state /\ g'.net = g.net /\ g'.live = g.live
                /\ g'.ghost = g.ghost /\ g'.abandoned = g.abandoned /\ g'.pie = g.pie
                /\ g'.game_timer = g.game_timer
            BY <1>0, <5>1 DEF Game
          <5> QED
            BY <3>2, <5>3, <5>4
        <4> QED
          BY <4>1, <4>2
      <3>4. SafeGame(g')
        BY <1>0, <3>3 DEF SafeGame, SafeEnd, LevelFits, InGame, LinkFits, ClockFits
      <3>5. loop' \in {"running", "stopped", "aborted"}
        BY <2>0 DEF IInv, TypeOK
      <3> QED
        BY <2>0, <3>1, <3>3, <3>4, <3>5
           DEF IInv, TypeOK, ZeroIsNew, SafeGame, SafeEnd, LevelFits, InGame, LinkFits, ClockFits
    <2> QED
      BY <2>1, <2>2
  <1>3. CASE EscReleased \/ UNCHANGED vars
    BY <1>3 DEF IInv, TypeOK, ZeroIsNew, EscReleased, vars, SafeGame, SafeEnd, LevelFits, InGame,
       LinkFits, ClockFits
  <1> QED
    BY <1>1, <1>2, <1>3 DEF Next

\* The inductive invariant holds in every reachable state.
THEOREM GameManagerInvariant == Spec => []IInv
  BY InitIInv, NextIInv, PTL DEF Spec

(***************************************************************************)
(* Every reachable state of the game manager is well typed: in particular  *)
(* the level number stays in range and no interrupt handler lets the round *)
(* timer or pie_state run out of theirs.                                   *)
(***************************************************************************)
THEOREM GameManagerTypeCorrect == Spec => []TypeOK
  BY GameManagerInvariant, PTL DEF IInv

(***************************************************************************)
(* No tick plays on a freed level, also when connections are lost and map  *)
(* files are missing.                                                      *)
(***************************************************************************)
THEOREM GameManagerPlayingHasLevel == Spec => []PlayingHasLevel
  <1>1. IInv => PlayingHasLevel
    BY DEF IInv, SafeGame, SafeEnd, LevelFits, InGame, PlayingHasLevel, Playing
  <1> QED
    BY <1>1, GameManagerInvariant, PTL

(***************************************************************************)
(* A level is held exactly while a game is on or after a lost connection,  *)
(* and loaded over another one only in that case.                          *)
(***************************************************************************)
THEOREM GameManagerLevelIffPlaying == Spec => []LevelIffPlaying
  <1>1. IInv => LevelIffPlaying
    BY DEF IInv, SafeGame, SafeEnd, LevelFits, InGame, LevelIffPlaying, Playing
  <1> QED
    BY <1>1, GameManagerInvariant, PTL

(***************************************************************************)
(* A match is played only over a connection, and a connection outlives no  *)
(* match, lost connections included.                                       *)
(***************************************************************************)
THEOREM GameManagerMatchIsConnected == Spec => []MatchIsConnected
  <1>1. IInv => MatchIsConnected
    BY DEF IInv, SafeGame, SafeEnd, LinkFits, MatchIsConnected
  <1> QED
    BY <1>1, GameManagerInvariant, PTL

(***************************************************************************)
(* The periodic interrupt is on exactly during a single player round.      *)
(***************************************************************************)
THEOREM GameManagerRoundClock == Spec => []RoundClock
  <1>1. IInv => RoundClock
    BY DEF IInv, SafeGame, SafeEnd, ClockFits, RoundClock
  <1> QED
    BY <1>1, GameManagerInvariant, PTL

(***************************************************************************)
(* update_game_state's test game_timer == 0 never misses the end of a      *)
(* round, for any length of a round.                                       *)
(***************************************************************************)
THEOREM GameManagerRoundTimerInRange == Spec => []RoundTimerInRange
  <1>1. IInv => RoundTimerInRange
    BY DEF IInv, SafeGame, SafeEnd, ClockFits, RoundTimerInRange
  <1> QED
    BY <1>1, GameManagerInvariant, PTL

(***************************************************************************)
(* Screen, level, link and round clock agree in every reachable state, for *)
(* any number of levels, any length of a round, missing maps and lost      *)
(* connections.                                                            *)
(***************************************************************************)
THEOREM GameManagerScreensAgree == Spec => []ScreensAgree
  BY GameManagerLevelIffPlaying, GameManagerMatchIsConnected, GameManagerRoundClock,
     GameManagerRoundTimerInRange, PTL DEF ScreensAgree

-----------------------------------------------------------------------------
(* Module Patrol: a bot's round and trigger.                               *)

\* ActsOnSight needs to know that a chase has no place in the round: the tick
\* that ends it takes the destination for reached.
ChaseHasNoIndex == curr_dest = B!PLAYER => curr_idx = -1

PatrolInv == B!TypeOK /\ B!ActsOnSight /\ ChaseHasNoIndex

LEMMA InitPatrol == B!Init => PatrolInv
<1> SUFFICES ASSUME B!Init PROVE PatrolInv
  OBVIOUS
<1>1. curr_idx \in -1..(NumPositions - 1) /\ since \in 0..Timeout /\ curr_dest \in B!Place
  BY GameInstances DEF B!Init, B!PatrolConstants, B!Place
<1>2. seen \in B!Sight
  BY DEF B!Init, B!Sight, B!Nothing
<1>3. random \in BOOLEAN /\ {alive, held, walks} \subseteq BOOLEAN /\ B!ActsOnSight /\ ChaseHasNoIndex
  BY DEF B!Init, B!ActsOnSight, B!Nothing, ChaseHasNoIndex
<1> QED BY <1>1, <1>2, <1>3 DEF PatrolInv, B!TypeOK

\* The destination is a position, a tile or the player, whatever is decided.
LEMMA DestTyped ==
    ASSUME B!TypeOK, NEW follow \in BOOLEAN, NEW near \in BOOLEAN, NEW tile \in B!Tile,
           B!choose_dest(follow, near, tile)
    PROVE  curr_idx' \in -1..(NumPositions - 1) /\ curr_dest' \in B!Place /\ since' \in 0..Timeout
<1> USE GameInstances DEF B!PatrolConstants, B!TypeOK, B!Place, B!PLAYER
<1>1. CASE B!advance(tile)
  BY <1>1 DEF B!advance, B!Tile
<1>2. CASE B!Later /\ curr_dest' = B!PLAYER /\ curr_idx' = -1
  BY <1>2 DEF B!Later
<1>3. CASE B!Later /\ UNCHANGED <<curr_idx, curr_dest>>
  BY <1>3 DEF B!Later
<1> QED BY <1>1, <1>2, <1>3 DEF B!choose_dest

\* The destination is the player if it is in sight, and else not.
LEMMA DestFollows ==
    ASSUME PatrolInv, NEW follow \in BOOLEAN, NEW near \in BOOLEAN, NEW tile \in B!Tile,
           B!choose_dest(follow, near, tile)
    PROVE  (curr_dest' = B!PLAYER <=> follow) /\ ChaseHasNoIndex'
<1> USE GameInstances DEF B!PatrolConstants, B!TypeOK, B!PLAYER, PatrolInv, ChaseHasNoIndex
<1>1. CASE B!advance(tile) /\ ~follow
  BY <1>1 DEF B!advance, B!Tile
<1>2. CASE follow /\ curr_dest' = B!PLAYER /\ curr_idx' = -1
  BY <1>2
<1>3. CASE ~follow /\ curr_idx # -1 /\ UNCHANGED <<curr_idx, curr_dest>>
  BY <1>3
<1> QED BY <1>1, <1>2, <1>3 DEF B!choose_dest

\* Whatever a tick sees, and whoever shoots or heals the bot.
LEMMA NextPatrol == PatrolInv /\ [B!Next]_(B!vars) => PatrolInv'
<1> SUFFICES ASSUME PatrolInv, [B!Next]_(B!vars) PROVE PatrolInv'
  OBVIOUS
<1>1. ASSUME NEW in_sight \in BOOLEAN, NEW near \in BOOLEAN, NEW gun \in BOOLEAN,
             NEW coin \in BOOLEAN, NEW go \in BOOLEAN, NEW a \in B!ToEitherSide,
             NEW tile \in B!Tile, B!handle_enemy(in_sight, a, near, gun, tile, coin, go)
      PROVE  PatrolInv'
  <2> DEFINE follow == in_sight /\ B!Abs(a) <= Fov
  <2>1. follow \in BOOLEAN
    OBVIOUS
  <2>2. /\ alive /\ B!choose_dest(follow, near, tile) /\ B!control(follow, a, gun, coin, go)
        /\ seen' = [alive |-> TRUE, follow |-> follow, angle |-> a, gun |-> gun]
        /\ UNCHANGED <<random, alive>>
    BY <1>1 DEF B!handle_enemy
  <2> HIDE DEF follow
  <2>3. /\ curr_idx' \in -1..(NumPositions - 1) /\ curr_dest' \in B!Place /\ since' \in 0..Timeout
    BY <2>1, <2>2, DestTyped DEF PatrolInv
  <2>4. held' \in BOOLEAN /\ walks' \in BOOLEAN /\ (held' => follow /\ gun)
    BY <2>2 DEF B!control
  <2>5. seen' \in B!Sight
    BY <2>1, <2>2 DEF B!Sight
  <2>6. seen'.alive = TRUE /\ seen'.follow = follow /\ seen'.gun = gun
    BY <2>2
  <2>7. B!TypeOK'
    BY <2>2, <2>3, <2>4, <2>5 DEF PatrolInv, B!TypeOK, B!Place, B!ToEitherSide
  <2>8. (curr_dest' = B!PLAYER <=> follow) /\ ChaseHasNoIndex'
    BY <2>1, <2>2, DestFollows DEF PatrolInv
  <2>9. B!ActsOnSight'
    BY <2>4, <2>6, <2>8 DEF B!ActsOnSight
  <2> QED BY <2>7, <2>8, <2>9 DEF PatrolInv
<1>2. CASE B!handle_dead
  <2>3. since' \in 0..Timeout
    BY <1>2, GameInstances DEF PatrolInv, B!TypeOK, B!handle_dead, B!Later, B!PatrolConstants
  <2>4. {alive', held', walks'} \subseteq BOOLEAN
    BY <1>2 DEF PatrolInv, B!TypeOK, B!handle_dead
  <2>5. UNCHANGED <<random, curr_idx, curr_dest>> /\ seen' \in B!Sight
    BY <1>2 DEF B!handle_dead, B!Nothing, B!Sight
  <2>1. B!TypeOK'
    BY <2>3, <2>4, <2>5 DEF PatrolInv, B!TypeOK, B!Place, B!ToEitherSide
  <2>2. B!ActsOnSight' /\ ChaseHasNoIndex'
    BY <1>2 DEF B!ActsOnSight, B!handle_dead, B!Nothing, PatrolInv, ChaseHasNoIndex
  <2> QED BY <2>1, <2>2 DEF PatrolInv
<1>3. CASE B!Health
  BY <1>3 DEF PatrolInv, B!TypeOK, B!Health, B!Place, B!Sight, B!ToEitherSide, B!ActsOnSight,
     ChaseHasNoIndex
<1>4. CASE UNCHANGED B!vars
  BY <1>4 DEF PatrolInv, B!TypeOK, B!vars, B!Place, B!Sight, B!ToEitherSide, B!ActsOnSight,
     ChaseHasNoIndex
<1> QED BY <1>1, <1>2, <1>3, <1>4 DEF B!Next, B!Tick

LEMMA PatrolInvariant == B!Spec => []PatrolInv
<1> QED BY InitPatrol, NextPatrol, PTL DEF B!Spec

(***************************************************************************)
(* A bot goes by what its last tick saw, for any number of positions and   *)
(* tiles, any timeout_movm, any field of view and any angles.              *)
(***************************************************************************)
THEOREM PatrolActsOnSight == B!Spec => []ActsOnSight
<1>1. PatrolInv => ActsOnSight
  BY DEF PatrolInv, ActsOnSight
<1> QED BY <1>1, PatrolInvariant, PTL

-----------------------------------------------------------------------------
(* Module Level: the memory of a level.                                    *)

\* What enemies may point to.
Block == {"null", "enemies"} \X Nat \X Nat

\* The blocks of a kind that are allocated.
Allocated(kind) == {b \in heap : b[1] = kind}
Numbered(kind, I) == {L!B(kind, i) : i \in I}

\* What the calls made so far have left of a level: how far it is loaded or
\* freed, and the counts that the code keeps.
Stage == [map : 0..1, table : 0..1, anims : 0..1, player : 0..1,
          others : 0..L!People, ctrls : 0..L!People, size : 0..(Items + 5)]
NoLevel == [map |-> 0, table |-> 0, anims |-> 0, player |-> 0,
            others |-> 0, ctrls |-> 0, size |-> 0]
Complete(A) ==
    A.map = 1 /\ A.table = 1 /\ A.anims = 1 /\ A.player = 1 /\ A.size > 0 /\ (A.ctrls = 0 \/ A.others > 0)

\* When a call may be made, so that it reaches allocated blocks only, ...
Ready(A, c) ==
    /\ c.fun = "init_collision_table" => A.size = 0
    /\ c.fun = "init_player" => c.arg \in {L!PLAYER, L!OTHER_PLAYER}
    /\ c.fun = "init_player" /\ c.arg = L!PLAYER => A.player = 0
    /\ c.fun = "init_player" /\ c.arg = L!OTHER_PLAYER => A.ctrls = 0
    /\ c.fun = "init_enemy" => c.arg \in 0..(A.others - 1)
    /\ c.fun = "add_pickup" => A.table = 1
    /\ c.fun = "close_map" => A.map = 1
    /\ c.fun = "free_players" => A.player = 1
    /\ c.fun = "free_collision_table" => A.table = 1
    /\ c.fun = "free_pickups" => A.size > 0 /\ A.table = 0

\* ... and the stage after it.
After(A, c) ==
    CASE c.fun = "load_map" -> [A EXCEPT !.map = 1]
      [] c.fun = "init_collision_table" -> [A EXCEPT !.table = 1]
      [] c.fun = "init_guns" -> [A EXCEPT !.anims = 1]
      [] c.fun = "init_player" -> IF c.arg = L!PLAYER THEN [A EXCEPT !.player = 1]
                                  ELSE [A EXCEPT !.others = @ + 1]
      [] c.fun = "init_enemy" -> [A EXCEPT !.ctrls = @ + 1]
      [] c.fun = "add_pickup" -> [A EXCEPT !.size = IF @ = 0 THEN 2 ELSE @ + 1]
      [] c.fun = "close_map" -> [A EXCEPT !.map = 0]
      [] c.fun = "free_players" -> [A EXCEPT !.player = 0, !.others = 0]
      [] c.fun = "free_controllers" -> [A EXCEPT !.ctrls = 0]
      [] c.fun = "free_collision_table" -> [A EXCEPT !.table = 0]
      [] c.fun = "free_pickups" -> [A EXCEPT !.size = 0]
      [] c.fun = "free_gun_anims" -> [A EXCEPT !.anims = 0]
      [] OTHER -> A

\* The stages that the calls of `calls` lead through, starting at f[1].
Leads(f, calls) ==
    /\ f \in [1..(Len(calls) + 1) -> Stage]
    /\ \A k \in 1..Len(calls) : Ready(f[k], calls[k]) /\ f[k + 1] = After(f[k], calls[k])

\* The blocks that exist at a stage: of the kinds that free_level frees no
\* others, of the other kinds at least those that a tick or a call reaches.
MapThere(A) ==
    /\ Allocated("matrix") = IF A.map = 1 THEN {L!B("matrix", 0)} ELSE {}
    /\ A.map = 1 => Numbered("line", 0..(Lines - 1)) \subseteq Allocated("line")
TableThere(A) ==
    /\ Allocated("table") = IF A.table = 1 THEN {L!B("table", 0)} ELSE {}
    /\ Allocated("row") = IF A.table = 1 THEN Numbered("row", 0..(Lines - 1)) ELSE {}
    /\ Allocated("list") = IF A.table = 1 THEN Numbered("list", 1..(A.size - 1)) ELSE {}
PlayerThere(A) ==
    /\ A.anims = 1 => L!B("animations", 0) \in Allocated("animations")
    /\ Allocated("player_guns") = IF A.player = 1 THEN {guns} ELSE {}
    /\ guns[1] = "player_guns" \/ (guns[1] = "null" /\ A.player = 0)
OthersThere(A) ==
    /\ num_enemies = A.others
    /\ Allocated("enemies") = L!Old(enemies, A.others)
    /\ enemies \in Block
    /\ enemies[1] = IF A.others = 0 THEN "null" ELSE "enemies"
    /\ A.others = 0 => enemies = L!NULL
    /\ Allocated("guns") = Numbered("guns", 0..(A.others - 1))
    /\ Numbered("sprites", 0..(A.others - 1)) \subseteq Allocated("sprites")
ControllersThere(A) ==
    /\ ctrl \in Seq([player : Block, index : Int])
    /\ \A k \in 1..Len(ctrl) :
         A.others > 0 => ctrl[k].player = enemies /\ ctrl[k].index \in 0..(A.others - 1)
    /\ Len(ctrl) = A.ctrls
    /\ Allocated("controllers") = L!Old(controllers, A.ctrls)
    /\ controllers[1] = IF A.ctrls = 0 THEN "null" ELSE "controllers"
    /\ A.ctrls = 0 => controllers = L!NULL
    /\ Allocated("positions") = Numbered("positions", 0..(A.ctrls - 1))
PickupsThere(A) ==
    /\ pickups_size = A.size
    /\ Allocated("pickups") = L!Old(pickups, A.size)
    /\ pickups[1] = "pickups" \/ (pickups[1] = "null" /\ A.size = 0)
    /\ Allocated("details") = Numbered("details", 1..(A.size - 1))
    /\ Numbered("frames", 1..(A.size - 1)) \subseteq Allocated("frames")

There(A) == /\ MapThere(A) /\ TableThere(A) /\ PlayerThere(A) /\ OthersThere(A)
            /\ ControllersThere(A) /\ PickupsThere(A)

Ends(A) == IF playing THEN Complete(A) ELSE A = NoLevel

\* Only free_gun_anims has reached a freed block.
OnlyGunAnims == \A s \in stale : s[1] = "free_gun_anims"

\* free_level calls it last.
AnimsLast == \A k \in 1..Len(todo) : todo[k].fun = "free_gun_anims" => k = Len(todo)

LevelInv ==
    /\ todo \in Seq(L!Call) /\ playing \in BOOLEAN /\ levels \in 0..MaxLevels
    /\ OnlyGunAnims /\ AnimsLast
    /\ \E f : Leads(f, todo) /\ There(f[1]) /\ Ends(f[Len(todo) + 1])

-----------------------------------------------------------------------------
\* Blocks are allocated and freed of the kinds K only.
Only(K) == \A kind : kind \notin K => Allocated(kind)' = Allocated(kind)

LEMMA HeapStep ==
    ASSUME NEW X, NEW Y, NEW K, heap' = (heap \ X) \cup Y, \A b \in X \cup Y : b[1] \in K
    PROVE  Only(K)
<1> SUFFICES ASSUME NEW kind, kind \notin K PROVE Allocated(kind)' = Allocated(kind)
  BY DEF Only
<1> QED BY DEF Allocated

LEMMA MapFrame ==
    ASSUME NEW A, NEW C, MapThere(A), C.map = A.map, levels' = levels, NEW K, Only(K),
           "matrix" \notin K, "line" \notin K
    PROVE  MapThere(C)'
  BY DEF MapThere, Only, Numbered, L!B

LEMMA TableFrame ==
    ASSUME NEW A, NEW C, TableThere(A), C.table = A.table, C.size = A.size, levels' = levels,
           NEW K, Only(K), "table" \notin K, "row" \notin K, "list" \notin K
    PROVE  TableThere(C)'
  BY DEF TableThere, Only, Numbered, L!B

LEMMA PlayerFrame ==
    ASSUME NEW A, NEW C, PlayerThere(A), C.anims = A.anims, C.player = A.player,
           levels' = levels, guns' = guns, NEW K, Only(K),
           "animations" \notin K, "player_guns" \notin K
    PROVE  PlayerThere(C)'
  BY DEF PlayerThere, Only, L!B

LEMMA OthersFrame ==
    ASSUME NEW A, NEW C, OthersThere(A), C.others = A.others, levels' = levels,
           UNCHANGED <<enemies, num_enemies>>, NEW K, Only(K),
           "enemies" \notin K, "guns" \notin K, "sprites" \notin K
    PROVE  OthersThere(C)'
  BY DEF OthersThere, Only, Numbered, L!B, L!Old, L!NULL

LEMMA ControllersFrame ==
    ASSUME NEW A, NEW C, ControllersThere(A), C.others = A.others, C.ctrls = A.ctrls,
           levels' = levels, UNCHANGED <<enemies, controllers, ctrl>>,
           NEW K, Only(K), "controllers" \notin K, "positions" \notin K
    PROVE  ControllersThere(C)'
  BY DEF ControllersThere, Only, Numbered, L!B, L!Old, L!NULL

LEMMA PickupsFrame ==
    ASSUME NEW A, NEW C, PickupsThere(A), C.size = A.size, levels' = levels,
           UNCHANGED <<pickups, pickups_size>>, NEW K, Only(K),
           "pickups" \notin K, "details" \notin K, "frames" \notin K
    PROVE  PickupsThere(C)'
  BY DEF PickupsThere, Only, Numbered, L!B, L!Old

\* A call that allocates and frees blocks of the kinds K leaves the parts of a
\* level that have none of them.
LEMMA Frame ==
    ASSUME NEW A, NEW C, NEW K, There(A), levels' = levels, Only(K)
    PROVE  /\ C.map = A.map
                /\ "matrix" \notin K /\ "line" \notin K => MapThere(C)'
           /\ C.table = A.table /\ C.size = A.size
                /\ "table" \notin K /\ "row" \notin K /\ "list" \notin K => TableThere(C)'
           /\ C.anims = A.anims /\ C.player = A.player /\ guns' = guns
                /\ "animations" \notin K /\ "player_guns" \notin K => PlayerThere(C)'
           /\ C.others = A.others /\ UNCHANGED <<enemies, num_enemies>>
                /\ "enemies" \notin K /\ "guns" \notin K /\ "sprites" \notin K => OthersThere(C)'
           /\ C.others = A.others /\ C.ctrls = A.ctrls /\ UNCHANGED <<enemies, controllers, ctrl>>
                /\ "controllers" \notin K /\ "positions" \notin K => ControllersThere(C)'
           /\ C.size = A.size /\ UNCHANGED <<pickups, pickups_size>>
                /\ "pickups" \notin K /\ "details" \notin K /\ "frames" \notin K => PickupsThere(C)'
<1>1. /\ MapThere(A) /\ TableThere(A) /\ PlayerThere(A)
      /\ OthersThere(A) /\ ControllersThere(A) /\ PickupsThere(A)
  BY DEF There
<1>2. C.map = A.map
        /\ "matrix" \notin K /\ "line" \notin K => MapThere(C)'
  BY <1>1, MapFrame
<1>3. C.table = A.table /\ C.size = A.size
        /\ "table" \notin K /\ "row" \notin K /\ "list" \notin K => TableThere(C)'
  BY <1>1, TableFrame
<1>4. C.anims = A.anims /\ C.player = A.player /\ guns' = guns
        /\ "animations" \notin K /\ "player_guns" \notin K => PlayerThere(C)'
  BY <1>1, PlayerFrame
<1>5. C.others = A.others /\ UNCHANGED <<enemies, num_enemies>>
        /\ "enemies" \notin K /\ "guns" \notin K /\ "sprites" \notin K => OthersThere(C)'
  BY <1>1, OthersFrame
<1>6. C.others = A.others /\ C.ctrls = A.ctrls /\ UNCHANGED <<enemies, controllers, ctrl>>
        /\ "controllers" \notin K /\ "positions" \notin K => ControllersThere(C)'
  BY <1>1, ControllersFrame
<1>7. C.size = A.size /\ UNCHANGED <<pickups, pickups_size>>
        /\ "pickups" \notin K /\ "details" \notin K /\ "frames" \notin K => PickupsThere(C)'
  BY <1>1, PickupsFrame
<1> QED BY <1>2, <1>3, <1>4, <1>5, <1>6, <1>7

\* The calls of load_level, one by one.
LEMMA LoadMapIs ==
    ASSUME NEW A \in Stage, There(A), L!load_map
    PROVE  There([A EXCEPT !.map = 1])' /\ stale' = stale
<1> DEFINE C == [A EXCEPT !.map = 1]
<1> DEFINE Y == {L!B("matrix", 0)} \cup Numbered("line", {0} \cup 1..Lines)
<1>1. /\ heap' = (heap \ {}) \cup Y
      /\ UNCHANGED <<enemies, num_enemies, controllers, ctrl, pickups, pickups_size,
                     guns, stale, levels>>
  BY DEF L!load_map, Numbered
<1>2. /\ C.map = 1 /\ C.table = A.table /\ C.anims = A.anims /\ C.player = A.player
      /\ C.others = A.others /\ C.ctrls = A.ctrls /\ C.size = A.size
  BY DEF Stage
<1>3. Only({"matrix", "line"})
  <2>1. \A b \in {} \cup Y : b[1] \in {"matrix", "line"}
    BY DEF Numbered, L!B
  <2> HIDE DEF Y
  <2> QED BY <1>1, <2>1, HeapStep
<1> HIDE DEF C
<1>4. MapThere(C)'
  <2>1. Allocated("matrix") \subseteq {L!B("matrix", 0)}
    BY DEF There, MapThere
  <2>2. Allocated("matrix")' = {L!B("matrix", 0)'}
    BY <1>1, <2>1 DEF Allocated, Numbered, L!B
  <2>3. Numbered("line", 0..(Lines - 1))' \subseteq Allocated("line")'
    BY <1>1, GameInstances DEF Allocated, Numbered, L!B, L!LevelConstants
  <2> QED BY <1>2, <2>2, <2>3 DEF MapThere
<1> HIDE DEF Y
<1>5. TableThere(C)' /\ PlayerThere(C)' /\ OthersThere(C)' /\ ControllersThere(C)' /\ PickupsThere(C)'
  BY <1>1, <1>2, <1>3, Frame
<1> QED BY <1>1, <1>4, <1>5 DEF There, C

LEMMA InitTableIs ==
    ASSUME NEW A \in Stage, There(A), A.size = 0, L!init_collision_table
    PROVE  There([A EXCEPT !.table = 1])' /\ stale' = stale
<1> DEFINE C == [A EXCEPT !.table = 1]
<1> DEFINE Y == {L!B("table", 0)} \cup Numbered("row", 0..(Lines - 1))
<1>1. /\ heap' = (heap \ {}) \cup Y
      /\ UNCHANGED <<enemies, num_enemies, controllers, ctrl, pickups, pickups_size,
                     guns, stale, levels>>
  BY DEF L!init_collision_table, Numbered
<1>2. /\ C.map = A.map /\ C.table = 1 /\ C.anims = A.anims /\ C.player = A.player
      /\ C.others = A.others /\ C.ctrls = A.ctrls /\ C.size = A.size
  BY DEF Stage
<1>3. Only({"table", "row"})
  <2>1. \A b \in {} \cup Y : b[1] \in {"table", "row"}
    BY DEF Numbered, L!B
  <2> HIDE DEF Y
  <2> QED BY <1>1, <2>1, HeapStep
<1> HIDE DEF C
<1>4. TableThere(C)'
  <2>1. /\ Allocated("table") \subseteq {L!B("table", 0)}
        /\ Allocated("row") \subseteq Numbered("row", 0..(Lines - 1))
    BY DEF There, TableThere
  <2>2. Allocated("list") = {} /\ Numbered("list", 1..(C.size - 1))' = {}
    BY <1>2 DEF There, TableThere, Numbered
  <2>3. Allocated("table")' = {L!B("table", 0)'}
    BY <1>1, <2>1 DEF Allocated, Numbered, L!B
  <2>4. Allocated("row")' = Numbered("row", 0..(Lines - 1))'
    BY <1>1, <2>1 DEF Allocated, Numbered, L!B
  <2>5. Allocated("list")' = {}
    BY <1>1, <2>2 DEF Allocated, Numbered, L!B
  <2> QED BY <1>2, <2>2, <2>3, <2>4, <2>5 DEF TableThere
<1> HIDE DEF Y
<1>5. MapThere(C)' /\ PlayerThere(C)' /\ OthersThere(C)' /\ ControllersThere(C)' /\ PickupsThere(C)'
  BY <1>1, <1>2, <1>3, Frame
<1> QED BY <1>1, <1>4, <1>5 DEF There, C

LEMMA InitGunsIs ==
    ASSUME NEW A \in Stage, There(A), L!init_guns
    PROVE  There([A EXCEPT !.anims = 1])' /\ stale' = stale
<1> DEFINE C == [A EXCEPT !.anims = 1]
<1> DEFINE Y == {L!B(k, i) : k \in {"animations", "gun_frames"}, i \in L!GunNumber}
<1>1. /\ heap' = (heap \ {}) \cup Y
      /\ UNCHANGED <<enemies, num_enemies, controllers, ctrl, pickups, pickups_size,
                     guns, stale, levels>>
  BY DEF L!init_guns
<1>2. /\ C.map = A.map /\ C.table = A.table /\ C.anims = 1 /\ C.player = A.player
      /\ C.others = A.others /\ C.ctrls = A.ctrls /\ C.size = A.size
  BY DEF Stage
<1>3. Only({"animations", "gun_frames"})
  <2>1. \A b \in {} \cup Y : b[1] \in {"animations", "gun_frames"}
    BY DEF L!B
  <2> HIDE DEF Y
  <2> QED BY <1>1, <2>1, HeapStep
<1> HIDE DEF C
<1>4. PlayerThere(C)'
  <2>1. L!B("animations", 0)' \in Y
    BY <1>1 DEF L!B, L!GunNumber
  <2>2. L!B("animations", 0)' \in Allocated("animations")'
    BY <1>1, <2>1 DEF Allocated, L!B
  <2>3. Allocated("player_guns")' = Allocated("player_guns")
    BY <1>3 DEF Only
  <2> QED BY <1>1, <1>2, <2>2, <2>3 DEF PlayerThere, There
<1> HIDE DEF Y
<1>5. MapThere(C)' /\ TableThere(C)' /\ OthersThere(C)' /\ ControllersThere(C)' /\ PickupsThere(C)'
  BY <1>1, <1>2, <1>3, Frame
<1> QED BY <1>1, <1>4, <1>5 DEF There, C

LEMMA PlayerIs ==
    ASSUME NEW A \in Stage, There(A), A.player = 0, L!init_player, Head(todo).arg = L!PLAYER
    PROVE  There([A EXCEPT !.player = 1])' /\ stale' = stale
<1> DEFINE C == [A EXCEPT !.player = 1]
<1>1. /\ heap' = (heap \ {}) \cup {guns'} /\ guns' = L!B("player_guns", 0)
      /\ UNCHANGED <<enemies, num_enemies, controllers, ctrl, pickups, pickups_size, stale, levels>>
  BY DEF L!init_player, L!PLAYER, L!OTHER_PLAYER
<1>2. /\ C.map = A.map /\ C.table = A.table /\ C.anims = A.anims /\ C.player = 1
      /\ C.others = A.others /\ C.ctrls = A.ctrls /\ C.size = A.size
  BY DEF Stage
<1>3. guns'[1] = "player_guns"
  BY <1>1 DEF L!B
<1>6. Only({"player_guns"})
  <2>1. \A b \in {} \cup {guns'} : b[1] \in {"player_guns"}
    BY <1>3
  <2> QED BY <1>1, <2>1, HeapStep
<1> HIDE DEF C
<1>4. PlayerThere(C)'
  <2>1. Allocated("player_guns") = {}
    BY DEF There, PlayerThere
  <2>2. Allocated("player_guns")' = {guns'}
    BY <1>1, <1>3, <2>1 DEF Allocated
  <2>3. Allocated("animations")' = Allocated("animations")
    BY <1>1, <1>3 DEF Allocated
  <2> QED BY <1>1, <1>2, <1>3, <2>2, <2>3 DEF PlayerThere, There, L!B
<1>5. MapThere(C)' /\ TableThere(C)' /\ OthersThere(C)' /\ ControllersThere(C)' /\ PickupsThere(C)'
  BY <1>1, <1>2, <1>6, Frame
<1> QED BY <1>1, <1>4, <1>5 DEF There, C

\* The blocks that exist are reached without harm.
LEMMA ReachLive ==
    ASSUME NEW fun, NEW blocks, blocks \subseteq heap, L!Reach(fun, blocks)
    PROVE  stale' = stale
  BY DEF L!Reach

\* realloc moves the people; no controller points to them yet.
LEMMA OtherIs ==
    ASSUME NEW A \in Stage, There(A), A.ctrls = 0, L!init_player, Head(todo).arg = L!OTHER_PLAYER,
           levels \in Nat
    PROVE  There([A EXCEPT !.others = @ + 1])' /\ stale' = stale
<1> DEFINE C == [A EXCEPT !.others = @ + 1]
<1> DEFINE Y == {enemies', L!B("guns", A.others), L!B("sprites", A.others)}
<1>0. A.others \in Nat
  BY DEF Stage
<1>1. /\ num_enemies = A.others /\ num_enemies' = A.others + 1
      /\ enemies' \in L!realloc(enemies, "enemies", A.others)
      /\ L!Reach("init_player", L!Old(enemies, A.others))
      /\ heap' = (heap \ L!Old(enemies, A.others)) \cup Y
      /\ UNCHANGED <<controllers, ctrl, pickups, pickups_size, guns, levels>>
  BY DEF L!init_player, L!PLAYER, L!OTHER_PLAYER, There, OthersThere
<1>2. /\ C.map = A.map /\ C.table = A.table /\ C.anims = A.anims /\ C.player = A.player
      /\ C.others = A.others + 1 /\ C.ctrls = 0 /\ C.size = A.size
  BY DEF Stage
<1> HIDE DEF C
<1>3. /\ Allocated("enemies") = L!Old(enemies, A.others) /\ enemies \in Block
      /\ (A.others > 0 => enemies[1] = "enemies")
      /\ Allocated("guns") = Numbered("guns", 0..(A.others - 1))
      /\ Numbered("sprites", 0..(A.others - 1)) \subseteq Allocated("sprites")
  BY <1>0 DEF There, OthersThere
<1>4. enemies' \in Block /\ enemies'[1] = "enemies"
  <2>1. \A n \in Nat : L!B("enemies", n) \in Block /\ L!B("enemies", n)[1] = "enemies"
    BY DEF L!B, Block
  <2>2. enemies' = L!B("enemies", A.others) \/ (A.others > 0 /\ enemies' = enemies)
    BY <1>0, <1>1 DEF L!realloc
  <2> QED BY <1>0, <1>3, <2>1, <2>2
<1>5. stale' = stale
  BY <1>1, <1>3, ReachLive DEF Allocated
<1>6. Only({"enemies", "guns", "sprites"})
  <2>1. \A b \in L!Old(enemies, A.others) \cup Y : b[1] \in {"enemies", "guns", "sprites"}
    BY <1>0, <1>3, <1>4 DEF L!Old, L!B
  <2> HIDE DEF Y
  <2> QED BY <1>1, <2>1, HeapStep
<1>7. OthersThere(C)'
  <2>1. Allocated("enemies")' = {enemies'}
    BY <1>1, <1>3, <1>4 DEF Allocated, L!B
  <2>2. Allocated("guns")' = Allocated("guns") \cup {L!B("guns", A.others)}
    BY <1>0, <1>1, <1>3, <1>4 DEF Allocated, L!B, L!Old
  <2>3. Numbered("guns", 0..A.others)' = Numbered("guns", 0..(A.others - 1)) \cup {L!B("guns", A.others)}
    BY <1>0, <1>1 DEF Numbered, L!B
  <2>4. Allocated("sprites") \cup {L!B("sprites", A.others)} \subseteq Allocated("sprites")'
    BY <1>0, <1>1, <1>3, <1>4 DEF Allocated, L!B, L!Old
  <2>5. Numbered("sprites", 0..A.others)'
          = Numbered("sprites", 0..(A.others - 1)) \cup {L!B("sprites", A.others)}
    BY <1>0, <1>1 DEF Numbered, L!B
  <2>6. C.others - 1 = A.others /\ C.others # 0
    BY <1>0, <1>2
  <2>7. L!Old(enemies, C.others)' = {enemies'}
    BY <2>6 DEF L!Old
  <2> QED BY <1>1, <1>2, <1>3, <1>4, <2>1, <2>2, <2>3, <2>4, <2>5, <2>6, <2>7 DEF OthersThere
<1>8. ControllersThere(C)'
  <2>1. Len(ctrl) = 0 /\ ctrl \in Seq([player : Block, index : Int])
    BY DEF There, ControllersThere
  <2>2. Allocated("controllers")' = Allocated("controllers")
        /\ Allocated("positions")' = Allocated("positions")
    BY <1>6 DEF Only
  <2>3. Numbered("positions", 0..(C.ctrls - 1))' = Numbered("positions", 0..(A.ctrls - 1))
        /\ L!Old(controllers, C.ctrls)' = L!Old(controllers, A.ctrls) /\ L!NULL' = L!NULL
    BY <1>1, <1>2 DEF Numbered, L!B, L!Old, L!NULL
  <2> QED BY <1>1, <1>2, <2>1, <2>2, <2>3 DEF There, ControllersThere
<1> HIDE DEF Y
<1>9. MapThere(C)' /\ TableThere(C)' /\ PlayerThere(C)' /\ PickupsThere(C)'
  BY <1>1, <1>2, <1>6, Frame
<1> QED BY <1>5, <1>7, <1>8, <1>9 DEF There, C

\* A controller keeps an address inside enemies.
LEMMA EnemyIs ==
    ASSUME NEW A \in Stage, There(A), L!init_enemy, Head(todo).arg \in 0..(A.others - 1),
           levels \in Nat
    PROVE  There([A EXCEPT !.ctrls = @ + 1])' /\ stale' = stale
<1> DEFINE C == [A EXCEPT !.ctrls = @ + 1]
<1> DEFINE Y == {controllers', L!B("positions", A.ctrls)}
<1> DEFINE new == [player |-> enemies, index |-> Head(todo).arg]
<1>0. A.others \in Nat \ {0} /\ A.ctrls \in Nat
  BY DEF Stage
<1>1. /\ Len(ctrl) = A.ctrls
      /\ controllers' \in L!realloc(controllers, "controllers", A.ctrls)
      /\ L!Reach("init_enemy", L!Old(controllers, A.ctrls) \cup {enemies})
      /\ heap' = (heap \ L!Old(controllers, A.ctrls)) \cup Y
      /\ ctrl' = Append(ctrl, new)
      /\ UNCHANGED <<enemies, num_enemies, pickups, pickups_size, guns, levels>>
  BY DEF L!init_enemy, There, ControllersThere
<1>2. /\ C.map = A.map /\ C.table = A.table /\ C.anims = A.anims /\ C.player = A.player
      /\ C.others = A.others /\ C.ctrls = A.ctrls + 1 /\ C.size = A.size
  BY DEF Stage
<1> HIDE DEF C
<1>3. /\ Allocated("controllers") = L!Old(controllers, A.ctrls)
      /\ (A.ctrls > 0 => controllers[1] = "controllers")
      /\ Allocated("positions") = Numbered("positions", 0..(A.ctrls - 1))
      /\ ctrl \in Seq([player : Block, index : Int])
      /\ \A k \in 1..Len(ctrl) : ctrl[k].player = enemies /\ ctrl[k].index \in 0..(A.others - 1)
  BY <1>0 DEF There, ControllersThere
<1>4. enemies \in heap /\ enemies \in Block
  BY <1>0 DEF There, OthersThere, Allocated, L!Old
<1>5. controllers'[1] = "controllers"
  BY <1>0, <1>1, <1>3 DEF L!realloc, L!B
<1>6. stale' = stale
  <2>1. L!Old(controllers, A.ctrls) \cup {enemies} \subseteq heap
    BY <1>3, <1>4 DEF Allocated
  <2> QED BY <1>1, <2>1, ReachLive
<1>7. Only({"controllers", "positions"})
  <2>1. \A b \in L!Old(controllers, A.ctrls) \cup Y : b[1] \in {"controllers", "positions"}
    BY <1>0, <1>3, <1>5 DEF L!Old, L!B
  <2> HIDE DEF Y
  <2> QED BY <1>1, <2>1, HeapStep
<1>8. ControllersThere(C)'
  <2>1. Allocated("controllers")' = {controllers'}
    BY <1>1, <1>3, <1>5 DEF Allocated, L!B
  <2>2. Allocated("positions")' = Allocated("positions") \cup {L!B("positions", A.ctrls)}
    BY <1>0, <1>1, <1>3, <1>5 DEF Allocated, L!B, L!Old
  <2>3. Numbered("positions", 0..A.ctrls)'
          = Numbered("positions", 0..(A.ctrls - 1)) \cup {L!B("positions", A.ctrls)}
    BY <1>0, <1>1 DEF Numbered, L!B
  <2>4. new \in [player : Block, index : Int]
    BY <1>4
  <2>5. new.player = enemies /\ new.index \in 0..(A.others - 1)
    OBVIOUS
  <2> HIDE DEF new
  <2>6. /\ ctrl' \in Seq([player : Block, index : Int]) /\ Len(ctrl') = A.ctrls + 1
        /\ \A k \in 1..Len(ctrl') : IF k = Len(ctrl) + 1 THEN ctrl'[k] = new
                                    ELSE k \in 1..Len(ctrl) /\ ctrl'[k] = ctrl[k]
    BY <1>1, <1>3, <2>4
  <2>7. \A k \in 1..Len(ctrl') : ctrl'[k].player = enemies /\ ctrl'[k].index \in 0..(A.others - 1)
    BY <1>3, <2>5, <2>6
  <2>8. C.ctrls - 1 = A.ctrls /\ C.ctrls # 0
    BY <1>0, <1>2
  <2>9. L!Old(controllers, C.ctrls)' = {controllers'}
    BY <2>8 DEF L!Old
  <2>10. C.ctrls = A.ctrls + 1 /\ C.others = A.others
    BY <1>2
  <2>11. Allocated("positions")' = Numbered("positions", 0..(C.ctrls - 1))'
    BY <1>3, <2>2, <2>3, <2>8
  <2> QED BY <1>1, <1>5, <2>1, <2>6, <2>7, <2>8, <2>9, <2>10, <2>11 DEF ControllersThere
<1>9. MapThere(C)' /\ TableThere(C)' /\ PlayerThere(C)' /\ OthersThere(C)' /\ PickupsThere(C)'
  <2>1. UNCHANGED <<enemies, num_enemies, pickups, pickups_size, guns, levels>>
    BY <1>1
  <2> QED BY <1>2, <1>7, <2>1, Frame
<1> QED BY <1>6, <1>8, <1>9 DEF There, C

LEMMA PickupIs ==
    ASSUME NEW A \in Stage, There(A), A.table = 1, L!add_pickup, levels \in Nat
    PROVE  There([A EXCEPT !.size = IF @ = 0 THEN 2 ELSE @ + 1])' /\ stale' = stale
<1> DEFINE C == [A EXCEPT !.size = IF @ = 0 THEN 2 ELSE @ + 1]
<1> DEFINE index == IF A.size = 0 THEN 1 ELSE A.size
<1> DEFINE Y == {pickups'} \cup {L!B(k, index) : k \in {"details", "frames", "list"}}
<1>0. A.size \in Nat /\ index \in Nat
  BY DEF Stage
<1>1. /\ pickups_size = A.size /\ pickups_size' = index + 1
      /\ pickups' \in L!realloc(pickups, "pickups", A.size)
      /\ L!Reach("add_pickup", L!Old(pickups, A.size) \cup {L!B("table", 0)})
      /\ heap' = (heap \ L!Old(pickups, A.size)) \cup Y
      /\ UNCHANGED <<enemies, num_enemies, controllers, ctrl, guns, levels>>
  BY DEF L!add_pickup, There, PickupsThere
<1>2. /\ C.map = A.map /\ C.table = A.table /\ C.anims = A.anims /\ C.player = A.player
      /\ C.others = A.others /\ C.ctrls = A.ctrls /\ C.size = index + 1
  <2>1. C.size = IF A.size = 0 THEN 2 ELSE A.size + 1
    BY DEF Stage
  <2>2. C.size = index + 1
    BY <1>0, <2>1
  <2> QED BY <2>2 DEF Stage
<1> HIDE DEF C
<1>3. /\ Allocated("pickups") = L!Old(pickups, A.size)
      /\ (A.size > 0 => pickups[1] = "pickups")
      /\ Allocated("details") = Numbered("details", 1..(A.size - 1))
      /\ Numbered("frames", 1..(A.size - 1)) \subseteq Allocated("frames")
  BY <1>0 DEF There, PickupsThere
<1>4. /\ Allocated("table") = {L!B("table", 0)} /\ Allocated("row") = Numbered("row", 0..(Lines - 1))
      /\ Allocated("list") = Numbered("list", 1..(A.size - 1))
  BY DEF There, TableThere
<1>5. pickups'[1] = "pickups"
  BY <1>0, <1>1, <1>3 DEF L!realloc, L!B
<1>6. stale' = stale
  <2>1. L!Old(pickups, A.size) \cup {L!B("table", 0)} \subseteq heap
    BY <1>3, <1>4 DEF Allocated
  <2> QED BY <1>1, <2>1, ReachLive
<1>7. Only({"pickups", "details", "frames", "list"})
  <2>1. \A b \in L!Old(pickups, A.size) \cup Y : b[1] \in {"pickups", "details", "frames", "list"}
    BY <1>0, <1>3, <1>5 DEF L!Old, L!B
  <2> HIDE DEF Y
  <2> QED BY <1>1, <2>1, HeapStep
<1>8. ASSUME NEW kind \in {"details", "frames", "list"}
      PROVE  /\ Allocated(kind)' = Allocated(kind) \cup {L!B(kind, index)}
             /\ Numbered(kind, 1..index)' = Numbered(kind, 1..(A.size - 1)) \cup {L!B(kind, index)}
  <2>1. L!Old(pickups, A.size) \cap Allocated(kind) = {} /\ pickups'[1] # kind
    BY <1>0, <1>3, <1>5 DEF Allocated, L!Old
  <2>2. L!B(kind, index)[1] = kind
    BY DEF L!B
  <2>3. \A k \in {"details", "frames", "list"} : L!B(k, index)[1] = k
    BY DEF L!B
  <2>4. Allocated(kind)' = Allocated(kind) \cup {L!B(kind, index)}
    <3> HIDE DEF index
    <3> QED BY <1>1, <2>1, <2>2, <2>3 DEF Allocated
  <2>5. 1..index = 1..(A.size - 1) \cup {index}
    BY <1>0
  <2>6. Numbered(kind, 1..index)' = Numbered(kind, 1..(A.size - 1)) \cup {L!B(kind, index)}
    BY <1>1, <2>5 DEF Numbered, L!B
  <2> QED BY <2>4, <2>6
<1> HIDE DEF Y
<1>9. C.size - 1 = index /\ C.size # 0
  BY <1>0, <1>2
<1>10. PickupsThere(C)'
  <2>1. Allocated("pickups")' = {pickups'}
    BY <1>1, <1>3, <1>5 DEF Allocated, L!B, Y
  <2>2. L!Old(pickups, C.size)' = {pickups'}
    BY <1>9 DEF L!Old
  <2> HIDE DEF index
  <2>3. Allocated("details")' = Numbered("details", 1..index)'
    BY <1>3, <1>8
  <2>4. Numbered("frames", 1..index)' \subseteq Allocated("frames")'
    BY <1>3, <1>8
  <2> QED BY <1>1, <1>2, <1>5, <1>9, <2>1, <2>2, <2>3, <2>4 DEF PickupsThere
<1>11. TableThere(C)'
  <2>1. Allocated("table")' = Allocated("table") /\ Allocated("row")' = Allocated("row")
    BY <1>7 DEF Only
  <2> HIDE DEF index
  <2>2. Allocated("list")' = Numbered("list", 1..index)'
    BY <1>4, <1>8
  <2>3. Numbered("row", 0..(Lines - 1))' = Numbered("row", 0..(Lines - 1))
        /\ L!B("table", 0)' = L!B("table", 0)
    BY <1>1 DEF Numbered, L!B
  <2> QED BY <1>2, <1>4, <1>9, <2>1, <2>2, <2>3 DEF TableThere
<1>12. MapThere(C)' /\ PlayerThere(C)' /\ OthersThere(C)' /\ ControllersThere(C)'
  <2>1. UNCHANGED <<enemies, num_enemies, controllers, ctrl, guns, levels>>
    BY <1>1
  <2> HIDE DEF index
  <2> QED BY <1>2, <1>7, <2>1, Frame
<1> QED BY <1>6, <1>10, <1>11, <1>12 DEF There, C

\* The calls of free_level, one by one.
LEMMA CloseMapIs ==
    ASSUME NEW A \in Stage, There(A), A.map = 1, L!close_map
    PROVE  There([A EXCEPT !.map = 0])' /\ stale' = stale
<1> DEFINE C == [A EXCEPT !.map = 0]
<1> DEFINE X == {L!B("matrix", 0)} \cup Numbered("line", 0..(Lines - 1))
<1>1. /\ heap' = (heap \ X) \cup {} /\ L!Reach("close_map", X \cup {})
      /\ UNCHANGED <<enemies, num_enemies, controllers, ctrl, pickups, pickups_size, guns, levels>>
  BY DEF L!close_map, L!Free, Numbered
<1>2. /\ C.map = 0 /\ C.table = A.table /\ C.anims = A.anims /\ C.player = A.player
      /\ C.others = A.others /\ C.ctrls = A.ctrls /\ C.size = A.size
  BY DEF Stage
<1> HIDE DEF C
<1>3. Allocated("matrix") = {L!B("matrix", 0)} /\ Numbered("line", 0..(Lines - 1)) \subseteq Allocated("line")
  BY DEF There, MapThere
<1>4. Only({"matrix", "line"})
  <2>1. \A b \in X \cup {} : b[1] \in {"matrix", "line"}
    BY DEF Numbered, L!B
  <2> HIDE DEF X
  <2> QED BY <1>1, <2>1, HeapStep
<1>5. stale' = stale
  <2>1. X \cup {} \subseteq heap
    BY <1>3 DEF Allocated
  <2> QED BY <1>1, <2>1, ReachLive
<1>6. MapThere(C)'
  BY <1>1, <1>2, <1>3 DEF MapThere, Allocated
<1> HIDE DEF X
<1>7. TableThere(C)' /\ PlayerThere(C)' /\ OthersThere(C)' /\ ControllersThere(C)' /\ PickupsThere(C)'
  BY <1>1, <1>2, <1>4, Frame
<1> QED BY <1>5, <1>6, <1>7 DEF There, C

LEMMA FreePlayersIs ==
    ASSUME NEW A \in Stage, There(A), A.player = 1, L!free_players
    PROVE  There([A EXCEPT !.player = 0, !.others = 0])' /\ stale' = stale
<1> DEFINE C == [A EXCEPT !.player = 0, !.others = 0]
<1> DEFINE X == Numbered("guns", 0..(A.others - 1)) \cup {guns} \cup L!Old(enemies, A.others)
<1>0. A.others \in Nat
  BY DEF Stage
<1>1. /\ heap' = (heap \ X) \cup {} /\ L!Reach("free_players", X \cup {})
      /\ enemies' = L!NULL /\ num_enemies' = 0
      /\ UNCHANGED <<controllers, ctrl, pickups, pickups_size, guns, levels>>
  BY DEF L!free_players, L!Free, Numbered, L!NumIndexes, There, OthersThere
<1>2. /\ C.map = A.map /\ C.table = A.table /\ C.anims = A.anims /\ C.player = 0
      /\ C.others = 0 /\ C.ctrls = A.ctrls /\ C.size = A.size
  BY DEF Stage
<1> HIDE DEF C
<1>3. /\ Allocated("player_guns") = {guns} /\ guns[1] = "player_guns"
      /\ Allocated("enemies") = L!Old(enemies, A.others)
      /\ Allocated("guns") = Numbered("guns", 0..(A.others - 1))
      /\ (A.others # 0 => enemies[1] = "enemies")
  BY DEF There, PlayerThere, OthersThere
<1>4. Only({"player_guns", "enemies", "guns"})
  <2>1. \A b \in X \cup {} : b[1] \in {"player_guns", "enemies", "guns"}
    BY <1>3 DEF Numbered, L!B, L!Old
  <2> HIDE DEF X
  <2> QED BY <1>1, <2>1, HeapStep
<1>5. stale' = stale
  <2>1. X \cup {} \subseteq heap
    BY <1>3 DEF Allocated
  <2> QED BY <1>1, <2>1, ReachLive
<1>6. Allocated("player_guns")' = {} /\ Allocated("enemies")' = {} /\ Allocated("guns")' = {}
  BY <1>1, <1>3 DEF Allocated
<1> HIDE DEF X
<1>7. PlayerThere(C)'
  <2>1. Allocated("animations")' = Allocated("animations")
    BY <1>4 DEF Only
  <2> QED BY <1>1, <1>2, <1>3, <1>6, <2>1 DEF There, PlayerThere, L!B
<1>8. OthersThere(C)'
  <2>1. L!NULL' \in Block /\ L!NULL'[1] = "null" /\ L!NULL' = L!NULL
    BY DEF L!NULL, Block
  <2>2. Numbered("guns", 0..(C.others - 1))' = {} /\ Numbered("sprites", 0..(C.others - 1))' = {}
    BY <1>2 DEF Numbered
  <2>3. L!Old(enemies, C.others)' = {}
    BY <1>2 DEF L!Old
  <2> QED BY <1>1, <1>2, <1>6, <2>1, <2>2, <2>3 DEF OthersThere
<1>9. ControllersThere(C)'
  <2>1. Allocated("controllers")' = Allocated("controllers")
        /\ Allocated("positions")' = Allocated("positions")
    BY <1>4 DEF Only
  <2>2. Numbered("positions", 0..(C.ctrls - 1))' = Numbered("positions", 0..(A.ctrls - 1))
        /\ L!Old(controllers, C.ctrls)' = L!Old(controllers, A.ctrls) /\ L!NULL' = L!NULL
    BY <1>1, <1>2 DEF Numbered, L!B, L!Old, L!NULL
  <2> QED BY <1>1, <1>2, <2>1, <2>2 DEF There, ControllersThere
<1>10. MapThere(C)' /\ TableThere(C)' /\ PickupsThere(C)'
  BY <1>1, <1>2, <1>4, Frame
<1> QED BY <1>5, <1>7, <1>8, <1>9, <1>10 DEF There, C

LEMMA FreeControllersIs ==
    ASSUME NEW A \in Stage, There(A), L!free_controllers
    PROVE  There([A EXCEPT !.ctrls = 0])' /\ stale' = stale
<1> DEFINE C == [A EXCEPT !.ctrls = 0]
<1> DEFINE X == Numbered("positions", 0..(A.ctrls - 1)) \cup L!Old(controllers, A.ctrls)
<1>0. /\ A.ctrls \in Nat /\ ctrl \in Seq([player : Block, index : Int]) /\ Len(ctrl) = A.ctrls
  BY DEF Stage, There, ControllersThere
<1>1. /\ heap' = (heap \ X) \cup {} /\ L!Reach("free_controllers", X \cup {})
      /\ controllers' = L!NULL /\ ctrl' = <<>>
      /\ UNCHANGED <<enemies, num_enemies, pickups, pickups_size, guns, levels>>
  <2>1. {L!B("positions", k - 1) : k \in DOMAIN ctrl} = Numbered("positions", 0..(A.ctrls - 1))
    <3>1. DOMAIN ctrl = 1..A.ctrls
      BY <1>0
    <3>2. ASSUME NEW b, b \in {L!B("positions", k - 1) : k \in 1..A.ctrls}
          PROVE  b \in {L!B("positions", i) : i \in 0..(A.ctrls - 1)}
      BY <1>0, <3>2
    <3>3. ASSUME NEW i \in 0..(A.ctrls - 1)
          PROVE  L!B("positions", i) \in {L!B("positions", k - 1) : k \in 1..A.ctrls}
      <4>1. i + 1 \in 1..A.ctrls /\ (i + 1) - 1 = i
        BY <1>0
      <4> QED BY <4>1
    <3> QED BY <3>1, <3>2, <3>3 DEF Numbered
  <2> QED BY <1>0, <2>1 DEF L!free_controllers, L!Free
<1>2. /\ C.map = A.map /\ C.table = A.table /\ C.anims = A.anims /\ C.player = A.player
      /\ C.others = A.others /\ C.ctrls = 0 /\ C.size = A.size
  BY DEF Stage
<1> HIDE DEF C
<1>3. /\ Allocated("controllers") = L!Old(controllers, A.ctrls)
      /\ Allocated("positions") = Numbered("positions", 0..(A.ctrls - 1))
      /\ (A.ctrls # 0 => controllers[1] = "controllers")
  BY DEF There, ControllersThere
<1>4. Only({"controllers", "positions"})
  <2>1. \A b \in X \cup {} : b[1] \in {"controllers", "positions"}
    BY <1>3 DEF Numbered, L!B, L!Old
  <2> HIDE DEF X
  <2> QED BY <1>1, <2>1, HeapStep
<1>5. stale' = stale
  <2>1. X \cup {} \subseteq heap
    BY <1>3 DEF Allocated
  <2> QED BY <1>1, <2>1, ReachLive
<1>6. Allocated("controllers")' = {} /\ Allocated("positions")' = {}
  BY <1>1, <1>3 DEF Allocated
<1> HIDE DEF X
<1>7. ControllersThere(C)'
  <2>1. L!NULL'[1] = "null" /\ L!NULL' = L!NULL
    BY DEF L!NULL
  <2>2. Numbered("positions", 0..(C.ctrls - 1))' = {} /\ L!Old(controllers, C.ctrls)' = {}
    BY <1>2 DEF Numbered, L!Old
  <2>3. ctrl' \in Seq([player : Block, index : Int]) /\ Len(ctrl') = 0
    BY <1>1
  <2>4. controllers' = L!NULL' /\ controllers'[1] = "null"
    BY <1>1, <2>1
  <2>5. \A k \in 1..Len(ctrl') : FALSE
    BY <2>3
  <2>6. C.ctrls = 0
    BY <1>2
  <2>7. Len(ctrl') = C.ctrls
    BY <2>3, <2>6
  <2> QED BY <1>6, <2>2, <2>3, <2>4, <2>5, <2>6, <2>7 DEF ControllersThere
<1>8. MapThere(C)' /\ TableThere(C)' /\ PlayerThere(C)' /\ OthersThere(C)' /\ PickupsThere(C)'
  <2>1. UNCHANGED <<enemies, num_enemies, pickups, pickups_size, guns, levels>>
    BY <1>1
  <2> QED BY <1>2, <1>4, <2>1, Frame
<1> QED BY <1>5, <1>7, <1>8 DEF There, C

LEMMA FreeTableIs ==
    ASSUME NEW A \in Stage, There(A), A.table = 1, L!free_collision_table
    PROVE  There([A EXCEPT !.table = 0])' /\ stale' = stale
<1> DEFINE C == [A EXCEPT !.table = 0]
<1> DEFINE X == {L!B("table", 0)} \cup Numbered("row", 0..(Lines - 1))
                  \cup Numbered("list", 1..(A.size - 1))
<1>1. /\ heap' = (heap \ X) \cup {} /\ L!Reach("free_collision_table", X \cup {})
      /\ UNCHANGED <<enemies, num_enemies, controllers, ctrl, pickups, pickups_size, guns, levels>>
  BY DEF L!free_collision_table, L!Free, Numbered, There, PickupsThere
<1>2. /\ C.map = A.map /\ C.table = 0 /\ C.anims = A.anims /\ C.player = A.player
      /\ C.others = A.others /\ C.ctrls = A.ctrls /\ C.size = A.size
  BY DEF Stage
<1> HIDE DEF C
<1>3. /\ Allocated("table") = {L!B("table", 0)} /\ Allocated("row") = Numbered("row", 0..(Lines - 1))
      /\ Allocated("list") = Numbered("list", 1..(A.size - 1))
  BY DEF There, TableThere
<1>4. Only({"table", "row", "list"})
  <2>1. \A b \in X \cup {} : b[1] \in {"table", "row", "list"}
    BY DEF Numbered, L!B
  <2> HIDE DEF X
  <2> QED BY <1>1, <2>1, HeapStep
<1>5. stale' = stale
  <2>1. X \cup {} \subseteq heap
    BY <1>3 DEF Allocated
  <2> QED BY <1>1, <2>1, ReachLive
<1>6. TableThere(C)'
  BY <1>1, <1>2, <1>3 DEF TableThere, Allocated
<1> HIDE DEF X
<1>7. MapThere(C)' /\ PlayerThere(C)' /\ OthersThere(C)' /\ ControllersThere(C)' /\ PickupsThere(C)'
  BY <1>1, <1>2, <1>4, Frame
<1> QED BY <1>5, <1>6, <1>7 DEF There, C

\* pickups keeps pointing to what is freed here, and the size says so.
LEMMA FreePickupsIs ==
    ASSUME NEW A \in Stage, There(A), A.size > 0, A.table = 0, L!free_pickups
    PROVE  There([A EXCEPT !.size = 0])' /\ stale' = stale
<1> DEFINE C == [A EXCEPT !.size = 0]
<1> DEFINE X == Numbered("details", 1..(A.size - 1)) \cup {pickups}
<1>3. /\ Allocated("pickups") = {pickups} /\ pickups[1] = "pickups"
      /\ Allocated("details") = Numbered("details", 1..(A.size - 1))
  BY DEF There, PickupsThere, L!Old, Stage
<1>1. /\ heap' = (heap \ X) \cup {} /\ L!Reach("free_pickups", X \cup {})
      /\ pickups_size' = 0
      /\ UNCHANGED <<enemies, num_enemies, controllers, ctrl, pickups, guns, levels>>
  <2>1. pickups # L!NULL
    BY <1>3 DEF L!NULL
  <2>2. {pickups} \ {L!NULL} = {pickups}
    BY <2>1
  <2>3. pickups_size = A.size
    BY DEF There, PickupsThere
  <2> QED BY <2>2, <2>3 DEF L!free_pickups, L!Free, Numbered
<1>2. /\ C.map = A.map /\ C.table = A.table /\ C.anims = A.anims /\ C.player = A.player
      /\ C.others = A.others /\ C.ctrls = A.ctrls /\ C.size = 0
  BY DEF Stage
<1> HIDE DEF C
<1>4. Only({"pickups", "details"})
  <2>1. \A b \in X \cup {} : b[1] \in {"pickups", "details"}
    BY <1>3 DEF Numbered, L!B
  <2> HIDE DEF X
  <2> QED BY <1>1, <2>1, HeapStep
<1>5. stale' = stale
  <2>1. X \cup {} \subseteq heap
    BY <1>3 DEF Allocated
  <2> QED BY <1>1, <2>1, ReachLive
<1>6. Allocated("pickups")' = {} /\ Allocated("details")' = {}
  BY <1>1, <1>3 DEF Allocated
<1> HIDE DEF X
<1>7. PickupsThere(C)'
  <2>1. Numbered("details", 1..(C.size - 1))' = {} /\ Numbered("frames", 1..(C.size - 1))' = {}
        /\ L!Old(pickups, C.size)' = {}
    BY <1>2 DEF Numbered, L!Old
  <2> QED BY <1>1, <1>2, <1>3, <1>6, <2>1 DEF PickupsThere
<1>8. TableThere(C)'
  <2>1. /\ Allocated("table")' = Allocated("table") /\ Allocated("row")' = Allocated("row")
        /\ Allocated("list")' = Allocated("list")
    BY <1>4 DEF Only
  <2> QED BY <1>2, <2>1 DEF There, TableThere
<1>9. MapThere(C)' /\ PlayerThere(C)' /\ OthersThere(C)' /\ ControllersThere(C)'
  BY <1>1, <1>2, <1>4, Frame
<1> QED BY <1>5, <1>7, <1>8, <1>9 DEF There, C

\* A tick reaches nothing else than what a complete level has.
LEMMA TickIs ==
    ASSUME NEW A \in Stage, There(A), Complete(A), L!game_handler
    PROVE  stale' = stale
<1> DEFINE reached ==
         {guns, L!B("matrix", 0), L!B("table", 0), L!B("row", 0), L!B("animations", 0)}
         \cup L!Old(enemies, num_enemies) \cup {L!B("guns", i) : i \in L!NumIndexes}
         \cup {L!B("sprites", i) : i \in L!NumIndexes}
         \cup L!Old(controllers, Len(ctrl)) \cup {ctrl[k].player : k \in DOMAIN ctrl}
         \cup {L!B("positions", k - 1) : k \in DOMAIN ctrl}
         \cup L!Old(pickups, pickups_size)
         \cup {L!B(kind, i) : kind \in {"details", "frames"}, i \in 1..(pickups_size - 1)}
<1>1. L!Reach("game_handler", reached)
  BY DEF L!game_handler
<1>2. {guns, L!B("matrix", 0), L!B("table", 0), L!B("row", 0), L!B("animations", 0)} \subseteq heap
  <2>1. L!B("row", 0) \in Numbered("row", 0..(Lines - 1))
    BY GameInstances DEF Numbered, L!LevelConstants
  <2> QED BY <2>1 DEF Complete, There, MapThere, TableThere, PlayerThere, Allocated
<1>3. /\ L!Old(enemies, num_enemies) \subseteq heap /\ {L!B("guns", i) : i \in L!NumIndexes} \subseteq heap
      /\ {L!B("sprites", i) : i \in L!NumIndexes} \subseteq heap
  BY DEF There, OthersThere, Numbered, L!NumIndexes, Allocated
<1>4. L!Old(controllers, Len(ctrl)) \subseteq heap
  BY DEF There, ControllersThere, Allocated
<1>5. DOMAIN ctrl = 1..A.ctrls /\ A.ctrls \in Nat
  BY DEF There, ControllersThere, Stage
<1>6. {L!B("positions", k - 1) : k \in DOMAIN ctrl} \subseteq heap
  <2>1. ASSUME NEW k \in 1..A.ctrls PROVE L!B("positions", k - 1) \in heap
    <3>1. k - 1 \in 0..(A.ctrls - 1)
      BY <1>5
    <3> QED BY <3>1 DEF There, ControllersThere, Numbered, Allocated
  <2> QED BY <1>5, <2>1
<1>7. {ctrl[k].player : k \in DOMAIN ctrl} \subseteq heap
  <2>1. ASSUME NEW k \in 1..A.ctrls PROVE ctrl[k].player \in heap
    <3>1. Len(ctrl) = A.ctrls
      BY DEF There, ControllersThere
    <3>2. CASE A.others > 0
      <4>1. ctrl[k].player = enemies
        BY <3>1, <3>2 DEF There, ControllersThere
      <4>2. enemies \in heap
        BY <3>2 DEF There, OthersThere, L!Old, Allocated, Stage
      <4> QED BY <4>1, <4>2
    <3>3. CASE A.others = 0
      BY <3>3, <1>5 DEF Complete
    <3> QED BY <3>2, <3>3 DEF Stage
  <2> QED BY <1>5, <2>1
<1>8. /\ L!Old(pickups, pickups_size) \subseteq heap
      /\ {L!B(kind, i) : kind \in {"details", "frames"}, i \in 1..(pickups_size - 1)} \subseteq heap
  BY DEF There, PickupsThere, Numbered, Allocated
<1>9. reached \subseteq heap
  BY <1>2, <1>3, <1>4, <1>6, <1>7, <1>8
<1> HIDE DEF reached
<1> QED BY <1>1, <1>9, ReachLive

\* The last call looks up freed memory; it goes through, or the program stops.
LEMMA GunAnimsIs ==
    ASSUME NEW A \in Stage, There(A), L!free_gun_anims, OnlyGunAnims
    PROVE  There([A EXCEPT !.anims = 0])' /\ OnlyGunAnims'
<1> DEFINE C == [A EXCEPT !.anims = 0]
<1>1. UNCHANGED <<enemies, num_enemies, controllers, ctrl, pickups, pickups_size, guns, levels>>
  BY DEF L!free_gun_anims
<1>2. /\ C.map = A.map /\ C.table = A.table /\ C.anims = 0 /\ C.player = A.player
      /\ C.others = A.others /\ C.ctrls = A.ctrls /\ C.size = A.size
  BY DEF Stage
<1> HIDE DEF C
<1>3. PICK X, read : /\ heap' = (heap \ X) \cup {} /\ \A b \in X \cup {} : b[1] \in {"animations"}
                     /\ L!Reach("free_gun_anims", X \cup read)
  <2>1. \A b \in {L!B("animations", i) : i \in 0..2} \cup {} : b[1] \in {"animations"}
    BY DEF L!B
  <2>2. CASE L!Free("free_gun_anims", {L!B("animations", i) : i \in 0..2}, {guns})
    BY <2>1, <2>2 DEF L!Free
  <2>3. CASE L!Free("free_gun_anims", {}, {guns})
    BY <2>3 DEF L!Free
  <2> QED BY <2>2, <2>3 DEF L!free_gun_anims
<1>4. Only({"animations"})
  BY <1>3, HeapStep
<1>5. OnlyGunAnims'
  <2>1. ASSUME NEW s \in stale' PROVE s[1] = "free_gun_anims"
    <3>1. CASE s \in stale
      BY <3>1 DEF OnlyGunAnims
    <3>2. CASE \E b : s = <<"free_gun_anims", b>>
      BY <3>2
    <3> QED BY <1>3, <2>1, <3>1, <3>2 DEF L!Reach
  <2> QED BY <2>1 DEF OnlyGunAnims
<1>6. PlayerThere(C)'
  <2>1. Allocated("player_guns")' = Allocated("player_guns")
    BY <1>4 DEF Only
  <2> QED BY <1>1, <1>2, <2>1 DEF There, PlayerThere
<1>7. MapThere(C)' /\ TableThere(C)' /\ OthersThere(C)' /\ ControllersThere(C)' /\ PickupsThere(C)'
  BY <1>1, <1>2, <1>4, Frame
<1> QED BY <1>5, <1>6, <1>7 DEF There, C

-----------------------------------------------------------------------------
\* A call that keeps its promise at every stage in which it is ready leaves the
\* rest of the calls ready, too.
LEMMA CallKeeps ==
    ASSUME LevelInv, todo # <<>>, todo' = Tail(todo), UNCHANGED <<playing, levels>>,
           \A A, C \in Stage : There(A) /\ Ready(A, Head(todo)) /\ C = After(A, Head(todo))
                                 => There(C)' /\ OnlyGunAnims'
    PROVE  LevelInv'
<1>1. PICK f : Leads(f, todo) /\ There(f[1]) /\ Ends(f[Len(todo) + 1])
  BY DEF LevelInv
<1>2. /\ todo \in Seq(L!Call) /\ Len(todo) \in Nat \ {0} /\ Head(todo) = todo[1]
      /\ todo' \in Seq(L!Call) /\ Len(todo') = Len(todo) - 1
      /\ \A k \in 1..Len(todo') : todo'[k] = todo[k + 1]
  BY DEF LevelInv
<1>0. PICK gs : gs = [k \in 1..Len(todo) |-> f[k + 1]]
  OBVIOUS
<1>3. /\ f \in [1..(Len(todo) + 1) -> Stage]
      /\ \A k \in 1..Len(todo) : Ready(f[k], todo[k]) /\ f[k + 1] = After(f[k], todo[k])
  BY <1>1 DEF Leads
<1>4. f[1] \in Stage /\ f[2] \in Stage /\ Ready(f[1], Head(todo)) /\ f[2] = After(f[1], Head(todo))
  <2>1. 1 \in 1..Len(todo) /\ {1, 2} \subseteq 1..(Len(todo) + 1) /\ 1 + 1 = 2
    BY <1>2
  <2> QED BY <1>2, <1>3, <2>1
<1>5. There(f[2])' /\ OnlyGunAnims'
  BY <1>1, <1>4
<1>6. Len(todo') + 1 = Len(todo)
  BY <1>2
<1>7. gs \in [1..(Len(todo') + 1) -> Stage]
  <2>1. ASSUME NEW k \in 1..Len(todo) PROVE f[k + 1] \in Stage
    <3>1. k + 1 \in 1..(Len(todo) + 1)
      BY <1>2
    <3> QED BY <1>3, <3>1
  <2> QED BY <1>0, <1>6, <2>1
<1>8. ASSUME NEW k \in 1..Len(todo')
      PROVE  Ready(gs[k], todo'[k]) /\ gs[k + 1] = After(gs[k], todo'[k])
  <2>1. k \in 1..Len(todo) /\ k + 1 \in 1..Len(todo)
    BY <1>2
  <2>2. gs[k] = f[k + 1] /\ gs[k + 1] = f[(k + 1) + 1] /\ todo'[k] = todo[k + 1]
    BY <1>0, <1>2, <2>1
  <2> QED BY <1>3, <2>1, <2>2
<1>9. Leads(gs, todo)'
  <2>1. Leads(gs, todo')
    BY <1>7, <1>8 DEF Leads
  <2> QED BY <2>1 DEF Leads
<1>10. gs[1] = f[2] /\ gs[Len(todo') + 1] = f[Len(todo) + 1]
  <2>1. 1 \in 1..Len(todo) /\ Len(todo) \in 1..Len(todo) /\ 1 + 1 = 2
    BY <1>2
  <2> QED BY <1>0, <1>6, <2>1
<1>11. There(gs[1])'
  BY <1>5, <1>10
<1>13. Ends(gs[Len(todo) + 1])'
  BY <1>1, <1>10 DEF Ends
<1>12. AnimsLast'
  <2>1. ASSUME NEW k \in 1..Len(todo'), todo'[k].fun = "free_gun_anims" PROVE k = Len(todo')
    <3>1. k + 1 \in 1..Len(todo) /\ todo[k + 1].fun = "free_gun_anims"
      BY <1>2, <2>1
    <3>2. k + 1 = Len(todo)
      BY <3>1 DEF LevelInv, AnimsLast
    <3>3. k + 1 = Len(todo') + 1
      BY <1>6, <3>2, Zenon
    <3>4. Len(todo') \in Nat
      BY <1>2
    <3> QED BY <3>3, <3>4
  <2> QED BY <2>1 DEF AnimsLast
<1> QED BY <1>2, <1>5, <1>9, <1>11, <1>12, <1>13 DEF LevelInv, L!Call, L!Function

\* Every call keeps its promise.
LEMMA LoadCallsKeep ==
    ASSUME LevelInv,
           L!load_map \/ L!init_collision_table \/ L!init_guns \/ L!init_player \/ L!init_enemy
             \/ L!add_pickup
    PROVE  LevelInv'
<1>0. levels \in Nat /\ OnlyGunAnims
  BY DEF LevelInv
<1>1. CASE L!load_map
  <2>1. /\ todo # <<>> /\ Head(todo).fun = "load_map" /\ todo' = Tail(todo)
        /\ UNCHANGED <<playing, levels>>
    BY <1>1 DEF L!load_map, L!Calls
  <2>2. ASSUME NEW A \in Stage, There(A)
        PROVE  There([A EXCEPT !.map = 1])' /\ OnlyGunAnims'
    <3>2. stale' = stale /\ There([A EXCEPT !.map = 1])'
      BY <1>0, <1>1, <2>2, LoadMapIs
    <3> QED BY <1>0, <3>2 DEF OnlyGunAnims
  <2>3. \A A : After(A, Head(todo)) = [A EXCEPT !.map = 1]
    BY <2>1 DEF After
  <2> QED BY <2>1, <2>2, <2>3, CallKeeps
<1>2. CASE L!init_collision_table
  <2>1. /\ todo # <<>> /\ Head(todo).fun = "init_collision_table" /\ todo' = Tail(todo)
        /\ UNCHANGED <<playing, levels>>
    BY <1>2 DEF L!init_collision_table, L!Calls
  <2>2. ASSUME NEW A \in Stage, There(A), Ready(A, Head(todo))
        PROVE  There([A EXCEPT !.table = 1])' /\ OnlyGunAnims'
    <3>1. A.size = 0
      BY <2>1, <2>2 DEF Ready
    <3>2. stale' = stale /\ There([A EXCEPT !.table = 1])'
      BY <1>0, <1>2, <2>2, <3>1, InitTableIs
    <3> QED BY <1>0, <3>2 DEF OnlyGunAnims
  <2>3. \A A : After(A, Head(todo)) = [A EXCEPT !.table = 1]
    BY <2>1 DEF After
  <2> QED BY <2>1, <2>2, <2>3, CallKeeps
<1>3. CASE L!init_guns
  <2>1. /\ todo # <<>> /\ Head(todo).fun = "init_guns" /\ todo' = Tail(todo)
        /\ UNCHANGED <<playing, levels>>
    BY <1>3 DEF L!init_guns, L!Calls
  <2>2. ASSUME NEW A \in Stage, There(A)
        PROVE  There([A EXCEPT !.anims = 1])' /\ OnlyGunAnims'
    <3>2. stale' = stale /\ There([A EXCEPT !.anims = 1])'
      BY <1>0, <1>3, <2>2, InitGunsIs
    <3> QED BY <1>0, <3>2 DEF OnlyGunAnims
  <2>3. \A A : After(A, Head(todo)) = [A EXCEPT !.anims = 1]
    BY <2>1 DEF After
  <2> QED BY <2>1, <2>2, <2>3, CallKeeps
<1>4. CASE L!init_enemy
  <2>1. /\ todo # <<>> /\ Head(todo).fun = "init_enemy" /\ todo' = Tail(todo)
        /\ UNCHANGED <<playing, levels>>
    BY <1>4 DEF L!init_enemy, L!Calls
  <2>2. ASSUME NEW A \in Stage, There(A), Ready(A, Head(todo))
        PROVE  There([A EXCEPT !.ctrls = @ + 1])' /\ OnlyGunAnims'
    <3>1. Head(todo).arg \in 0..(A.others - 1)
      BY <2>1, <2>2 DEF Ready
    <3>2. stale' = stale /\ There([A EXCEPT !.ctrls = @ + 1])'
      BY <1>0, <1>4, <2>2, <3>1, EnemyIs
    <3> QED BY <1>0, <3>2 DEF OnlyGunAnims
  <2>3. \A A : After(A, Head(todo)) = [A EXCEPT !.ctrls = @ + 1]
    BY <2>1 DEF After
  <2> QED BY <2>1, <2>2, <2>3, CallKeeps
<1>5. CASE L!add_pickup
  <2>1. /\ todo # <<>> /\ Head(todo).fun = "add_pickup" /\ todo' = Tail(todo)
        /\ UNCHANGED <<playing, levels>>
    BY <1>5 DEF L!add_pickup, L!Calls
  <2>2. ASSUME NEW A \in Stage, There(A), Ready(A, Head(todo))
        PROVE  There([A EXCEPT !.size = IF @ = 0 THEN 2 ELSE @ + 1])' /\ OnlyGunAnims'
    <3>1. A.table = 1
      BY <2>1, <2>2 DEF Ready
    <3>2. stale' = stale /\ There([A EXCEPT !.size = IF @ = 0 THEN 2 ELSE @ + 1])'
      BY <1>0, <1>5, <2>2, <3>1, PickupIs
    <3> QED BY <1>0, <3>2 DEF OnlyGunAnims
  <2>3. \A A : After(A, Head(todo)) = [A EXCEPT !.size = IF @ = 0 THEN 2 ELSE @ + 1]
    BY <2>1 DEF After
  <2> QED BY <2>1, <2>2, <2>3, CallKeeps
<1>6. CASE L!init_player
  <2>1. /\ todo # <<>> /\ Head(todo).fun = "init_player" /\ todo' = Tail(todo)
        /\ UNCHANGED <<playing, levels>>
    BY <1>6 DEF L!init_player, L!Calls
  <2>2. CASE Head(todo).arg = L!PLAYER
    <3>1. ASSUME NEW A \in Stage, There(A), Ready(A, Head(todo))
          PROVE  There([A EXCEPT !.player = 1])' /\ OnlyGunAnims'
      <4>1. A.player = 0
        BY <2>1, <2>2, <3>1 DEF Ready
      <4>2. stale' = stale /\ There([A EXCEPT !.player = 1])'
        BY <1>6, <2>2, <3>1, <4>1, PlayerIs
      <4> QED BY <1>0, <4>2 DEF OnlyGunAnims
    <3>2. \A A : After(A, Head(todo)) = [A EXCEPT !.player = 1]
      BY <2>1, <2>2 DEF After
    <3> QED BY <2>1, <3>1, <3>2, CallKeeps
  <2>3. CASE Head(todo).arg = L!OTHER_PLAYER
    <3>1. ASSUME NEW A \in Stage, There(A), Ready(A, Head(todo))
          PROVE  There([A EXCEPT !.others = @ + 1])' /\ OnlyGunAnims'
      <4>1. A.ctrls = 0
        BY <2>1, <2>3, <3>1 DEF Ready
      <4>2. stale' = stale /\ There([A EXCEPT !.others = @ + 1])'
        BY <1>0, <1>6, <2>3, <3>1, <4>1, OtherIs
      <4> QED BY <1>0, <4>2 DEF OnlyGunAnims
    <3>2. \A A : After(A, Head(todo)) = [A EXCEPT !.others = @ + 1]
      BY <2>1, <2>3 DEF After, L!PLAYER, L!OTHER_PLAYER
    <3> QED BY <2>1, <3>1, <3>2, CallKeeps
  <2> QED BY <1>6, <2>2, <2>3 DEF L!init_player
<1> QED BY <1>1, <1>2, <1>3, <1>4, <1>5, <1>6

LEMMA FreeCallsKeep ==
    ASSUME LevelInv,
           L!close_map \/ L!free_players \/ L!free_controllers \/ L!free_collision_table
             \/ L!free_pickups \/ L!free_gun_anims
    PROVE  LevelInv'
<1>0. levels \in Nat /\ OnlyGunAnims
  BY DEF LevelInv
<1>1. CASE L!close_map
  <2>1. /\ todo # <<>> /\ Head(todo).fun = "close_map" /\ todo' = Tail(todo)
        /\ UNCHANGED <<playing, levels>>
    BY <1>1 DEF L!close_map, L!Calls
  <2>2. ASSUME NEW A \in Stage, There(A), Ready(A, Head(todo))
        PROVE  There([A EXCEPT !.map = 0])' /\ OnlyGunAnims'
    <3>1. A.map = 1
      BY <2>1, <2>2 DEF Ready
    <3>2. stale' = stale /\ There([A EXCEPT !.map = 0])'
      BY <1>0, <1>1, <2>2, <3>1, CloseMapIs
    <3> QED BY <1>0, <3>2 DEF OnlyGunAnims
  <2>3. \A A : After(A, Head(todo)) = [A EXCEPT !.map = 0]
    BY <2>1 DEF After
  <2> QED BY <2>1, <2>2, <2>3, CallKeeps
<1>2. CASE L!free_players
  <2>1. /\ todo # <<>> /\ Head(todo).fun = "free_players" /\ todo' = Tail(todo)
        /\ UNCHANGED <<playing, levels>>
    BY <1>2 DEF L!free_players, L!Calls
  <2>2. ASSUME NEW A \in Stage, There(A), Ready(A, Head(todo))
        PROVE  There([A EXCEPT !.player = 0, !.others = 0])' /\ OnlyGunAnims'
    <3>1. A.player = 1
      BY <2>1, <2>2 DEF Ready
    <3>2. stale' = stale /\ There([A EXCEPT !.player = 0, !.others = 0])'
      BY <1>0, <1>2, <2>2, <3>1, FreePlayersIs
    <3> QED BY <1>0, <3>2 DEF OnlyGunAnims
  <2>3. \A A : After(A, Head(todo)) = [A EXCEPT !.player = 0, !.others = 0]
    BY <2>1 DEF After
  <2> QED BY <2>1, <2>2, <2>3, CallKeeps
<1>3. CASE L!free_controllers
  <2>1. /\ todo # <<>> /\ Head(todo).fun = "free_controllers" /\ todo' = Tail(todo)
        /\ UNCHANGED <<playing, levels>>
    BY <1>3 DEF L!free_controllers, L!Calls
  <2>2. ASSUME NEW A \in Stage, There(A)
        PROVE  There([A EXCEPT !.ctrls = 0])' /\ OnlyGunAnims'
    <3>2. stale' = stale /\ There([A EXCEPT !.ctrls = 0])'
      BY <1>0, <1>3, <2>2, FreeControllersIs
    <3> QED BY <1>0, <3>2 DEF OnlyGunAnims
  <2>3. \A A : After(A, Head(todo)) = [A EXCEPT !.ctrls = 0]
    BY <2>1 DEF After
  <2> QED BY <2>1, <2>2, <2>3, CallKeeps
<1>4. CASE L!free_collision_table
  <2>1. /\ todo # <<>> /\ Head(todo).fun = "free_collision_table" /\ todo' = Tail(todo)
        /\ UNCHANGED <<playing, levels>>
    BY <1>4 DEF L!free_collision_table, L!Calls
  <2>2. ASSUME NEW A \in Stage, There(A), Ready(A, Head(todo))
        PROVE  There([A EXCEPT !.table = 0])' /\ OnlyGunAnims'
    <3>1. A.table = 1
      BY <2>1, <2>2 DEF Ready
    <3>2. stale' = stale /\ There([A EXCEPT !.table = 0])'
      BY <1>0, <1>4, <2>2, <3>1, FreeTableIs
    <3> QED BY <1>0, <3>2 DEF OnlyGunAnims
  <2>3. \A A : After(A, Head(todo)) = [A EXCEPT !.table = 0]
    BY <2>1 DEF After
  <2> QED BY <2>1, <2>2, <2>3, CallKeeps
<1>5. CASE L!free_pickups
  <2>1. /\ todo # <<>> /\ Head(todo).fun = "free_pickups" /\ todo' = Tail(todo)
        /\ UNCHANGED <<playing, levels>>
    BY <1>5 DEF L!free_pickups, L!Calls
  <2>2. ASSUME NEW A \in Stage, There(A), Ready(A, Head(todo))
        PROVE  There([A EXCEPT !.size = 0])' /\ OnlyGunAnims'
    <3>1. A.size > 0 /\ A.table = 0
      BY <2>1, <2>2 DEF Ready
    <3>2. stale' = stale /\ There([A EXCEPT !.size = 0])'
      BY <1>0, <1>5, <2>2, <3>1, FreePickupsIs
    <3> QED BY <1>0, <3>2 DEF OnlyGunAnims
  <2>3. \A A : After(A, Head(todo)) = [A EXCEPT !.size = 0]
    BY <2>1 DEF After
  <2> QED BY <2>1, <2>2, <2>3, CallKeeps
<1>6. CASE L!free_gun_anims
  <2>1. /\ todo # <<>> /\ Head(todo).fun = "free_gun_anims" /\ UNCHANGED <<playing, levels>>
    BY <1>6 DEF L!free_gun_anims, L!Calls
  <2>2. ASSUME NEW A \in Stage, There(A)
        PROVE  There([A EXCEPT !.anims = 0])' /\ OnlyGunAnims'
    BY <1>0, <1>6, <2>2, GunAnimsIs
  <2>3. \A A : After(A, Head(todo)) = [A EXCEPT !.anims = 0]
    BY <2>1 DEF After
  <2>4. CASE todo' = Tail(todo)
    BY <2>1, <2>2, <2>3, <2>4, CallKeeps
  <2>5. CASE todo' = <<L!Do("abort")>>
    <3>1. PICK f : Leads(f, todo) /\ There(f[1]) /\ Ends(f[Len(todo) + 1])
      BY DEF LevelInv
    <3>2. Len(todo) \in Nat \ {0} /\ Head(todo) = todo[1]
      BY <2>1 DEF LevelInv
    <3>3. Len(todo) = 1
      <4>1. 1 \in 1..Len(todo) /\ todo[1].fun = "free_gun_anims"
        BY <2>1, <3>2
      <4> QED BY <4>1 DEF LevelInv, AnimsLast
    <3>4. f[1] \in Stage /\ f[2] \in Stage /\ f[2] = [f[1] EXCEPT !.anims = 0]
      BY <2>3, <3>1, <3>2, <3>3 DEF Leads
    <3>5. There(f[2])' /\ OnlyGunAnims'
      BY <2>2, <3>1, <3>4
    <3>6. PICK gs : gs = [k \in 1..2 |-> f[2]]
      OBVIOUS
    <3>7. /\ todo' \in Seq(L!Call) /\ Len(todo') = 1 /\ todo'[1] = L!Do("abort")
      <4>1. L!Do("abort") \in L!Call
        BY DEF L!Do, L!Call, L!Function
      <4> QED BY <2>5, <4>1
    <3>8. Ready(f[2], L!Do("abort")) /\ After(f[2], L!Do("abort")) = f[2]
      BY DEF Ready, After, L!Do
    <3>9. Leads(gs, todo')
      <4>1. Len(todo') + 1 = 2 /\ 1..Len(todo') = {1}
        BY <3>7
      <4>2. gs \in [1..(Len(todo') + 1) -> Stage]
        BY <3>4, <3>6, <4>1
      <4>3. gs[1] = f[2] /\ gs[1 + 1] = f[2]
        BY <3>6
      <4> QED BY <3>7, <3>8, <4>1, <4>2, <4>3 DEF Leads
    <3>10. Ends(gs[Len(todo) + 1])'
      BY <2>1, <3>1, <3>3, <3>6, <3>7 DEF Ends
    <3>11. There(gs[1])'
      BY <3>5, <3>6
    <3>12. AnimsLast'
      BY <3>7 DEF AnimsLast
    <3>13. Leads(gs, todo)'
      BY <3>9 DEF Leads
    <3> QED BY <2>1, <3>5, <3>7, <3>10, <3>11, <3>12, <3>13 DEF LevelInv, L!Call, L!Function
  <2> QED BY <1>6, <2>4, <2>5 DEF L!free_gun_anims, L!Calls
<1> QED BY <1>1, <1>2, <1>3, <1>4, <1>5, <1>6

-----------------------------------------------------------------------------
\* Loading starts where freeing ends ...
LoadCalls == <<L!Do("load_map"), L!Do("init_collision_table"), L!Do("init_guns")>>

\* A list of calls that builds a complete level.
Builds(calls) ==
    /\ calls \in Seq(L!Call)
    /\ \A k \in 1..Len(calls) : calls[k].fun # "free_gun_anims"
    /\ \E f : Leads(f, calls) /\ f[1] = NoLevel /\ Complete(f[Len(calls) + 1])

LEMMA NoLevelIsStage == NoLevel \in Stage
  BY GameInstances DEF NoLevel, Stage, L!People, L!LevelConstants

LEMMA LoadLevelKeeps ==
    ASSUME LevelInv, NEW setup, L!load_level(setup), Builds(LoadCalls \o setup)
    PROVE  LevelInv'
<1>1. /\ todo = <<>> /\ ~playing /\ levels < MaxLevels /\ todo' = LoadCalls \o setup
      /\ playing' = TRUE /\ levels' = levels + 1
      /\ UNCHANGED <<heap, enemies, num_enemies, controllers, ctrl, pickups, pickups_size,
                     guns, stale>>
  BY DEF L!load_level, LoadCalls
<1>2. PICK f : Leads(f, todo) /\ There(f[1]) /\ Ends(f[Len(todo) + 1])
  BY DEF LevelInv
<1>3. There(NoLevel)
  <2>1. Len(todo) + 1 = 1
    BY <1>1
  <2> QED BY <1>1, <1>2, <2>1 DEF Ends
<1>4. PICK gs : Leads(gs, todo') /\ gs[1] = NoLevel /\ Complete(gs[Len(todo') + 1])
  BY <1>1 DEF Builds
<1>5. There(NoLevel)'
  <2>1. /\ NoLevel.map = 0 /\ NoLevel.table = 0 /\ NoLevel.anims = 0
        /\ NoLevel.player = 0 /\ NoLevel.others = 0 /\ NoLevel.ctrls = 0 /\ NoLevel.size = 0
    BY DEF NoLevel
  <2>2. /\ \A kind : Allocated(kind)' = Allocated(kind)
        /\ \A kind : Numbered(kind, 0..(0 - 1)) = {} /\ Numbered(kind, 1..(0 - 1)) = {}
        /\ \A kind : Numbered(kind, 0..(0 - 1))' = {} /\ Numbered(kind, 1..(0 - 1))' = {}
    BY <1>1 DEF Allocated, Numbered
  <2> HIDE DEF NoLevel
  <2>3. MapThere(NoLevel)' /\ TableThere(NoLevel)' /\ PlayerThere(NoLevel)'
    BY <1>1, <1>3, <2>1, <2>2 DEF There, MapThere, TableThere, PlayerThere
  <2>4. OthersThere(NoLevel)'
    BY <1>1, <1>3, <2>1, <2>2 DEF There, OthersThere, L!Old, L!NULL
  <2>5. ControllersThere(NoLevel)'
    BY <1>1, <1>3, <2>1, <2>2 DEF There, ControllersThere, L!Old, L!NULL
  <2>6. PickupsThere(NoLevel)'
    BY <1>1, <1>3, <2>1, <2>2 DEF There, PickupsThere, L!Old
  <2> QED BY <2>3, <2>4, <2>5, <2>6 DEF There
<1>6. levels' \in 0..MaxLevels
  BY <1>1, GameInstances DEF LevelInv, L!LevelConstants
<1>7. OnlyGunAnims' /\ AnimsLast'
  BY <1>1 DEF LevelInv, OnlyGunAnims, AnimsLast, Builds
<1>8. Leads(gs, todo)' /\ Ends(gs[Len(todo) + 1])' /\ There(gs[1])'
  BY <1>1, <1>4, <1>5 DEF Leads, Ends
<1>9. todo' \in Seq(L!Call)
  BY <1>1 DEF Builds
<1> QED BY <1>1, <1>6, <1>7, <1>8, <1>9 DEF LevelInv, L!Call, L!Function


\* A stage by its fields.
At(m, t, a, p, o, c, s) ==
    [map |-> m, table |-> t, anims |-> a, player |-> p, others |-> o, ctrls |-> c, size |-> s]

LEMMA AtFields ==
    ASSUME NEW m \in 0..1, NEW t \in 0..1, NEW a \in 0..1, NEW p \in 0..1,
           NEW o \in 0..L!People, NEW c \in 0..L!People, NEW s \in 0..(Items + 5)
    PROVE  /\ At(m, t, a, p, o, c, s) \in Stage
           /\ At(m, t, a, p, o, c, s).map = m /\ At(m, t, a, p, o, c, s).table = t
           /\ At(m, t, a, p, o, c, s).anims = a /\ At(m, t, a, p, o, c, s).player = p
           /\ At(m, t, a, p, o, c, s).others = o /\ At(m, t, a, p, o, c, s).ctrls = c
           /\ At(m, t, a, p, o, c, s).size = s
  BY DEF At, Stage

\* What each call changes.
LEMMA AtAfter ==
    ASSUME NEW m, NEW t, NEW a, NEW p, NEW o, NEW c, NEW s, NEW call
    PROVE  LET then == After(At(m, t, a, p, o, c, s), call) IN
           /\ call.fun = "load_map" => then = At(1, t, a, p, o, c, s)
           /\ call.fun = "init_collision_table" => then = At(m, 1, a, p, o, c, s)
           /\ call.fun = "init_guns" => then = At(m, t, 1, p, o, c, s)
           /\ call.fun = "init_enemy" => then = At(m, t, a, p, o, c + 1, s)
           /\ call.fun = "add_pickup" => then = At(m, t, a, p, o, c, (IF s = 0 THEN 2 ELSE s + 1))
           /\ call.fun = "close_map" => then = At(0, t, a, p, o, c, s)
           /\ call.fun = "free_controllers" => then = At(m, t, a, p, o, 0, s)
           /\ call.fun = "free_collision_table" => then = At(m, 0, a, p, o, c, s)
           /\ call.fun = "free_pickups" => then = At(m, t, a, p, o, c, 0)
           /\ call.fun = "free_gun_anims" => then = At(m, t, 0, p, o, c, s)
           /\ call.fun = "free_players" => then = At(m, t, a, 0, 0, c, s)
           /\ call.fun = "init_player" /\ call.arg = L!PLAYER => then = At(m, t, a, 1, o, c, s)
           /\ call.fun = "init_player" /\ call.arg = L!OTHER_PLAYER => then = At(m, t, a, p, o + 1, c, s)
<1>1. call.fun = "load_map" => After(At(m, t, a, p, o, c, s), call) = At(1, t, a, p, o, c, s)
  BY DEF After, At
<1>2. call.fun = "init_collision_table" => After(At(m, t, a, p, o, c, s), call) = At(m, 1, a, p, o, c, s)
  BY DEF After, At
<1>3. call.fun = "init_guns" => After(At(m, t, a, p, o, c, s), call) = At(m, t, 1, p, o, c, s)
  BY DEF After, At
<1>4. call.fun = "init_enemy" => After(At(m, t, a, p, o, c, s), call) = At(m, t, a, p, o, c + 1, s)
  BY DEF After, At
<1>5. call.fun = "add_pickup" => After(At(m, t, a, p, o, c, s), call) =
   At(m, t, a, p, o, c, (IF s = 0 THEN 2 ELSE s + 1))
  BY DEF After, At
<1>6. call.fun = "close_map" => After(At(m, t, a, p, o, c, s), call) = At(0, t, a, p, o, c, s)
  BY DEF After, At
<1>7. call.fun = "free_controllers" => After(At(m, t, a, p, o, c, s), call) = At(m, t, a, p, o, 0, s)
  BY DEF After, At
<1>8. call.fun = "free_collision_table" => After(At(m, t, a, p, o, c, s), call) = At(m, 0, a, p, o, c, s)
  BY DEF After, At
<1>9. call.fun = "free_pickups" => After(At(m, t, a, p, o, c, s), call) = At(m, t, a, p, o, c, 0)
  BY DEF After, At
<1>10. call.fun = "free_gun_anims" => After(At(m, t, a, p, o, c, s), call) = At(m, t, 0, p, o, c, s)
  BY DEF After, At
<1>11. call.fun = "free_players" => After(At(m, t, a, p, o, c, s), call) = At(m, t, a, 0, 0, c, s)
  BY DEF After, At
<1>12. call.fun = "init_player" /\ call.arg = L!PLAYER
        => After(At(m, t, a, p, o, c, s), call) = At(m, t, a, 1, o, c, s)
  BY DEF After, At
<1>13. call.fun = "init_player" /\ call.arg = L!OTHER_PLAYER
        => After(At(m, t, a, p, o, c, s), call) = At(m, t, a, p, o + 1, c, s)
  BY DEF After, At, L!PLAYER, L!OTHER_PLAYER
<1> QED BY <1>1, <1>2, <1>3, <1>4, <1>5, <1>6, <1>7, <1>8, <1>9, <1>10, <1>11, <1>12, <1>13

\* ... and freeing where loading ends.
LEMMA FreeLevelKeeps ==
    ASSUME LevelInv, L!free_level
    PROVE  LevelInv'
<1>1. /\ todo = <<>> /\ playing /\ todo' = L!FreeLevel /\ playing' = FALSE
      /\ UNCHANGED <<heap, enemies, num_enemies, controllers, ctrl, pickups, pickups_size,
                     guns, stale, levels>>
  BY DEF L!free_level
<1>2. PICK f : Leads(f, todo) /\ There(f[1]) /\ Ends(f[Len(todo) + 1])
  BY DEF LevelInv
<1>3. PICK A \in Stage : There(A) /\ Complete(A)
  <2>1. Len(todo) + 1 = 1
    BY <1>1
  <2> QED BY <1>1, <1>2, <2>1 DEF Ends, Leads
<1>4. PICK o, c, s : o = A.others /\ c = A.ctrls /\ s = A.size
  OBVIOUS
<1>5. /\ A.others \in 0..L!People /\ A.ctrls \in 0..L!People /\ A.size \in 0..(Items + 5)
      /\ L!People \in Nat /\ Items \in Nat
  BY GameInstances DEF Stage, L!LevelConstants, L!People
<1>6. A = At(1, 1, 1, 1, o, c, s) /\ s > 0
      /\ o \in 0..L!People /\ c \in 0..L!People /\ s \in 0..(Items + 5)
      /\ 0 \in 0..L!People /\ 0 \in 0..(Items + 5)
  BY <1>3, <1>4, <1>5 DEF Stage, Complete, At
<1>13. PICK gs : gs = <<At(1, 1, 1, 1, o, c, s), At(0, 1, 1, 1, o, c, s),
                      At(0, 1, 1, 0, 0, c, s), At(0, 1, 1, 0, 0, 0, s),
                      At(0, 0, 1, 0, 0, 0, s), At(0, 0, 1, 0, 0, 0, 0),
                      At(0, 0, 0, 0, 0, 0, 0)>>
  OBVIOUS
<1>14. /\ gs[1] = At(1, 1, 1, 1, o, c, s) /\ gs[2] = At(0, 1, 1, 1, o, c, s)
       /\ gs[3] = At(0, 1, 1, 0, 0, c, s)
       /\ gs[4] = At(0, 1, 1, 0, 0, 0, s)
       /\ gs[5] = At(0, 0, 1, 0, 0, 0, s)
       /\ gs[6] = At(0, 0, 1, 0, 0, 0, 0)
       /\ gs[7] = At(0, 0, 0, 0, 0, 0, 0) /\ DOMAIN gs = 1..7
  BY <1>13
<1>15. gs \in [1..7 -> Stage]
  <2>1. gs[1] \in Stage /\ gs[2] \in Stage /\ gs[3] \in Stage /\ gs[4] \in Stage
    BY <1>6, <1>14, AtFields
  <2>2. gs[5] \in Stage /\ gs[6] \in Stage /\ gs[7] \in Stage
    BY <1>6, <1>14, AtFields
  <2>3. \A k \in 1..7 : k \in {1, 2, 3, 4, 5, 6, 7}
    OBVIOUS
  <2>4. \A k \in 1..7 : gs[k] \in Stage
    BY <2>1, <2>2, <2>3
  <2>5. gs = [k \in 1..7 |-> gs[k]]
    BY <1>13
  <2> QED BY <2>4, <2>5
<1>7. /\ todo' \in Seq(L!Call) /\ Len(todo') = 6
      /\ todo'[1].fun = "close_map" /\ todo'[2].fun = "free_players"
      /\ todo'[3].fun = "free_controllers" /\ todo'[4].fun = "free_collision_table"
      /\ todo'[5].fun = "free_pickups" /\ todo'[6].fun = "free_gun_anims"
  <2>1. \A fun \in L!Function : L!Do(fun) \in L!Call /\ L!Do(fun).fun = fun
    BY DEF L!Do, L!Call
  <2>2. {"close_map", "free_players", "free_controllers", "free_collision_table", "free_pickups",
         "free_gun_anims"} \subseteq L!Function
    BY DEF L!Function
  <2> QED BY <1>1, <2>1, <2>2 DEF L!FreeLevel
<1>16. gs[1].map = 1 /\ gs[2].player = 1 /\ gs[4].table = 1 /\ gs[5].size > 0 /\ gs[5].table = 0
  BY <1>6, <1>14 DEF At
<1>8. Leads(gs, todo')
  <2>1. Ready(gs[1], todo'[1]) /\ gs[1 + 1] = After(gs[1], todo'[1])
    <3>1. gs[1 + 1] = After(gs[1], todo'[1])
      BY <1>7, <1>14, AtAfter
    <3>2. Ready(gs[1], todo'[1])
      BY <1>7, <1>16 DEF Ready
    <3> QED BY <3>1, <3>2
  <2>2. Ready(gs[2], todo'[2]) /\ gs[2 + 1] = After(gs[2], todo'[2])
    <3>1. gs[2 + 1] = After(gs[2], todo'[2])
      BY <1>7, <1>14, AtAfter
    <3>2. Ready(gs[2], todo'[2])
      BY <1>7, <1>16 DEF Ready
    <3> QED BY <3>1, <3>2
  <2>3. Ready(gs[3], todo'[3]) /\ gs[3 + 1] = After(gs[3], todo'[3])
    <3>1. gs[3 + 1] = After(gs[3], todo'[3])
      BY <1>7, <1>14, AtAfter
    <3>2. Ready(gs[3], todo'[3])
      BY <1>7, <1>16 DEF Ready
    <3> QED BY <3>1, <3>2
  <2>4. Ready(gs[4], todo'[4]) /\ gs[4 + 1] = After(gs[4], todo'[4])
    <3>1. gs[4 + 1] = After(gs[4], todo'[4])
      BY <1>7, <1>14, AtAfter
    <3>2. Ready(gs[4], todo'[4])
      BY <1>7, <1>16 DEF Ready
    <3> QED BY <3>1, <3>2
  <2>5. Ready(gs[5], todo'[5]) /\ gs[5 + 1] = After(gs[5], todo'[5])
    <3>1. gs[5 + 1] = After(gs[5], todo'[5])
      BY <1>7, <1>14, AtAfter
    <3>2. Ready(gs[5], todo'[5])
      BY <1>7, <1>16 DEF Ready
    <3> QED BY <3>1, <3>2
  <2>6. Ready(gs[6], todo'[6]) /\ gs[6 + 1] = After(gs[6], todo'[6])
    <3>1. gs[6 + 1] = After(gs[6], todo'[6])
      BY <1>7, <1>14, AtAfter
    <3>2. Ready(gs[6], todo'[6])
      BY <1>7, <1>16 DEF Ready
    <3> QED BY <3>1, <3>2
  <2>7. \A k \in 1..Len(todo') : k \in {1, 2, 3, 4, 5, 6}
    BY <1>7
  <2>8. Len(todo') + 1 = 7
    BY <1>7
  <2> QED BY <1>15, <2>1, <2>2, <2>3, <2>4, <2>5, <2>6, <2>7, <2>8 DEF Leads
<1>9. gs[1] = A /\ gs[Len(todo') + 1] = NoLevel
  <2>1. Len(todo') + 1 = 7
    BY <1>7
  <2>2. gs[7] = NoLevel
    BY <1>14 DEF NoLevel, At
  <2> QED BY <1>6, <1>14, <2>1, <2>2
<1>10. There(A)'
  <2>1. heap' = (heap \ {}) \cup {} /\ \A b \in {} \cup {} : b[1] \in {}
    BY <1>1
  <2>2. Only({})
    BY <2>1, HeapStep
  <2>3. UNCHANGED <<enemies, num_enemies, controllers, ctrl, pickups, pickups_size, guns, levels>>
    BY <1>1
  <2>4. /\ MapThere(A)' /\ TableThere(A)' /\ PlayerThere(A)' /\ OthersThere(A)'
        /\ ControllersThere(A)' /\ PickupsThere(A)'
    BY <1>3, <2>2, <2>3, Frame
  <2> QED BY <2>4 DEF There
<1>11. OnlyGunAnims' /\ AnimsLast'
  <2>1. \A k \in 1..Len(todo') : k \in {1, 2, 3, 4, 5, 6}
    BY <1>7
  <2> QED BY <1>1, <1>7, <2>1 DEF LevelInv, OnlyGunAnims, AnimsLast
<1>12. Leads(gs, todo)' /\ Ends(gs[Len(todo) + 1])' /\ There(gs[1])'
  BY <1>1, <1>8, <1>9, <1>10 DEF Leads, Ends
<1> QED BY <1>1, <1>7, <1>11, <1>12 DEF LevelInv, L!Call, L!Function

\* The calls of the setup functions, and where they stand.
LEMMA DoTyped ==
    /\ \A fun \in L!Function : L!Do(fun) \in L!Call /\ L!Do(fun).fun = fun
    /\ \A i \in Int : /\ L!init_enemy_(i) \in L!Call /\ L!init_player_(i) \in L!Call
                      /\ L!init_enemy_(i).fun = "init_enemy" /\ L!init_enemy_(i).arg = i
                      /\ L!init_player_(i).fun = "init_player" /\ L!init_player_(i).arg = i
  BY DEF L!Do, L!Call, L!init_enemy_, L!init_player_, L!Function

LEMMA TimesTyped ==
    ASSUME NEW n \in Nat, NEW call \in L!Call
    PROVE  /\ L!Times(n, call) \in Seq(L!Call) /\ Len(L!Times(n, call)) = n
           /\ \A k \in 1..n : L!Times(n, call)[k] = call
  BY DEF L!Times

\* The calls lead from one stage to another.
From(A, calls, C) ==
    /\ calls \in Seq(L!Call)
    /\ \A k \in 1..Len(calls) : calls[k].fun # "free_gun_anims"
    /\ \E f : Leads(f, calls) /\ f[1] = A /\ f[Len(calls) + 1] = C

LEMMA FromOne ==
    ASSUME NEW A \in Stage, NEW call \in L!Call, Ready(A, call), After(A, call) \in Stage,
           call.fun # "free_gun_anims"
    PROVE  From(A, <<call>>, After(A, call))
<1> DEFINE f == [k \in 1..2 |-> IF k = 1 THEN A ELSE After(A, call)]
<1>1. <<call>> \in Seq(L!Call) /\ Len(<<call>>) = 1 /\ <<call>>[1] = call
  OBVIOUS
<1>2. f[1] = A /\ f[1 + 1] = After(A, call) /\ f \in [1..2 -> Stage]
  OBVIOUS
<1> HIDE DEF f
<1>3. Len(<<call>>) + 1 = 2 /\ 1..Len(<<call>>) = {1} /\ 1 + 1 = 2
  BY <1>1
<1>4. Leads(f, <<call>>)
  BY <1>1, <1>2, <1>3 DEF Leads
<1> QED BY <1>1, <1>2, <1>3, <1>4 DEF From

LEMMA FromTwo ==
    ASSUME NEW A, NEW s, NEW D, NEW t, NEW C, From(A, s, D), From(D, t, C)
    PROVE  From(A, s \o t, C)
<1>1. PICK f : Leads(f, s) /\ f[1] = A /\ f[Len(s) + 1] = D
  BY DEF From
<1>2. PICK gs : Leads(gs, t) /\ gs[1] = D /\ gs[Len(t) + 1] = C
  BY DEF From
<1>3. PICK m, n : m = Len(s) /\ n = Len(t)
  OBVIOUS
<1>4. /\ s \in Seq(L!Call) /\ t \in Seq(L!Call) /\ m \in Nat /\ n \in Nat
      /\ s \o t \in Seq(L!Call) /\ Len(s \o t) = m + n
      /\ \A k \in 1..(m + n) : (s \o t)[k] = IF k <= m THEN s[k] ELSE t[k - m]
  <2>1. s \in Seq(L!Call) /\ t \in Seq(L!Call)
    BY DEF From
  <2> QED BY <1>3, <2>1
<1>5. /\ f \in [1..(m + 1) -> Stage] /\ gs \in [1..(n + 1) -> Stage]
      /\ \A k \in 1..m : Ready(f[k], s[k]) /\ f[k + 1] = After(f[k], s[k])
      /\ \A k \in 1..n : Ready(gs[k], t[k]) /\ gs[k + 1] = After(gs[k], t[k])
  BY <1>1, <1>2, <1>3 DEF Leads
<1> DEFINE h == [k \in 1..(m + n + 1) |-> IF k <= m + 1 THEN f[k] ELSE gs[k - m]]
<1>6. f[m + 1] = gs[1]
  BY <1>1, <1>2, <1>3
<1>7. h \in [1..(m + n + 1) -> Stage]
  <2>1. ASSUME NEW k \in 1..(m + n + 1) PROVE (IF k <= m + 1 THEN f[k] ELSE gs[k - m]) \in Stage
    <3>1. CASE k <= m + 1
      <4>1. k \in 1..(m + 1)
        BY <1>4, <3>1
      <4> QED BY <1>5, <3>1, <4>1
    <3>2. CASE ~(k <= m + 1)
      <4>1. k - m \in 1..(n + 1)
        BY <1>4, <3>2
      <4> QED BY <1>5, <3>2, <4>1
    <3> QED BY <3>1, <3>2
  <2> QED BY <2>1
<1>8. \A k \in 1..(m + n + 1) : k > m => h[k] = gs[k - m]
  <2>1. ASSUME NEW k \in 1..(m + n + 1), k > m PROVE h[k] = gs[k - m]
    <3>1. CASE k = m + 1
      <4>1. k - m = 1 /\ k <= m + 1
        BY <1>4, <3>1
      <4> QED BY <1>6, <3>1, <4>1
    <3>2. CASE k > m + 1
      BY <1>4, <3>2
    <3> QED BY <1>4, <2>1, <3>1, <3>2
  <2> QED BY <2>1
<1>9. \A k \in 1..(m + 1) : h[k] = f[k]
  BY <1>4
<1> HIDE DEF h
<1>10. ASSUME NEW k \in 1..(m + n)
       PROVE  Ready(h[k], (s \o t)[k]) /\ h[k + 1] = After(h[k], (s \o t)[k])
  <2>1. CASE k <= m
    <3>1. k \in 1..m /\ k \in 1..(m + 1) /\ k + 1 \in 1..(m + 1)
      BY <1>4, <2>1
    <3> QED BY <1>4, <1>5, <1>9, <2>1, <3>1
  <2>2. CASE ~(k <= m)
    <3>1. /\ k - m \in 1..n /\ k \in 1..(m + n + 1) /\ k + 1 \in 1..(m + n + 1) /\ k > m
          /\ k + 1 > m /\ (k + 1) - m = (k - m) + 1
      BY <1>4, <2>2
    <3>2. h[k] = gs[k - m] /\ h[k + 1] = gs[(k - m) + 1] /\ (s \o t)[k] = t[k - m]
      BY <1>4, <1>8, <2>2, <3>1
    <3> QED BY <1>5, <3>1, <3>2
  <2> QED BY <2>1, <2>2
<1>11. Leads(h, s \o t)
  <2>1. Len(s \o t) + 1 = m + n + 1 /\ 1..Len(s \o t) = 1..(m + n)
    BY <1>4
  <2> QED BY <1>7, <1>10, <2>1 DEF Leads
<1>12. h[1] = A /\ h[Len(s \o t) + 1] = C
  <2>1. 1 \in 1..(m + 1) /\ m + n + 1 \in 1..(m + n + 1) /\ m + n + 1 > m /\ (m + n + 1) - m = n + 1
    BY <1>4
  <2>2. Len(s \o t) + 1 = m + n + 1
    BY <1>4
  <2>3. h[m + n + 1] = gs[n + 1] /\ h[1] = f[1]
    BY <1>8, <1>9, <2>1
  <2> QED BY <1>1, <1>2, <1>3, <2>2, <2>3
<1>13. ASSUME NEW k \in 1..Len(s \o t) PROVE (s \o t)[k].fun # "free_gun_anims"
  <2>1. k \in 1..(m + n)
    BY <1>4
  <2>2. CASE k <= m
    <3>1. k \in 1..Len(s) /\ (s \o t)[k] = s[k]
      BY <1>3, <1>4, <2>1, <2>2
    <3> QED BY <3>1 DEF From
  <2>3. CASE ~(k <= m)
    <3>1. k - m \in 1..Len(t) /\ (s \o t)[k] = t[k - m]
      BY <1>3, <1>4, <2>1, <2>3
    <3> QED BY <3>1 DEF From
  <2> QED BY <2>2, <2>3
<1> QED BY <1>4, <1>11, <1>12, <1>13 DEF From

LEMMA Sizes ==
    /\ L!People \in Nat /\ L!People >= 3 /\ L!People >= Bots /\ Bots \in Nat \ {0}
    /\ Items \in Nat \ {0}
  BY GameInstances DEF L!People, L!LevelConstants

\* A stage of which everything but the people and pickups is there.
Furnished(o, c, s) == At(1, 1, 1, 1, o, c, s)

LEMMA FurnishedIs ==
    ASSUME NEW o \in 0..L!People, NEW c \in 0..L!People, NEW s \in 0..(Items + 5)
    PROVE  /\ Furnished(o, c, s) \in Stage /\ Furnished(o, c, s).table = 1
           /\ Furnished(o, c, s).others = o /\ Furnished(o, c, s).ctrls = c
  BY AtFields DEF Furnished

\* n people in a row ...
LEMMA FromPeople ==
    ASSUME NEW n \in Nat, n <= L!People
    PROVE  From(Furnished(0, 0, 0), L!Times(n, L!init_player_(L!OTHER_PLAYER)), Furnished(n, 0, 0))
<1> DEFINE call == L!init_player_(L!OTHER_PLAYER)
<1> DEFINE f == [k \in 1..(n + 1) |-> Furnished(k - 1, 0, 0)]
<1>1. /\ call \in L!Call /\ call.fun = "init_player" /\ call.arg = L!OTHER_PLAYER
  BY DoTyped DEF L!OTHER_PLAYER
<1> HIDE DEF call
<1>2. /\ L!Times(n, call) \in Seq(L!Call) /\ Len(L!Times(n, call)) = n
      /\ \A k \in 1..n : L!Times(n, call)[k] = call
  BY <1>1, TimesTyped
<1>3. ASSUME NEW k \in 1..(n + 1)
      PROVE  /\ f[k] = Furnished(k - 1, 0, 0) /\ f[k] \in Stage
             /\ f[k].others = k - 1 /\ f[k].ctrls = 0
  <2>1. k - 1 \in 0..L!People /\ 0 \in 0..L!People /\ 0 \in 0..(Items + 5)
    BY Sizes
  <2> QED BY <2>1, FurnishedIs
<1>4. f \in [1..(n + 1) -> Stage]
  BY <1>3
<1> HIDE DEF f
<1>5. ASSUME NEW k \in 1..n
      PROVE  Ready(f[k], call) /\ f[k + 1] = After(f[k], call)
  <2>1. k \in 1..(n + 1) /\ k + 1 \in 1..(n + 1) /\ (k + 1) - 1 = (k - 1) + 1
    OBVIOUS
  <2>2. f[k] = Furnished(k - 1, 0, 0) /\ f[k + 1] = Furnished((k - 1) + 1, 0, 0)
    BY <1>3, <2>1
  <2>3. f[k + 1] = After(f[k], call)
    BY <1>1, <2>2, AtAfter DEF Furnished
  <2>4. Ready(f[k], call)
    BY <1>1, <1>3, <2>1 DEF Ready, L!PLAYER, L!OTHER_PLAYER
  <2> QED BY <2>3, <2>4
<1>6. Leads(f, L!Times(n, call))
  BY <1>2, <1>4, <1>5 DEF Leads
<1>7. f[1] = Furnished(0, 0, 0) /\ f[n + 1] = Furnished(n, 0, 0)
  <2>1. 1 \in 1..(n + 1) /\ n + 1 \in 1..(n + 1) /\ 1 - 1 = 0 /\ (n + 1) - 1 = n
    OBVIOUS
  <2> QED BY <1>3, <2>1
<1>8. From(Furnished(0, 0, 0), L!Times(n, call), Furnished(n, 0, 0))
  BY <1>1, <1>2, <1>6, <1>7 DEF From
<1> QED BY <1>8 DEF call

\* ... a controller for each of them ...
LEMMA FromEnemies ==
    ASSUME NEW n \in Nat, n <= L!People
    PROVE  From(Furnished(n, 0, 0), [i \in 1..n |-> L!init_enemy_(i - 1)], Furnished(n, n, 0))
<1> DEFINE calls == [i \in 1..n |-> L!init_enemy_(i - 1)]
<1> DEFINE f == [k \in 1..(n + 1) |-> Furnished(n, k - 1, 0)]
<1>1. ASSUME NEW i \in 1..n
      PROVE  /\ calls[i] \in L!Call /\ calls[i].fun = "init_enemy" /\ calls[i].arg = i - 1
  BY DoTyped
<1>2. calls \in Seq(L!Call) /\ Len(calls) = n
  BY <1>1
<1> HIDE DEF calls
<1>3. ASSUME NEW k \in 1..(n + 1)
      PROVE  /\ f[k] = Furnished(n, k - 1, 0) /\ f[k] \in Stage /\ f[k].others = n
  <2>1. n \in 0..L!People /\ k - 1 \in 0..L!People /\ 0 \in 0..(Items + 5)
    BY Sizes
  <2> QED BY <2>1, FurnishedIs
<1>4. f \in [1..(n + 1) -> Stage]
  BY <1>3
<1> HIDE DEF f
<1>5. ASSUME NEW k \in 1..n
      PROVE  Ready(f[k], calls[k]) /\ f[k + 1] = After(f[k], calls[k])
  <2>1. k \in 1..(n + 1) /\ k + 1 \in 1..(n + 1) /\ (k + 1) - 1 = (k - 1) + 1 /\ k - 1 \in 0..(n - 1)
    OBVIOUS
  <2>2. f[k] = Furnished(n, k - 1, 0) /\ f[k + 1] = Furnished(n, (k - 1) + 1, 0)
    BY <1>3, <2>1
  <2>3. f[k + 1] = After(f[k], calls[k])
    BY <1>1, <2>2, AtAfter DEF Furnished
  <2>4. Ready(f[k], calls[k])
    BY <1>1, <1>3, <2>1 DEF Ready
  <2> QED BY <2>3, <2>4
<1>6. Leads(f, calls)
  BY <1>2, <1>4, <1>5 DEF Leads
<1>7. f[1] = Furnished(n, 0, 0) /\ f[n + 1] = Furnished(n, n, 0)
  <2>1. 1 \in 1..(n + 1) /\ n + 1 \in 1..(n + 1) /\ 1 - 1 = 0 /\ (n + 1) - 1 = n
    OBVIOUS
  <2> QED BY <1>3, <2>1
<1>8. From(Furnished(n, 0, 0), calls, Furnished(n, n, 0))
  BY <1>1, <1>2, <1>6, <1>7 DEF From
<1> QED BY <1>8 DEF calls

\* ... and n pickups.
LEMMA FromPickups ==
    ASSUME NEW o \in 0..L!People, NEW c \in 0..L!People, NEW n \in Nat \ {0}, n <= Items + 4
    PROVE  From(Furnished(o, c, 0), L!Times(n, L!Do("add_pickup")), Furnished(o, c, n + 1))
<1> DEFINE call == L!Do("add_pickup")
<1> DEFINE f == [k \in 1..(n + 1) |-> Furnished(o, c, IF k = 1 THEN 0 ELSE k)]
<1>1. call \in L!Call /\ call.fun = "add_pickup"
  BY DoTyped DEF L!Function
<1> HIDE DEF call
<1>2. /\ L!Times(n, call) \in Seq(L!Call) /\ Len(L!Times(n, call)) = n
      /\ \A k \in 1..n : L!Times(n, call)[k] = call
  BY <1>1, TimesTyped
<1>3. ASSUME NEW k \in 1..(n + 1)
      PROVE  /\ f[k] = Furnished(o, c, IF k = 1 THEN 0 ELSE k) /\ f[k] \in Stage /\ f[k].table = 1
  <2>1. (IF k = 1 THEN 0 ELSE k) \in 0..(Items + 5)
    BY Sizes
  <2> QED BY <2>1, FurnishedIs
<1>4. f \in [1..(n + 1) -> Stage]
  BY <1>3
<1> HIDE DEF f
<1>5. ASSUME NEW k \in 1..n
      PROVE  Ready(f[k], call) /\ f[k + 1] = After(f[k], call)
  <2>1. k \in 1..(n + 1) /\ k + 1 \in 1..(n + 1) /\ k + 1 # 1
    OBVIOUS
  <2>2. PICK s : s = IF k = 1 THEN 0 ELSE k
    OBVIOUS
  <2>3. k + 1 = IF s = 0 THEN 2 ELSE s + 1
    BY <2>2
  <2>4. f[k] = Furnished(o, c, s) /\ f[k + 1] = Furnished(o, c, k + 1)
    BY <1>3, <2>1, <2>2
  <2>5. f[k + 1] = After(f[k], call)
    BY <1>1, <2>3, <2>4, AtAfter DEF Furnished
  <2>6. Ready(f[k], call)
    BY <1>1, <1>3, <2>1 DEF Ready
  <2> QED BY <2>5, <2>6
<1>6. Leads(f, L!Times(n, call))
  BY <1>2, <1>4, <1>5 DEF Leads
<1>7. f[1] = Furnished(o, c, 0) /\ f[n + 1] = Furnished(o, c, n + 1)
  <2>1. 1 \in 1..(n + 1) /\ n + 1 \in 1..(n + 1) /\ n + 1 # 1
    OBVIOUS
  <2> QED BY <1>3, <2>1
<1>8. From(Furnished(o, c, 0), L!Times(n, call), Furnished(o, c, n + 1))
  BY <1>1, <1>2, <1>6, <1>7 DEF From
<1> QED BY <1>8 DEF call

\* One more of each.
LEMMA OneMore ==
    ASSUME NEW o \in 0..L!People, NEW c \in 0..L!People, NEW s \in 0..(Items + 5)
    PROVE  /\ o < L!People /\ c = 0
                => From(Furnished(o, c, s), <<L!init_player_(L!OTHER_PLAYER)>>, Furnished(o + 1, c, s))
           /\ s \in 1..(Items + 4)
                => From(Furnished(o, c, s), <<L!Do("add_pickup")>>, Furnished(o, c, s + 1))
           /\ c < L!People => \A i \in 0..(o - 1) :
                From(Furnished(o, c, s), <<L!init_enemy_(i)>>, Furnished(o, c + 1, s))
<1>1. ASSUME o < L!People, c = 0
      PROVE  From(Furnished(o, c, s), <<L!init_player_(L!OTHER_PLAYER)>>, Furnished(o + 1, c, s))
  <2>1. PICK call : call = L!init_player_(L!OTHER_PLAYER)
    OBVIOUS
  <2>2. call \in L!Call /\ call.fun = "init_player" /\ call.arg = L!OTHER_PLAYER
    BY <2>1, DoTyped DEF L!OTHER_PLAYER
  <2>3. After(Furnished(o, c, s), call) = Furnished(o + 1, c, s)
    BY <2>2, AtAfter DEF Furnished
  <2>4. Furnished(o, c, s) \in Stage /\ Furnished(o + 1, c, s) \in Stage /\ Furnished(o, c, s).ctrls = 0
    <3>1. o + 1 \in 0..L!People
      BY <1>1, Sizes
    <3> QED BY <1>1, <3>1, FurnishedIs
  <2>5. Ready(Furnished(o, c, s), call)
    BY <2>2, <2>4 DEF Ready, L!PLAYER, L!OTHER_PLAYER
  <2> QED BY <2>1, <2>2, <2>3, <2>4, <2>5, FromOne
<1>2. ASSUME s \in 1..(Items + 4)
      PROVE  From(Furnished(o, c, s), <<L!Do("add_pickup")>>, Furnished(o, c, s + 1))
  <2>1. PICK call : call = L!Do("add_pickup")
    OBVIOUS
  <2>2. call \in L!Call /\ call.fun = "add_pickup"
    BY <2>1, DoTyped DEF L!Function
  <2>3. After(Furnished(o, c, s), call) = Furnished(o, c, s + 1)
    <3>1. (IF s = 0 THEN 2 ELSE s + 1) = s + 1
      BY <1>2, Sizes
    <3> QED BY <2>2, <3>1, AtAfter DEF Furnished
  <2>4. Furnished(o, c, s) \in Stage /\ Furnished(o, c, s + 1) \in Stage /\ Furnished(o, c, s).table = 1
    <3>1. s + 1 \in 0..(Items + 5)
      BY <1>2, Sizes
    <3> QED BY <3>1, FurnishedIs
  <2>5. Ready(Furnished(o, c, s), call)
    BY <2>2, <2>4 DEF Ready
  <2> QED BY <2>1, <2>2, <2>3, <2>4, <2>5, FromOne
<1>3. ASSUME c < L!People, NEW i \in 0..(o - 1)
      PROVE  From(Furnished(o, c, s), <<L!init_enemy_(i)>>, Furnished(o, c + 1, s))
  <2>1. PICK call : call = L!init_enemy_(i)
    OBVIOUS
  <2>2. call \in L!Call /\ call.fun = "init_enemy" /\ call.arg = i
    BY <2>1, DoTyped
  <2>3. After(Furnished(o, c, s), call) = Furnished(o, c + 1, s)
    BY <2>2, AtAfter DEF Furnished
  <2>4. Furnished(o, c, s) \in Stage /\ Furnished(o, c + 1, s) \in Stage /\ Furnished(o, c, s).others = o
    <3>1. c + 1 \in 0..L!People
      BY <1>3, Sizes
    <3> QED BY <3>1, FurnishedIs
  <2>5. Ready(Furnished(o, c, s), call)
    BY <2>2, <2>4 DEF Ready
  <2> QED BY <2>1, <2>2, <2>3, <2>4, <2>5, FromOne
<1> QED BY <1>1, <1>2, <1>3

\* The calls that all levels begin with.
LEMMA FromLoad ==
    /\ From(NoLevel, LoadCalls, At(1, 1, 1, 0, 0, 0, 0))
    /\ From(At(1, 1, 1, 0, 0, 0, 0), <<L!init_player_(L!PLAYER)>>, Furnished(0, 0, 0))
<1>1. /\ At(0, 0, 0, 0, 0, 0, 0) = NoLevel
      /\ At(0, 0, 0, 0, 0, 0, 0) \in Stage /\ At(1, 0, 0, 0, 0, 0, 0) \in Stage
      /\ At(1, 1, 0, 0, 0, 0, 0) \in Stage /\ At(1, 1, 1, 0, 0, 0, 0) \in Stage
      /\ At(1, 1, 1, 1, 0, 0, 0) \in Stage
      /\ At(1, 0, 0, 0, 0, 0, 0).size = 0 /\ At(1, 1, 1, 0, 0, 0, 0).player = 0
  BY Sizes DEF At, NoLevel, Stage
<1>2. From(NoLevel, <<L!Do("load_map")>>, At(1, 0, 0, 0, 0, 0, 0))
  <2>1. PICK call : call = L!Do("load_map")
    OBVIOUS
  <2>2. call \in L!Call /\ call.fun = "load_map"
    BY <2>1, DoTyped DEF L!Function
  <2>3. After(At(0, 0, 0, 0, 0, 0, 0), call) = At(1, 0, 0, 0, 0, 0, 0)
    BY <2>2, AtAfter
  <2>4. Ready(At(0, 0, 0, 0, 0, 0, 0), call)
    BY <2>2 DEF Ready
  <2> QED BY <1>1, <2>1, <2>2, <2>3, <2>4, FromOne
<1>3. From(At(1, 0, 0, 0, 0, 0, 0), <<L!Do("init_collision_table")>>, At(1, 1, 0, 0, 0, 0, 0))
  <2>1. PICK call : call = L!Do("init_collision_table")
    OBVIOUS
  <2>2. call \in L!Call /\ call.fun = "init_collision_table"
    BY <2>1, DoTyped DEF L!Function
  <2>3. After(At(1, 0, 0, 0, 0, 0, 0), call) = At(1, 1, 0, 0, 0, 0, 0)
    BY <2>2, AtAfter
  <2>4. Ready(At(1, 0, 0, 0, 0, 0, 0), call)
    BY <1>1, <2>2 DEF Ready
  <2> QED BY <1>1, <2>1, <2>2, <2>3, <2>4, FromOne
<1>4. From(At(1, 1, 0, 0, 0, 0, 0), <<L!Do("init_guns")>>, At(1, 1, 1, 0, 0, 0, 0))
  <2>1. PICK call : call = L!Do("init_guns")
    OBVIOUS
  <2>2. call \in L!Call /\ call.fun = "init_guns"
    BY <2>1, DoTyped DEF L!Function
  <2>3. After(At(1, 1, 0, 0, 0, 0, 0), call) = At(1, 1, 1, 0, 0, 0, 0)
    BY <2>2, AtAfter
  <2>4. Ready(At(1, 1, 0, 0, 0, 0, 0), call)
    BY <2>2 DEF Ready
  <2> QED BY <1>1, <2>1, <2>2, <2>3, <2>4, FromOne
<1>5. From(At(1, 1, 1, 0, 0, 0, 0), <<L!init_player_(L!PLAYER)>>, Furnished(0, 0, 0))
  <2>1. PICK call : call = L!init_player_(L!PLAYER)
    OBVIOUS
  <2>2. call \in L!Call /\ call.fun = "init_player" /\ call.arg = L!PLAYER
    BY <2>1, DoTyped DEF L!PLAYER
  <2>3. After(At(1, 1, 1, 0, 0, 0, 0), call) = At(1, 1, 1, 1, 0, 0, 0)
    BY <2>2, AtAfter
  <2>4. Ready(At(1, 1, 1, 0, 0, 0, 0), call)
    BY <1>1, <2>2 DEF Ready, L!PLAYER, L!OTHER_PLAYER
  <2>5. From(At(1, 1, 1, 0, 0, 0, 0), <<call>>, At(1, 1, 1, 1, 0, 0, 0))
    BY <1>1, <2>2, <2>3, <2>4, FromOne
  <2> QED BY <2>1, <2>5 DEF Furnished
<1>6. LoadCalls = (<<L!Do("load_map")>> \o <<L!Do("init_collision_table")>>) \o <<L!Do("init_guns")>>
  BY DEF LoadCalls
<1>7. From(NoLevel, <<L!Do("load_map")>> \o <<L!Do("init_collision_table")>>, At(1, 1, 0, 0, 0, 0, 0))
  BY <1>2, <1>3, FromTwo
<1>8. From(NoLevel, LoadCalls, At(1, 1, 1, 0, 0, 0, 0))
  BY <1>4, <1>6, <1>7, FromTwo
<1> QED BY <1>5, <1>8

LEMMA FurnishedBuilds ==
    ASSUME NEW setup, NEW o \in 0..L!People, NEW c \in 0..L!People, NEW s \in 1..(Items + 5),
           c = 0 \/ o > 0, From(At(1, 1, 1, 0, 0, 0, 0), setup, Furnished(o, c, s))
    PROVE  Builds(LoadCalls \o setup)
<1>1. From(NoLevel, LoadCalls \o setup, Furnished(o, c, s))
  BY FromLoad, FromTwo
<1>2. Complete(Furnished(o, c, s))
  BY DEF Complete, Furnished, At
<1> QED BY <1>1, <1>2 DEF From, Builds

LEMMA Setup1Builds == Builds(LoadCalls \o L!setup_game_1)
<1> DEFINE start == At(1, 1, 1, 0, 0, 0, 0)
<1> DEFINE player == <<L!init_player_(L!PLAYER)>>
<1> DEFINE other == <<L!init_player_(L!OTHER_PLAYER)>>
<1> DEFINE pickup == <<L!Do("add_pickup")>>
<1> DEFINE three == L!Times(3, L!Do("add_pickup"))
<1> DEFINE rest == ((((other \o pickup) \o other) \o other) \o <<L!init_enemy_(1)>>) \o <<L!init_enemy_(2)>>
<1>0. L!setup_game_1 = (player \o three) \o rest
  BY DEF L!setup_game_1
<1>1. /\ {0, 1, 2, 3} \subseteq 0..L!People /\ {4, 5} \subseteq 0..(Items + 5) /\ 3 <= Items + 4
      /\ 0 < L!People /\ 1 < L!People /\ 2 < L!People /\ 4 \in 1..(Items + 4) /\ 5 \in 1..(Items + 5)
      /\ 1 \in 0..(3 - 1) /\ 2 \in 0..(3 - 1)
  BY Sizes
<1>2. From(start, player, Furnished(0, 0, 0))
  BY FromLoad
<1>3. From(Furnished(0, 0, 0), three, Furnished(0, 0, 4))
  <2>1. From(Furnished(0, 0, 0), three, Furnished(0, 0, 3 + 1))
    BY <1>1, FromPickups
  <2>2. 3 + 1 = 4
    OBVIOUS
  <2> QED BY <2>1, <2>2
<1>4. From(Furnished(0, 0, 4), other, Furnished(1, 0, 4))
  <2>1. From(Furnished(0, 0, 4), other, Furnished(0 + 1, 0, 4))
    BY <1>1, OneMore
  <2>2. 0 + 1 = 1
    OBVIOUS
  <2> QED BY <2>1, <2>2
<1>5. From(Furnished(1, 0, 4), pickup, Furnished(1, 0, 5))
  <2>1. From(Furnished(1, 0, 4), pickup, Furnished(1, 0, 4 + 1))
    BY <1>1, OneMore
  <2>2. 4 + 1 = 5
    OBVIOUS
  <2> QED BY <2>1, <2>2
<1>6. From(Furnished(1, 0, 5), other, Furnished(2, 0, 5))
  <2>1. From(Furnished(1, 0, 5), other, Furnished(1 + 1, 0, 5))
    BY <1>1, OneMore
  <2>2. 1 + 1 = 2
    OBVIOUS
  <2> QED BY <2>1, <2>2
<1>7. From(Furnished(2, 0, 5), other, Furnished(3, 0, 5))
  <2>1. From(Furnished(2, 0, 5), other, Furnished(2 + 1, 0, 5))
    BY <1>1, OneMore
  <2>2. 2 + 1 = 3
    OBVIOUS
  <2> QED BY <2>1, <2>2
<1>8. From(Furnished(3, 0, 5), <<L!init_enemy_(1)>>, Furnished(3, 1, 5))
  <2>1. From(Furnished(3, 0, 5), <<L!init_enemy_(1)>>, Furnished(3, 0 + 1, 5))
    BY <1>1, OneMore
  <2>2. 0 + 1 = 1
    OBVIOUS
  <2> QED BY <2>1, <2>2
<1>9. From(Furnished(3, 1, 5), <<L!init_enemy_(2)>>, Furnished(3, 2, 5))
  <2>1. From(Furnished(3, 1, 5), <<L!init_enemy_(2)>>, Furnished(3, 1 + 1, 5))
    BY <1>1, OneMore
  <2>2. 1 + 1 = 2
    OBVIOUS
  <2> QED BY <2>1, <2>2
<1> HIDE DEF start, player, other, pickup, three
<1>10. From(Furnished(0, 0, 4), rest, Furnished(3, 2, 5))
  <2>1. From(Furnished(0, 0, 4), other \o pickup, Furnished(1, 0, 5))
    BY <1>4, <1>5, FromTwo
  <2>2. From(Furnished(0, 0, 4), (other \o pickup) \o other, Furnished(2, 0, 5))
    BY <1>6, <2>1, FromTwo
  <2>3. From(Furnished(0, 0, 4), ((other \o pickup) \o other) \o other, Furnished(3, 0, 5))
    BY <1>7, <2>2, FromTwo
  <2>4. From(Furnished(0, 0, 4), (((other \o pickup) \o other) \o other) \o <<L!init_enemy_(1)>>,
             Furnished(3, 1, 5))
    BY <1>8, <2>3, FromTwo
  <2> QED BY <1>9, <2>4, FromTwo
<1> HIDE DEF rest
<1>11. From(start, player \o three, Furnished(0, 0, 4))
  BY <1>2, <1>3, FromTwo
<1>12. From(start, L!setup_game_1, Furnished(3, 2, 5))
  BY <1>0, <1>10, <1>11, FromTwo
<1> QED BY <1>1, <1>12, FurnishedBuilds DEF start

LEMMA Setup2Builds == Builds(LoadCalls \o L!setup_game_2)
<1> DEFINE start == At(1, 1, 1, 0, 0, 0, 0)
<1> DEFINE player == <<L!init_player_(L!PLAYER)>>
<1> DEFINE people == L!Times(Bots, L!init_player_(L!OTHER_PLAYER))
<1> DEFINE bots == [i \in 1..Bots |-> L!init_enemy_(i - 1)]
<1> DEFINE some == L!Times(Items, L!Do("add_pickup"))
<1>0. L!setup_game_2 = ((player \o people) \o bots) \o some
  BY DEF L!setup_game_2
<1>1. Bots \in 0..L!People /\ Items + 1 \in 1..(Items + 5) /\ Items <= Items + 4 /\ Bots > 0
  BY Sizes
<1>2. From(start, player, Furnished(0, 0, 0))
  BY FromLoad
<1>3. From(Furnished(0, 0, 0), people, Furnished(Bots, 0, 0))
  BY Sizes, FromPeople
<1>4. From(Furnished(Bots, 0, 0), bots, Furnished(Bots, Bots, 0))
  BY Sizes, FromEnemies
<1>5. From(Furnished(Bots, Bots, 0), some, Furnished(Bots, Bots, Items + 1))
  BY <1>1, Sizes, FromPickups
<1> HIDE DEF start, player, people, bots, some
<1>6. From(start, player \o people, Furnished(Bots, 0, 0))
  BY <1>2, <1>3, FromTwo
<1>7. From(start, (player \o people) \o bots, Furnished(Bots, Bots, 0))
  BY <1>4, <1>6, FromTwo
<1>8. From(start, L!setup_game_2, Furnished(Bots, Bots, Items + 1))
  BY <1>0, <1>5, <1>7, FromTwo
<1> QED BY <1>1, <1>8, FurnishedBuilds DEF start

LEMMA MultiplayerBuilds == Builds(LoadCalls \o L!setup_multiplayer)
<1> DEFINE start == At(1, 1, 1, 0, 0, 0, 0)
<1> DEFINE player == <<L!init_player_(L!PLAYER)>>
<1> DEFINE other == <<L!init_player_(L!OTHER_PLAYER)>>
<1> DEFINE some == L!Times(Items, L!Do("add_pickup"))
<1>0. L!setup_multiplayer = (player \o other) \o some
  BY DEF L!setup_multiplayer
<1>1. /\ {0, 1} \subseteq 0..L!People /\ Items + 1 \in 1..(Items + 5) /\ Items <= Items + 4
      /\ 0 \in 0..(Items + 5) /\ 0 < L!People
  BY Sizes
<1>2. From(start, player, Furnished(0, 0, 0))
  BY FromLoad
<1>3. From(Furnished(0, 0, 0), other, Furnished(1, 0, 0))
  <2>1. From(Furnished(0, 0, 0), other, Furnished(0 + 1, 0, 0))
    BY <1>1, OneMore
  <2>2. 0 + 1 = 1
    OBVIOUS
  <2> QED BY <2>1, <2>2
<1>4. From(Furnished(1, 0, 0), some, Furnished(1, 0, Items + 1))
  BY <1>1, Sizes, FromPickups
<1> HIDE DEF start, player, other, some
<1>5. From(start, player \o other, Furnished(1, 0, 0))
  BY <1>2, <1>3, FromTwo
<1>6. From(start, L!setup_multiplayer, Furnished(1, 0, Items + 1))
  BY <1>0, <1>4, <1>5, FromTwo
<1> QED BY <1>1, <1>6, FurnishedBuilds DEF start

-----------------------------------------------------------------------------
LEMMA InitLevel == L!Init => LevelInv
<1> SUFFICES ASSUME L!Init PROVE LevelInv
  OBVIOUS
<1>1. PICK f : f = [k \in 1..1 |-> NoLevel]
  OBVIOUS
<1>2. /\ todo = <<>> /\ playing = FALSE /\ heap = {} /\ enemies = L!NULL /\ num_enemies = 0
      /\ controllers = L!NULL /\ ctrl = <<>> /\ pickups = L!NULL /\ pickups_size = 0
      /\ guns = L!NULL /\ stale = {} /\ levels = 0
  BY DEF L!Init
<1>3. /\ Len(todo) = 0 /\ Len(todo) + 1 = 1 /\ todo \in Seq(L!Call) /\ f[1] = NoLevel
      /\ f \in [1..1 -> Stage]
  BY <1>1, <1>2, NoLevelIsStage
<1>4. Leads(f, todo) /\ Ends(f[Len(todo) + 1])
  BY <1>2, <1>3 DEF Leads, Ends
<1>5. There(NoLevel)
  <2>1. /\ NoLevel.map = 0 /\ NoLevel.table = 0 /\ NoLevel.anims = 0
        /\ NoLevel.player = 0 /\ NoLevel.others = 0 /\ NoLevel.ctrls = 0 /\ NoLevel.size = 0
    BY DEF NoLevel
  <2>2. /\ \A kind : Allocated(kind) = {}
        /\ \A kind : Numbered(kind, 0..(0 - 1)) = {} /\ Numbered(kind, 1..(0 - 1)) = {}
    BY <1>2 DEF Allocated, Numbered
  <2>3. L!NULL[1] = "null" /\ L!NULL \in Block
    BY DEF L!NULL, Block
  <2> HIDE DEF NoLevel
  <2>4. MapThere(NoLevel) /\ TableThere(NoLevel)
    BY <2>1, <2>2 DEF MapThere, TableThere
  <2>8. guns[1] = "null" /\ pickups[1] = "null" /\ pickups_size = 0 /\ L!Old(pickups, 0) = {}
    BY <1>2, <2>3 DEF L!Old
  <2>5. PlayerThere(NoLevel) /\ PickupsThere(NoLevel)
    BY <2>1, <2>2, <2>8 DEF PlayerThere, PickupsThere
  <2>6. OthersThere(NoLevel)
    BY <1>2, <2>1, <2>2, <2>3 DEF OthersThere, L!Old
  <2>7. ControllersThere(NoLevel)
    <3>1. ctrl \in Seq([player : Block, index : Int]) /\ Len(ctrl) = 0
      BY <1>2
    <3>2. \A k \in 1..Len(ctrl) : FALSE
      BY <3>1
    <3>3. controllers = L!NULL
      BY <1>2
    <3> QED BY <2>1, <2>2, <2>3, <3>1, <3>2, <3>3 DEF ControllersThere, L!Old
  <2> QED BY <2>4, <2>5, <2>6, <2>7 DEF There
<1>6. OnlyGunAnims /\ AnimsLast /\ levels \in 0..MaxLevels
  BY <1>2, <1>3, GameInstances DEF OnlyGunAnims, AnimsLast, L!LevelConstants
<1> QED BY <1>2, <1>3, <1>4, <1>5, <1>6 DEF LevelInv

\* Each call, the ticks in between, and a step of anything else.
LEMMA NextLevel == LevelInv /\ [L!Next]_(L!vars) => LevelInv'
<1> SUFFICES ASSUME LevelInv, [L!Next]_(L!vars) PROVE LevelInv'
  OBVIOUS
<1>1. ASSUME NEW setup \in {L!setup_game_1, L!setup_game_2, L!setup_multiplayer},
             L!load_level(setup)
      PROVE  LevelInv'
  <2>1. Builds(LoadCalls \o setup)
    BY Setup1Builds, Setup2Builds, MultiplayerBuilds
  <2> QED BY <1>1, <2>1, LoadLevelKeeps
<1>2. CASE stale' = stale /\ UNCHANGED <<todo, playing, heap, enemies, num_enemies, controllers,
             ctrl, pickups, pickups_size, guns, levels>>
  <2>1. PICK f : Leads(f, todo) /\ There(f[1]) /\ Ends(f[Len(todo) + 1])
    BY DEF LevelInv
  <2>2. heap' = (heap \ {}) \cup {} /\ \A b \in {} \cup {} : b[1] \in {}
    BY <1>2
  <2>3. Only({})
    BY <2>2, HeapStep
  <2>4. PICK A : A = f[1]
    OBVIOUS
  <2>5. /\ MapThere(A)' /\ TableThere(A)' /\ PlayerThere(A)' /\ OthersThere(A)'
        /\ ControllersThere(A)' /\ PickupsThere(A)'
    <3>1. UNCHANGED <<enemies, num_enemies, controllers, ctrl, pickups, pickups_size, guns, levels>>
      BY <1>2
    <3>2. There(A)
      BY <2>1, <2>4
    <3> QED BY <2>3, <3>1, <3>2, Frame
  <2>6. There(f[1])'
    BY <2>4, <2>5 DEF There
  <2>7. Leads(f, todo)' /\ Ends(f[Len(todo) + 1])'
    BY <1>2, <2>1 DEF Leads, Ends
  <2>8. OnlyGunAnims' /\ AnimsLast'
    BY <1>2 DEF LevelInv, OnlyGunAnims, AnimsLast
  <2> QED BY <1>2, <2>6, <2>7, <2>8 DEF LevelInv, L!Call, L!Function
<1>3. CASE L!game_handler
  <2>1. PICK f : Leads(f, todo) /\ There(f[1]) /\ Ends(f[Len(todo) + 1])
    BY DEF LevelInv
  <2>2. todo = <<>> /\ playing /\ Len(todo) + 1 = 1
    BY <1>3 DEF L!game_handler
  <2>3. f[1] \in Stage /\ Complete(f[1])
    BY <2>1, <2>2 DEF Leads, Ends
  <2>4. stale' = stale
    BY <1>3, <2>1, <2>3, TickIs
  <2>5. UNCHANGED <<todo, playing, heap, enemies, num_enemies, controllers, ctrl, pickups,
                    pickups_size, guns, levels>>
    BY <1>3 DEF L!game_handler
  <2> QED BY <1>2, <2>4, <2>5
<1>4. CASE L!free_level
  BY <1>4, FreeLevelKeeps
<1>5. CASE \/ L!load_map \/ L!init_collision_table \/ L!init_guns \/ L!init_player
           \/ L!init_enemy \/ L!add_pickup
  BY <1>5, LoadCallsKeep
<1>6. CASE \/ L!close_map \/ L!free_players \/ L!free_controllers \/ L!free_collision_table
           \/ L!free_pickups \/ L!free_gun_anims
  BY <1>6, FreeCallsKeep
<1>7. CASE UNCHANGED L!vars
  BY <1>2, <1>7 DEF L!vars
<1> QED BY <1>1, <1>3, <1>4, <1>5, <1>6, <1>7 DEF L!Next

LEMMA LevelInvariant == L!Spec => []LevelInv
<1> QED BY InitLevel, NextLevel, PTL DEF L!Spec

LEMMA LevelTyped == LevelInv => L!TypeOK
<1> SUFFICES ASSUME LevelInv PROVE L!TypeOK
  OBVIOUS
<1>1. PICK f : Leads(f, todo) /\ There(f[1]) /\ Ends(f[Len(todo) + 1])
  BY DEF LevelInv
<1>2. PICK A : A = f[1]
  OBVIOUS
<1>3. A \in Stage
  <2>1. Len(todo) \in Nat
    BY DEF LevelInv
  <2>2. 1 \in 1..(Len(todo) + 1)
    BY <2>1
  <2> QED BY <1>1, <1>2, <2>2 DEF Leads
<1>4. There(A)
  BY <1>1, <1>2
<1>5. A.others \in 0..L!People /\ A.ctrls \in 0..L!People /\ A.size \in 0..(Items + 5)
  BY <1>3 DEF Stage
<1>6. num_enemies = A.others /\ (num_enemies = 0 <=> enemies = L!NULL)
  BY <1>4 DEF There, OthersThere, L!NULL
<1>7. /\ ctrl \in Seq([player : Block, index : Int]) /\ Len(ctrl) = A.ctrls
      /\ (A.ctrls = 0 <=> controllers = L!NULL)
  BY <1>4 DEF There, ControllersThere, L!NULL
<1>8. Len(ctrl) <= L!People /\ (ctrl = <<>> <=> controllers = L!NULL)
  <2>1. ctrl = <<>> <=> Len(ctrl) = 0
    BY <1>7, EmptySeq
  <2> QED BY <1>5, <1>7, <2>1, Sizes
<1>9. \A k \in DOMAIN ctrl : ctrl[k].index \in 0..(num_enemies - 1) \/ num_enemies = 0
  <2>1. \A k \in 1..Len(ctrl) : A.others > 0 => ctrl[k].index \in 0..(A.others - 1)
    BY <1>4 DEF There, ControllersThere
  <2>2. DOMAIN ctrl = 1..Len(ctrl) /\ (A.others > 0 \/ A.others = 0)
    BY <1>5, <1>7
  <2> QED BY <1>6, <2>1, <2>2
<1>10. \A p \in {enemies, controllers, pickups, guns} : L!Kind(p) \in L!Pointer
  <2>1. enemies[1] \in L!Pointer
    BY <1>4 DEF There, OthersThere, L!Pointer
  <2>2. controllers[1] \in L!Pointer
    BY <1>4 DEF There, ControllersThere, L!Pointer
  <2>3. pickups[1] \in L!Pointer /\ guns[1] \in L!Pointer
    BY <1>4 DEF There, PickupsThere, PlayerThere, L!Pointer
  <2> QED BY <2>1, <2>2, <2>3 DEF L!Kind
<1>11. pickups_size \in 0..(Items + 5) /\ num_enemies \in 0..L!People
  BY <1>4, <1>5, <1>6 DEF There, PickupsThere
<1>12. \A k \in DOMAIN todo : todo[k] \in L!Call
  BY DEF LevelInv
<1>13. playing \in BOOLEAN /\ levels \in 0..MaxLevels
  BY DEF LevelInv
<1> QED BY <1>6, <1>8, <1>9, <1>10, <1>11, <1>12, <1>13 DEF L!TypeOK

-----------------------------------------------------------------------------
(* What free_level leaves.  The inductive invariant says of every block    *)
(* that it will be left or that the call which frees it is still to come.  *)

KnownKind == {"matrix", "line", "table", "row", "list", "animations", "gun_frames",
              "player_guns", "enemies", "guns", "sprites", "controllers", "positions",
              "pickups", "details", "frames"}
Freeing == {"close_map", "free_players", "free_controllers", "free_collision_table",
            "free_pickups", "free_gun_anims", "abort"}

\* free_gun_anims is still to come, or has been given what is no animation.
AnimsToCome == playing \/ (todo # <<>> /\ todo[Len(todo)].fun \in {"free_gun_anims", "abort"})

Accounted(b) ==
    /\ b = <<b[1], b[2], b[3]>> /\ b[1] \in KnownKind
    /\ b[1] = "line" =>
         b[2] = Lines \/ (b[2] \in 0..(Lines - 1) /\ b[3] = levels /\ L!B("matrix", 0) \in heap)
    /\ b[1] = "animations" =>
         b[2] \in 3..4 \/ (b[2] \in 0..2 /\ b[3] = levels /\ AnimsToCome)

HeapInv ==
    /\ \A b \in heap : Accounted(b)
    /\ ~playing => \A k \in 1..Len(todo) : todo[k].fun \in Freeing

\* Between two levels only the blocks of the kinds that leak are there.
LEMMA NothingLeft ==
    ASSUME LevelInv, ~playing, todo = <<>>
    PROVE  \A kind \in KnownKind \ {"line", "animations", "gun_frames", "sprites", "frames"} :
             Allocated(kind) = {}
<1>1. PICK f : Leads(f, todo) /\ There(f[1]) /\ Ends(f[Len(todo) + 1])
  BY DEF LevelInv
<1>2. Len(todo) + 1 = 1
  OBVIOUS
<1>3. There(NoLevel)
  BY <1>1, <1>2 DEF Ends
<1>4. /\ NoLevel.map = 0 /\ NoLevel.table = 0 /\ NoLevel.anims = 0
      /\ NoLevel.player = 0 /\ NoLevel.others = 0 /\ NoLevel.ctrls = 0 /\ NoLevel.size = 0
  BY DEF NoLevel
<1>5. /\ \A kind : Numbered(kind, 0..(0 - 1)) = {} /\ Numbered(kind, 1..(0 - 1)) = {}
      /\ \A a : L!Old(a, 0) = {}
  BY DEF Numbered, L!Old
<1> HIDE DEF NoLevel
<1>6. /\ Allocated("matrix") = {} /\ Allocated("table") = {} /\ Allocated("row") = {}
      /\ Allocated("list") = {} /\ Allocated("player_guns") = {}
  BY <1>3, <1>4 DEF There, MapThere, TableThere, PlayerThere
<1>7. /\ Allocated("enemies") = {} /\ Allocated("guns") = {}
      /\ Allocated("controllers") = {} /\ Allocated("positions") = {}
      /\ Allocated("pickups") = {} /\ Allocated("details") = {}
  BY <1>3, <1>4, <1>5 DEF There, OthersThere, ControllersThere, PickupsThere
<1> QED BY <1>6, <1>7 DEF KnownKind

\* An array that has elements is allocated.
LEMMA ArraysAllocated ==
    ASSUME LevelInv
    PROVE  /\ num_enemies # 0 => enemies \in heap
           /\ Len(ctrl) # 0 => controllers \in heap
           /\ pickups_size # 0 => pickups \in heap
<1>1. PICK f : Leads(f, todo) /\ There(f[1])
  BY DEF LevelInv
<1>2. PICK A : A = f[1]
  OBVIOUS
<1>3. /\ num_enemies = A.others /\ Allocated("enemies") = L!Old(enemies, A.others)
      /\ Len(ctrl) = A.ctrls /\ Allocated("controllers") = L!Old(controllers, A.ctrls)
      /\ pickups_size = A.size /\ Allocated("pickups") = L!Old(pickups, A.size)
  BY <1>1, <1>2 DEF There, OthersThere, ControllersThere, PickupsThere
<1> QED BY <1>3 DEF L!Old, Allocated

\* What a call leaves of the calls to come.
LEMMA TailOfCalls ==
    ASSUME LevelInv, NEW f, L!Calls(f)
    PROVE  /\ todo # <<>> /\ Head(todo) = todo[1] /\ todo[1].fun = f /\ Len(todo) \in Nat \ {0}
           /\ Len(todo') = Len(todo) - 1
           /\ \A k \in 1..Len(todo') : todo'[k] = todo[k + 1]
           /\ Len(todo) = 1 <=> todo' = <<>>
<1>1. todo \in Seq(L!Call) /\ todo # <<>> /\ todo' = Tail(todo) /\ Head(todo).fun = f
  BY DEF LevelInv, L!Calls
<1>2. Head(todo) = todo[1] /\ Len(todo) \in Nat \ {0}
  BY <1>1
<1>3. /\ Tail(todo) \in Seq(L!Call) /\ Len(Tail(todo)) = Len(todo) - 1
      /\ \A k \in 1..Len(Tail(todo)) : Tail(todo)[k] = todo[k + 1]
  BY <1>1, HeadTailProperties
<1>4. Len(Tail(todo)) = 0 <=> Tail(todo) = <<>>
  BY <1>3, EmptySeq
<1> QED BY <1>1, <1>2, <1>3, <1>4

\* The calls to come, after any call but the one that frees animations.
LEMMA CallsToCome ==
    ASSUME LevelInv, HeapInv, NEW f, f \notin {"free_gun_anims", "abort"},
           L!Calls(f), playing' = playing
    PROVE  /\ AnimsToCome => AnimsToCome'
           /\ ~playing' => \A k \in 1..Len(todo') : todo'[k].fun \in Freeing
<1>1. /\ todo # <<>> /\ todo[1].fun = f /\ Len(todo) \in Nat \ {0} /\ Len(todo') = Len(todo) - 1
      /\ \A k \in 1..Len(todo') : todo'[k] = todo[k + 1]
      /\ Len(todo) = 1 <=> todo' = <<>>
  BY TailOfCalls
<1>2. ASSUME AnimsToCome, ~playing PROVE AnimsToCome'
  <2>1. todo[Len(todo)].fun \in {"free_gun_anims", "abort"}
    BY <1>2 DEF AnimsToCome
  <2>2. Len(todo) # 1
    BY <1>1, <2>1
  <2>3. todo' # <<>> /\ Len(todo') \in 1..Len(todo')
    BY <1>1, <2>2
  <2>4. todo'[Len(todo')] = todo[Len(todo)]
    BY <1>1, <2>3
  <2> QED BY <2>1, <2>3, <2>4 DEF AnimsToCome
<1>3. playing => AnimsToCome'
  BY DEF AnimsToCome
<1>4. ASSUME ~playing', NEW k \in 1..Len(todo') PROVE todo'[k].fun \in Freeing
  <2>1. k + 1 \in 1..Len(todo) /\ todo'[k] = todo[k + 1]
    BY <1>1
  <2> QED BY <1>4, <2>1 DEF HeapInv
<1> QED BY <1>2, <1>3, <1>4 DEF AnimsToCome

\* A call that allocates neither lines nor animations and leaves the matrix.
LEMMA OtherCallKeeps ==
    ASSUME LevelInv, HeapInv, NEW f, f \notin {"free_gun_anims", "abort"},
           L!Calls(f), playing' = playing, levels' = levels,
           NEW Y, heap' \subseteq heap \cup Y,
           \A b \in Y : b = <<b[1], b[2], b[3]>> /\ b[1] \in KnownKind \ {"line", "animations"},
           L!B("matrix", 0) \in heap => L!B("matrix", 0) \in heap'
    PROVE  HeapInv'
<1>1. /\ AnimsToCome => AnimsToCome'
      /\ ~playing' => \A k \in 1..Len(todo') : todo'[k].fun \in Freeing
  BY CallsToCome
<1>2. ASSUME NEW b \in heap' PROVE Accounted(b)'
  <2>1. CASE b \in heap
    <3>1. Accounted(b)
      BY <2>1 DEF HeapInv
    <3> QED BY <1>1, <3>1 DEF Accounted, L!B
  <2>2. CASE b \in Y
    BY <2>2 DEF Accounted
  <2> QED BY <2>1, <2>2
<1> QED BY <1>1, <1>2 DEF HeapInv

LEMMA NextHeap == LevelInv /\ HeapInv /\ [L!Next]_(L!vars) => HeapInv'
<1> SUFFICES ASSUME LevelInv, HeapInv, [L!Next]_(L!vars) PROVE HeapInv'
  OBVIOUS
<1>0. \A p \in {enemies, controllers, pickups, guns} : p[1] \in L!Pointer
  BY LevelTyped DEF L!TypeOK, L!Kind
<1>1. ASSUME NEW setup \in {L!setup_game_1, L!setup_game_2, L!setup_multiplayer},
             L!load_level(setup)
      PROVE  HeapInv'
  <2>1. /\ todo = <<>> /\ ~playing /\ playing' = TRUE /\ heap' = heap
    BY <1>1 DEF L!load_level
  <2>2. L!B("matrix", 0) \notin heap
    BY <2>1, NothingLeft DEF Allocated, KnownKind, L!B
  <2>3. ASSUME NEW b \in heap' PROVE Accounted(b)'
    <3>1. Accounted(b) /\ ~AnimsToCome
      BY <2>1, <2>3 DEF HeapInv, AnimsToCome
    <3> QED BY <2>1, <2>2, <3>1 DEF Accounted
  <2> QED BY <2>1, <2>3 DEF HeapInv
<1>2. CASE L!load_map
  <2> DEFINE Y == {L!B("matrix", 0)} \cup {L!B("line", i) : i \in {0} \cup 1..Lines}
  <2>1. L!Calls("load_map") /\ playing' = playing /\ levels' = levels /\ heap' = heap \cup Y
    BY <1>2 DEF L!load_map
  <2>2. /\ AnimsToCome => AnimsToCome'
        /\ ~playing' => \A k \in 1..Len(todo') : todo'[k].fun \in Freeing
    BY <2>1, CallsToCome
  <2>3. ASSUME NEW b \in heap' PROVE Accounted(b)'
    <3>0. L!B("matrix", 0)' \in heap'
      BY <2>1 DEF L!B
    <3>1. CASE b \in heap
      BY <2>1, <2>2, <3>0, <3>1 DEF HeapInv, Accounted, L!B
    <3>2. CASE b = L!B("matrix", 0)
      BY <3>2 DEF Accounted, L!B, KnownKind
    <3>3. ASSUME NEW i \in {0} \cup 1..Lines, b = L!B("line", i) PROVE Accounted(b)'
      <4>1. i = Lines \/ i \in 0..(Lines - 1)
        BY GameInstances DEF L!LevelConstants
      <4> QED BY <2>1, <3>0, <3>3, <4>1 DEF Accounted, L!B, KnownKind
    <3> QED BY <2>1, <2>3, <3>1, <3>2, <3>3
  <2> QED BY <2>2, <2>3 DEF HeapInv
<1>3. CASE L!init_guns
  <2> DEFINE Y == {L!B(k, i) : k \in {"animations", "gun_frames"}, i \in L!GunNumber}
  <2>1. L!Calls("init_guns") /\ playing' = playing /\ levels' = levels /\ heap' = heap \cup Y
    BY <1>3 DEF L!init_guns
  <2>2. /\ AnimsToCome => AnimsToCome'
        /\ ~playing' => \A k \in 1..Len(todo') : todo'[k].fun \in Freeing
    BY <2>1, CallsToCome
  <2>3. playing
    <3>1. todo[1].fun = "init_guns" /\ 1 \in 1..Len(todo)
      BY <2>1, TailOfCalls
    <3> QED BY <3>1 DEF HeapInv, Freeing
  <2>4. ASSUME NEW b \in heap' PROVE Accounted(b)'
    <3>1. CASE b \in heap
      BY <2>1, <2>2, <3>1 DEF HeapInv, Accounted, L!B
    <3>2. ASSUME NEW k \in {"animations", "gun_frames"}, NEW i \in L!GunNumber, b = L!B(k, i)
          PROVE  Accounted(b)'
      <4>1. i \in 3..4 \/ i \in 0..2
        BY DEF L!GunNumber
      <4>2. AnimsToCome'
        BY <2>1, <2>3 DEF AnimsToCome
      <4> QED BY <2>1, <3>2, <4>1, <4>2 DEF Accounted, L!B, KnownKind
    <3> QED BY <2>1, <2>4, <3>1, <3>2
  <2> QED BY <2>2, <2>4 DEF HeapInv
<1>4. CASE L!close_map
  <2> DEFINE X == {L!B("matrix", 0)} \cup {L!B("line", i) : i \in 0..(Lines - 1)}
  <2>1. L!Calls("close_map") /\ playing' = playing /\ levels' = levels /\ heap' = heap \ X
    BY <1>4 DEF L!close_map, L!Free
  <2>2. /\ AnimsToCome => AnimsToCome'
        /\ ~playing' => \A k \in 1..Len(todo') : todo'[k].fun \in Freeing
    BY <2>1, CallsToCome
  <2>3. ASSUME NEW b \in heap' PROVE Accounted(b)'
    <3>1. Accounted(b) /\ b \notin X
      BY <2>1, <2>3 DEF HeapInv
    <3>2. b[1] = "line" => b[2] = Lines
      BY <3>1 DEF Accounted, L!B
    <3> QED BY <2>1, <2>2, <3>1, <3>2 DEF Accounted
  <2> QED BY <2>2, <2>3 DEF HeapInv
<1>5. CASE L!free_gun_anims
  <2>1. CASE L!Calls("free_gun_anims") /\ heap' = heap \ {L!B("animations", i) : i \in 0..2}
    <3>1. playing' = playing /\ levels' = levels
      BY <1>5 DEF L!free_gun_anims
    <3>2. \A k \in 1..Len(todo') : k + 1 \in 1..Len(todo) /\ todo'[k] = todo[k + 1]
      BY <2>1, TailOfCalls
    <3>3. ASSUME NEW b \in heap' PROVE Accounted(b)'
      <4>1. Accounted(b) /\ b \notin {L!B("animations", i) : i \in 0..2}
        BY <2>1, <3>3 DEF HeapInv
      <4>2. b[1] = "animations" => b[2] \in 3..4
        BY <4>1 DEF Accounted, L!B
      <4>3. L!B("matrix", 0) \in heap => L!B("matrix", 0) \in heap'
        BY <2>1 DEF L!B
      <4> QED BY <3>1, <4>1, <4>2, <4>3 DEF Accounted, L!B
    <3> QED BY <3>1, <3>2, <3>3 DEF HeapInv
  <2>2. CASE todo' = <<L!Do("abort")>> /\ heap' = heap
    <3>1. playing' = playing /\ levels' = levels
      BY <1>5 DEF L!free_gun_anims
    <3>2. Len(todo') = 1 /\ todo'[1].fun = "abort" /\ todo' # <<>>
      BY <2>2 DEF L!Do
    <3>3. AnimsToCome' /\ \A k \in 1..Len(todo') : todo'[k].fun \in Freeing
      BY <3>2 DEF AnimsToCome, Freeing
    <3> QED BY <2>2, <3>1, <3>3 DEF HeapInv, Accounted, L!B
  <2> QED BY <1>5, <2>1, <2>2 DEF L!free_gun_anims, L!Free
<1>6. CASE L!free_level
  <2>1. todo' = L!FreeLevel /\ playing /\ playing' = FALSE /\ heap' = heap /\ levels' = levels
    BY <1>6 DEF L!free_level
  <2>2. /\ Len(todo') = 6 /\ todo' # <<>> /\ todo'[6].fun = "free_gun_anims"
        /\ \A k \in 1..6 : todo'[k].fun \in Freeing
    BY <2>1 DEF L!FreeLevel, L!Do, Freeing
  <2>3. AnimsToCome'
    BY <2>2 DEF AnimsToCome
  <2> QED BY <2>1, <2>2, <2>3 DEF HeapInv, Accounted, L!B
<1>7. CASE L!init_collision_table
  <2> DEFINE Y == {L!B("table", 0)} \cup {L!B("row", i) : i \in 0..(Lines - 1)}
  <2>1. /\ L!Calls("init_collision_table") /\ playing' = playing /\ levels' = levels
        /\ heap' = heap \cup Y
    BY <1>7 DEF L!init_collision_table
  <2>2. \A b \in Y : b = <<b[1], b[2], b[3]>> /\ b[1] \in KnownKind \ {"line", "animations"}
    BY DEF KnownKind, L!B
  <2> HIDE DEF Y
  <2> QED BY <2>1, <2>2, OtherCallKeeps
<1>8. CASE L!init_player
  <2>1. L!Calls("init_player") /\ playing' = playing /\ levels' = levels
    BY <1>8 DEF L!init_player
  <2>2. CASE guns' = L!B("player_guns", 0) /\ heap' = heap \cup {guns'}
    <3> DEFINE Y == {L!B("player_guns", 0)}
    <3>1. \A b \in Y : b = <<b[1], b[2], b[3]>> /\ b[1] \in KnownKind \ {"line", "animations"}
      BY DEF KnownKind, L!B
    <3>2. heap' = heap \cup Y
      BY <2>2
    <3> HIDE DEF Y
    <3> QED BY <2>1, <3>1, <3>2, OtherCallKeeps
  <2>3. CASE /\ enemies' \in L!realloc(enemies, "enemies", num_enemies)
             /\ heap' = (heap \ L!Old(enemies, num_enemies))
                          \cup {enemies', L!B("guns", num_enemies), L!B("sprites", num_enemies)}
    <3> DEFINE Y == {L!B("enemies", 0), L!B("enemies", num_enemies), L!B("guns", num_enemies),
                     L!B("sprites", num_enemies)}
    <3>1. \A b \in Y : b = <<b[1], b[2], b[3]>> /\ b[1] \in KnownKind \ {"line", "animations"}
      BY DEF KnownKind, L!B
    <3>2. enemies' \in heap \cup Y
      BY <2>3, ArraysAllocated DEF L!realloc
    <3>3. heap' \subseteq heap \cup Y
      BY <2>3, <3>2
    <3>4. L!B("matrix", 0) \in heap => L!B("matrix", 0) \in heap'
      BY <1>0, <2>3 DEF L!B, L!Old, L!Pointer
    <3> HIDE DEF Y
    <3> QED BY <2>1, <3>1, <3>3, <3>4, OtherCallKeeps
  <2> QED BY <1>8, <2>2, <2>3 DEF L!init_player
<1>9. CASE L!init_enemy
  <2> DEFINE n == Len(ctrl)
             Y == {L!B("controllers", 0), L!B("controllers", n), L!B("positions", n)}
  <2>1. /\ L!Calls("init_enemy") /\ playing' = playing /\ levels' = levels
        /\ controllers' \in L!realloc(controllers, "controllers", n)
        /\ heap' = (heap \ L!Old(controllers, n)) \cup {controllers', L!B("positions", n)}
    BY <1>9 DEF L!init_enemy
  <2>2. \A b \in Y : b = <<b[1], b[2], b[3]>> /\ b[1] \in KnownKind \ {"line", "animations"}
    BY DEF KnownKind, L!B
  <2>3. controllers' \in heap \cup Y
    BY <2>1, ArraysAllocated DEF L!realloc
  <2>4. heap' \subseteq heap \cup Y
    BY <2>1, <2>3
  <2>5. L!B("matrix", 0) \in heap => L!B("matrix", 0) \in heap'
    BY <1>0, <2>1 DEF L!B, L!Old, L!Pointer
  <2> HIDE DEF Y
  <2> QED BY <2>1, <2>2, <2>4, <2>5, OtherCallKeeps
<1>10. CASE L!add_pickup
  <2> DEFINE index == IF pickups_size = 0 THEN 1 ELSE pickups_size
             Y == {L!B("pickups", 0), L!B("pickups", pickups_size)}
                    \cup {L!B(k, index) : k \in {"details", "frames", "list"}}
  <2>1. /\ L!Calls("add_pickup") /\ playing' = playing /\ levels' = levels
        /\ pickups' \in L!realloc(pickups, "pickups", pickups_size)
        /\ heap' = (heap \ L!Old(pickups, pickups_size)) \cup {pickups'}
                     \cup {L!B(k, index) : k \in {"details", "frames", "list"}}
    BY <1>10 DEF L!add_pickup
  <2>2. \A b \in Y : b = <<b[1], b[2], b[3]>> /\ b[1] \in KnownKind \ {"line", "animations"}
    BY DEF KnownKind, L!B
  <2>3. pickups' \in heap \cup Y
    BY <2>1, ArraysAllocated DEF L!realloc
  <2>4. heap' \subseteq heap \cup Y
    BY <2>1, <2>3
  <2>5. L!B("matrix", 0) \in heap => L!B("matrix", 0) \in heap'
    BY <1>0, <2>1 DEF L!B, L!Old, L!Pointer
  <2> HIDE DEF Y
  <2> QED BY <2>1, <2>2, <2>4, <2>5, OtherCallKeeps
<1>11. ASSUME NEW f \in {"free_players", "free_controllers", "free_collision_table", "free_pickups"},
              NEW X, L!Calls(f), playing' = playing, levels' = levels, heap' = heap \ X,
              L!B("matrix", 0) \notin X
       PROVE  HeapInv'
  <2> DEFINE Y == {}
  <2>1. heap' \subseteq heap \cup Y
    BY <1>11
  <2>2. L!B("matrix", 0) \in heap => L!B("matrix", 0) \in heap'
    BY <1>11
  <2>3. \A b \in Y : b = <<b[1], b[2], b[3]>> /\ b[1] \in KnownKind \ {"line", "animations"}
    OBVIOUS
  <2> HIDE DEF Y
  <2> QED BY <1>11, <2>1, <2>2, <2>3, OtherCallKeeps
<1>12. CASE L!free_players
  <2> DEFINE X == {L!B("guns", i) : i \in L!NumIndexes} \cup {guns} \cup L!Old(enemies, num_enemies)
  <2>1. L!B("matrix", 0) \notin X
    BY <1>0 DEF L!B, L!Old, L!Pointer
  <2>2. /\ L!Calls("free_players") /\ playing' = playing /\ levels' = levels /\ heap' = heap \ X
    BY <1>12 DEF L!free_players, L!Free
  <2> HIDE DEF X
  <2> QED BY <1>11, <2>1, <2>2
<1>13. CASE L!free_controllers
  <2> DEFINE X == {L!B("positions", k - 1) : k \in DOMAIN ctrl} \cup L!Old(controllers, Len(ctrl))
  <2>1. L!B("matrix", 0) \notin X
    BY <1>0 DEF L!B, L!Old, L!Pointer
  <2>2. /\ L!Calls("free_controllers") /\ playing' = playing /\ levels' = levels
        /\ heap' = heap \ X
    BY <1>13 DEF L!free_controllers, L!Free
  <2> HIDE DEF X
  <2> QED BY <1>11, <2>1, <2>2
<1>14. CASE L!free_collision_table
  <2> DEFINE X == {L!B("table", 0)} \cup {L!B("row", i) : i \in 0..(Lines - 1)}
                    \cup {L!B("list", i) : i \in 1..(pickups_size - 1)}
  <2>1. L!B("matrix", 0) \notin X
    BY DEF L!B
  <2>2. /\ L!Calls("free_collision_table") /\ playing' = playing /\ levels' = levels
        /\ heap' = heap \ X
    BY <1>14 DEF L!free_collision_table, L!Free
  <2> HIDE DEF X
  <2> QED BY <1>11, <2>1, <2>2
<1>15. CASE L!free_pickups
  <2> DEFINE X == {L!B("details", i) : i \in 1..(pickups_size - 1)} \cup ({pickups} \ {L!NULL})
  <2>1. L!B("matrix", 0) \notin X
    BY <1>0 DEF L!B, L!Pointer
  <2>2. /\ L!Calls("free_pickups") /\ playing' = playing /\ levels' = levels /\ heap' = heap \ X
    BY <1>15 DEF L!free_pickups, L!Free
  <2> HIDE DEF X
  <2> QED BY <1>11, <2>1, <2>2
<1>16. CASE L!game_handler \/ UNCHANGED L!vars
  <2>1. UNCHANGED <<todo, playing, heap, levels>>
    BY <1>16 DEF L!game_handler, L!vars
  <2> QED BY <2>1 DEF HeapInv, Accounted, AnimsToCome, L!B
<1> QED BY <1>1, <1>2, <1>3, <1>4, <1>5, <1>6, <1>7, <1>8, <1>9, <1>10, <1>12, <1>13, <1>14,
           <1>15, <1>16 DEF L!Next

LEMMA HeapInvariant == L!Spec => []HeapInv
<1>1. L!Init => HeapInv
  BY DEF L!Init, HeapInv
<1> QED BY <1>1, NextHeap, LevelInvariant, PTL DEF L!Spec

(***************************************************************************)
(* No tick follows a dangling pointer, no call of load_level or free_level *)
(* but free_gun_anims touches a freed block, and nothing but the blocks    *)
(* named by Unfreed is left when free_level is done: for any number of     *)
(* lines, bots and pickups, and any levels one after the other.            *)
(***************************************************************************)
THEOREM LevelMemoryIsSound == L!Spec => []MemoryIsSound
<1>1. LevelInv /\ HeapInv => MemoryIsSound
  <2> SUFFICES ASSUME LevelInv, HeapInv PROVE MemoryIsSound
    OBVIOUS
  <2>1. L!TicksTouchLive /\ L!LoadsAndFreesTouchLive
    BY DEF LevelInv, OnlyGunAnims, L!TicksTouchLive, L!LoadsAndFreesTouchLive
  <2>2. L!LeavesOnlyUnfreed
    <3> SUFFICES ASSUME ~playing, todo = <<>>, NEW b \in heap PROVE L!Unfreed(b)
      BY DEF L!LeavesOnlyUnfreed
    <3>1. Accounted(b) /\ ~AnimsToCome
      BY DEF HeapInv, AnimsToCome
    <3>2. b[1] \in {"line", "animations", "gun_frames", "sprites", "frames"}
      BY <3>1, NothingLeft DEF Allocated, Accounted
    <3>3. L!B("matrix", 0) \notin heap
      BY NothingLeft DEF Allocated, KnownKind, L!B
    <3> QED BY <3>1, <3>2, <3>3 DEF Accounted, L!Unfreed, L!Kind
  <2> QED BY <2>1, <2>2 DEF MemoryIsSound
<1> QED BY <1>1, LevelInvariant, HeapInvariant, PTL

-----------------------------------------------------------------------------
(* Module Renders: the drawing order of a frame and the digits of the HUD. *)

\* A set of numbers that is not empty has a least one.
LEMMA LeastNat == ASSUME NEW T \in SUBSET Nat, T # {} PROVE \E x \in T : \A y \in T : x <= y
<1> DEFINE Rel == {ss \in Nat \X Nat : ss[1] < ss[2]}
<1>1. IsWellFoundedOn(Rel, Nat)
  BY NatLessThanWellFounded DEF OpToRel
<1>2. PICK x \in T : \A y \in T : ~ (<<y, x>> \in Rel)
  <2> HIDE DEF Rel
  <2>1. QED
    BY <1>1, WFMin
<1>3. ASSUME NEW y \in T PROVE x <= y
  <2>1. x \in Nat /\ y \in Nat /\ ~(<<y, x>> \in Rel)
    BY <1>2
  <2>2. ~(y < x)
    BY <2>1
  <2>3. QED
    BY <2>1, <2>2
<1>4. QED
  BY <1>2, <1>3

\* The array of renders, in which n places are used.  What they hold is at some
\* distance, so that the loop which moves it up does not stop early.
IsArray(r, n) ==
    /\ n \in 0..R!num_items
    /\ DOMAIN r = 0..(R!num_items - 1)
    /\ \A i \in DOMAIN r : /\ r[i].distance \in Int
                           /\ r[i].what \in [object : {0} \cup R!Object, part : R!Part]
    /\ \A i \in 0..(n - 1) : r[i].distance > 0

\* The places used hold the renders of E, each of them once.
Holds(r, n, E) ==
    /\ \A i \in 0..(n - 1) : r[i].what \in E
    /\ \A w \in E : \E i \in 0..(n - 1) : r[i].what = w
    /\ \A i, j \in 0..(n - 1) : r[i].what = r[j].what => i = j

IsSorted(r, n) == \A i, j \in 0..(n - 1) : i < j => r[i].distance >= r[j].distance

\* A part w is drawn over the part u of the same person.
Over(w, u) ==
    /\ w.object = u.object
    /\ \/ u.part = "body" /\ w.part = "health"
       \/ u.part = "health" /\ w.part = "armor"

IsLayered(r, n) == \A i, j \in 0..(n - 1) : Over(r[j].what, r[i].what) => i < j

\* renders_insert_sorted puts v at a place `at` behind all that is as far or
\* farther, and moves up what is nearer.
LEMMA InsertAt ==
    ASSUME NEW r, NEW n, NEW v, IsArray(r, n), n < R!num_items, R!num_items \in Nat,
           v.distance \in Int, IsSorted(r, n)
    PROVE  \E at \in 0..n :
             /\ \A i \in 0..(n - 1) : i < at => r[i].distance >= v.distance
             /\ \A i \in 0..(n - 1) : i >= at => r[i].distance < v.distance
             /\ R!renders_insert_sorted(r, n, v)
                  = [i \in DOMAIN r |-> CASE i = at -> v
                                          [] i > at /\ i <= n -> r[i - 1]
                                          [] OTHER -> r[i]]
<1> DEFINE before == {i \in 0..(n - 1) : r[i].distance < v.distance}
           at == IF before = {} THEN n ELSE CHOOSE i \in before : \A j \in before : i <= j
<1>1. n \in Nat /\ before \subseteq 0..(n - 1) /\ before \in SUBSET Nat
  BY DEF IsArray
<1>2. before # {} => at \in before /\ \A j \in before : at <= j
  <2>1. SUFFICES ASSUME before # {} PROVE at \in before /\ \A j \in before : at <= j
    OBVIOUS
  <2>2. \E i \in before : \A j \in before : i <= j
    <3> HIDE DEF before
    <3>1. QED
      BY <1>1, <2>1, LeastNat
  <2> QED BY <2>1, <2>2
<1>3. before = {} => at = n
  OBVIOUS
<1> DEFINE moved == {j \in (at + 1)..n : \A k \in at..(j - 1) : r[k].distance > 0}
<1>4. R!renders_insert_sorted(r, n, v)
                  = [i \in DOMAIN r |-> CASE i = at -> v
                                          [] i \in moved -> r[i - 1]
                                          [] OTHER -> r[i]]
  BY Zenon DEF R!renders_insert_sorted
<1> HIDE DEF at
<1>5. at \in 0..n
  <2>1. CASE before = {}
    BY <1>1, <1>3, <2>1
  <2>2. CASE before # {}
    BY <1>1, <1>2, <2>2
  <2> QED BY <2>1, <2>2
<1>6. ASSUME NEW i \in 0..(n - 1), i < at PROVE r[i].distance >= v.distance
  <2>1. i \notin before
    BY <1>1, <1>2, <1>5, <1>6
  <2>2. r[i].distance \in Int
    BY <1>1 DEF IsArray
  <2> QED BY <2>1, <2>2
<1>7. ASSUME NEW i \in 0..(n - 1), i >= at PROVE r[i].distance < v.distance
  <2>1. before # {}
    BY <1>1, <1>3, <1>7
  <2>2. at \in 0..(n - 1) /\ r[at].distance < v.distance
    BY <1>2, <2>1
  <2>3. r[i].distance \in Int /\ r[at].distance \in Int
    BY <1>1, <2>2 DEF IsArray
  <2>4. r[at].distance >= r[i].distance
    <3>1. CASE at = i
      BY <3>1, <2>3
    <3>2. CASE at < i
      BY <3>2, <2>2 DEF IsSorted
    <3> QED BY <3>1, <3>2, <1>7, <1>5, <1>1
  <2> QED BY <2>2, <2>3, <2>4
<1>8. \A i \in DOMAIN r : i \in moved <=> i > at /\ i <= n
  <2>1. DOMAIN r = 0..(R!num_items - 1) /\ \A k \in 0..(n - 1) : r[k].distance > 0
    BY DEF IsArray
  <2> QED BY <1>1, <1>5, <2>1
<1> HIDE DEF moved
<1>9. R!renders_insert_sorted(r, n, v)
                  = [i \in DOMAIN r |-> CASE i = at -> v
                                          [] i > at /\ i <= n -> r[i - 1]
                                          [] OTHER -> r[i]]
  BY <1>4, <1>8
<1> QED BY <1>5, <1>6, <1>7, <1>9

\* What holds of the array between two insertions: it holds the renders of E
\* in drawing order, and those of object o are not nearer than d.
Good(r, n, E, o, d) ==
    /\ IsArray(r, n) /\ IsSorted(r, n) /\ Holds(r, n, E) /\ IsLayered(r, n)
    /\ \A i \in 0..(n - 1) : r[i].what.object = o => r[i].distance >= d

\* Inserting a render that is not in the array, is not farther than others of
\* its object, and is drawn under none of them.
LEMMA InsertGood ==
    ASSUME NEW r, NEW n, NEW v, NEW E, NEW o, NEW d,
           R!num_items \in Nat, n < R!num_items, Good(r, n, E, o, d), d \in Int,
           v.distance \in Int, v.distance > 0, v.distance <= d, v.what.object = o,
           v.what \in [object : {0} \cup R!Object, part : R!Part], v.what \notin E,
           \A w \in E : ~Over(w, v.what)
    PROVE  Good(R!renders_insert_sorted(r, n, v), n + 1, E \cup {v.what}, o, v.distance)
<1> DEFINE q == R!renders_insert_sorted(r, n, v)
<1>1. /\ n \in Nat /\ DOMAIN r = 0..(R!num_items - 1)
      /\ \A i \in DOMAIN r : r[i].distance \in Int
      /\ \A i \in DOMAIN r : r[i].what \in [object : {0} \cup R!Object, part : R!Part]
  BY DEF Good, IsArray
<1>2. PICK at \in 0..n :
             /\ \A i \in 0..(n - 1) : i < at => r[i].distance >= v.distance
             /\ \A i \in 0..(n - 1) : i >= at => r[i].distance < v.distance
             /\ q = [i \in DOMAIN r |-> CASE i = at -> v
                                          [] i > at /\ i <= n -> r[i - 1]
                                          [] OTHER -> r[i]]
  BY InsertAt DEF Good
<1> HIDE DEF q
<1>3. /\ DOMAIN q = 0..(R!num_items - 1) /\ at \in DOMAIN q /\ q[at] = v
      /\ \A i \in 0..n : i < at => i \in 0..(n - 1) /\ q[i] = r[i]
      /\ \A i \in 0..n : i > at => i - 1 \in 0..(n - 1) /\ q[i] = r[i - 1]
      /\ \A i \in DOMAIN q : i > n => q[i] = r[i]
  <2>1. DOMAIN q = 0..(R!num_items - 1) /\ at \in DOMAIN q /\ q[at] = v
    BY <1>1, <1>2
  <2>2. ASSUME NEW i \in 0..n, i < at PROVE i \in 0..(n - 1) /\ q[i] = r[i]
    BY <1>1, <1>2, <2>2
  <2>3. ASSUME NEW i \in 0..n, i > at PROVE i - 1 \in 0..(n - 1) /\ q[i] = r[i - 1]
    BY <1>1, <1>2, <2>3
  <2>4. ASSUME NEW i \in DOMAIN q, i > n PROVE q[i] = r[i]
    BY <1>1, <1>2, <2>1, <2>4
  <2> QED BY <2>1, <2>2, <2>3, <2>4
\* Where a place of the new array comes from.
<1> DEFINE from(i) == IF i < at THEN i ELSE i - 1
<1>4. ASSUME NEW i \in 0..n, i # at
      PROVE  from(i) \in 0..(n - 1) /\ q[i] = r[from(i)]
  BY <1>1, <1>3, <1>4
<1>5. ASSUME NEW i \in 0..n, NEW j \in 0..n, i # at, j # at
      PROVE  /\ i < j <=> from(i) < from(j)
             /\ from(i) = from(j) => i = j
  BY <1>5
<1>6. \A i \in 0..(n - 1) : i \in DOMAIN r
  BY <1>1
<1>7. 0..((n + 1) - 1) = 0..n
  BY <1>1
<1>8. IsArray(q, n + 1)
  <2>1. n + 1 \in 0..R!num_items
    BY <1>1
  <2>2. ASSUME NEW i \in DOMAIN q
        PROVE  /\ q[i].distance \in Int
               /\ q[i].what \in [object : {0} \cup R!Object, part : R!Part]
    <3>1. CASE i > n
      BY <3>1, <1>3, <1>1
    <3>2. CASE i = at
      BY <3>2, <1>3
    <3>3. CASE i <= n /\ i # at
      <4>1. i \in 0..n
        BY <3>3, <1>1, <1>3
      <4>2. from(i) \in DOMAIN r /\ q[i] = r[from(i)]
        BY <4>1, <3>3, <1>4, <1>6
      <4> QED BY <4>2, <1>1
    <3> QED BY <3>1, <3>2, <3>3, <1>1, <1>3
  <2>3. ASSUME NEW i \in 0..((n + 1) - 1) PROVE q[i].distance > 0
    <3>1. CASE i = at
      BY <3>1, <1>3
    <3>2. CASE i # at
      <4>1. from(i) \in 0..(n - 1) /\ q[i] = r[from(i)]
        BY <3>2, <1>4, <1>7
      <4> HIDE DEF from
      <4> QED BY <4>1 DEF Good, IsArray
    <3> QED BY <3>1, <3>2
  <2> QED BY <2>1, <2>2, <2>3, <1>3 DEF IsArray
<1>9. IsSorted(q, n + 1)
  <2>1. SUFFICES ASSUME NEW i \in 0..n, NEW j \in 0..n, i < j
                 PROVE  q[i].distance >= q[j].distance
    BY <1>7 DEF IsSorted
  <2>2. CASE i = at
    <3>1. j > at /\ q[i] = v /\ q[j] = r[j - 1] /\ j - 1 \in 0..(n - 1) /\ j - 1 >= at
      BY <2>1, <2>2, <1>3
    <3>2. r[j - 1].distance < v.distance /\ r[j - 1].distance \in Int
      BY <3>1, <1>2, <1>6, <1>1
    <3> QED BY <3>1, <3>2
  <2>3. CASE j = at
    <3>1. q[j] = v /\ q[i] = r[i] /\ i \in 0..(n - 1) /\ i < at
      BY <2>1, <2>3, <1>3
    <3> QED BY <3>1, <1>2
  <2>4. CASE i # at /\ j # at
    <3>1. /\ from(i) \in 0..(n - 1) /\ q[i] = r[from(i)] /\ from(j) \in 0..(n - 1)
          /\ q[j] = r[from(j)] /\ from(i) < from(j)
      BY <2>1, <2>4, <1>4, <1>5
    <3> HIDE DEF from
    <3>2. r[from(i)].distance >= r[from(j)].distance
      BY <3>1 DEF Good, IsSorted
    <3> QED BY <3>1, <3>2
  <2> QED BY <2>2, <2>3, <2>4
<1>10. Holds(q, n + 1, E \cup {v.what})
  <2>1. ASSUME NEW i \in 0..n, i # at PROVE q[i].what \in E
    <3>1. from(i) \in 0..(n - 1) /\ q[i] = r[from(i)]
      BY <2>1, <1>4
    <3> QED BY <3>1 DEF Good, Holds
  <2>2. ASSUME NEW w \in E PROVE \E i \in 0..n : q[i].what = w
    <3>1. PICK k \in 0..(n - 1) : r[k].what = w
      BY DEF Good, Holds
    <3>2. CASE k < at
      <4>1. k \in 0..n /\ q[k] = r[k]
        BY <3>2, <1>1, <1>3
      <4> QED BY <4>1, <3>1
    <3>3. CASE k >= at
      <4>1. k + 1 \in 0..n /\ k + 1 > at /\ (k + 1) - 1 = k
        BY <3>3, <1>1
      <4>2. q[k + 1] = r[(k + 1) - 1]
        BY <4>1, <1>3
      <4>3. q[k + 1].what = w
        BY <4>1, <4>2, <3>1
      <4> QED BY <4>1, <4>3
    <3> QED BY <3>2, <3>3, <1>1
  <2>3. ASSUME NEW i \in 0..n, NEW j \in 0..n, q[i].what = q[j].what PROVE i = j
    <3>1. CASE i = at \/ j = at
      BY <3>1, <2>3, <2>1, <1>3
    <3>2. CASE i # at /\ j # at
      <4>1. /\ from(i) \in 0..(n - 1) /\ q[i] = r[from(i)] /\ from(j) \in 0..(n - 1)
            /\ q[j] = r[from(j)] /\ (from(i) = from(j) => i = j)
        BY <3>2, <1>4, <1>5
      <4> HIDE DEF from
      <4>2. r[from(i)].what = r[from(j)].what => from(i) = from(j)
        BY <4>1 DEF Good, Holds
      <4> QED BY <4>1, <4>2, <2>3
    <3> QED BY <3>1, <3>2
  <2>4. \A i \in 0..n : q[i].what \in E \cup {v.what}
    BY <2>1, <1>3
  <2>5. \A w \in E \cup {v.what} : \E i \in 0..n : q[i].what = w
    <3>1. at \in 0..n /\ q[at].what = v.what
      BY <1>2, <1>3
    <3> QED BY <3>1, <2>2
  <2> QED BY <2>3, <2>4, <2>5, <1>7 DEF Holds
<1>11. IsLayered(q, n + 1)
  <2>1. SUFFICES ASSUME NEW i \in 0..n, NEW j \in 0..n, Over(q[j].what, q[i].what)
                 PROVE  i < j
    BY <1>7 DEF IsLayered
  <2>2. CASE i = at /\ j = at
    <3>1. Over(v.what, v.what)
      BY <2>1, <2>2, <1>3
    <3> QED BY <3>1 DEF Over
  <2>3. CASE i = at /\ j # at
    <3>1. from(j) \in 0..(n - 1) /\ q[j] = r[from(j)] /\ q[i] = v
      BY <2>3, <1>3, <1>4
    <3>2. r[from(j)].what \in E /\ Over(r[from(j)].what, v.what)
      BY <3>1, <2>1 DEF Good, Holds
    <3> QED BY <3>2
  <2>4. CASE i # at /\ j = at
    <3>1. from(i) \in 0..(n - 1) /\ q[i] = r[from(i)] /\ q[j] = v
      BY <2>4, <1>3, <1>4
    <3>2. r[from(i)].what.object = o
      <4>1. Over(v.what, r[from(i)].what)
        BY <3>1, <2>1
      <4> QED BY <4>1 DEF Over
    <3>3. r[from(i)].distance >= d /\ r[from(i)].distance \in Int
      BY <3>1, <3>2, <1>1, <1>6 DEF Good
    <3>4. ~(from(i) >= at)
      <4>1. r[from(i)].distance >= v.distance
        BY <3>3
      <4> HIDE DEF from
      <4> QED BY <4>1, <3>1, <3>3, <1>2
    <3> QED BY <3>1, <3>4, <2>4
  <2>5. CASE i # at /\ j # at
    <3>1. /\ from(i) \in 0..(n - 1) /\ q[i] = r[from(i)] /\ from(j) \in 0..(n - 1)
          /\ q[j] = r[from(j)] /\ (from(i) < from(j) => i < j)
      BY <2>5, <1>4, <1>5
    <3> HIDE DEF from
    <3>2. Over(r[from(j)].what, r[from(i)].what)
      BY <3>1, <2>1
    <3>3. from(i) < from(j)
      BY <3>1, <3>2 DEF Good, IsLayered
    <3> QED BY <3>1, <3>3
  <2> QED BY <2>2, <2>3, <2>4, <2>5
<1>12. ASSUME NEW i \in 0..((n + 1) - 1), q[i].what.object = o PROVE q[i].distance >= v.distance
  <2>1. i \in 0..n
    BY <1>7
  <2>2. CASE i = at
    BY <2>2, <1>3
  <2>3. CASE i # at
    <3>1. from(i) \in 0..(n - 1) /\ q[i] = r[from(i)]
      BY <2>1, <2>3, <1>4
    <3> HIDE DEF from
    <3>2. r[from(i)].distance >= d /\ r[from(i)].distance \in Int
      BY <3>1, <1>12, <1>1, <1>6 DEF Good
    <3> QED BY <3>1, <3>2
  <2> QED BY <2>2, <2>3
<1> QED BY <1>8, <1>9, <1>10, <1>11, <1>12 DEF Good, q

LEMMA ArrayPlaces ==
    ASSUME NEW r, NEW n, IsArray(r, n), R!num_items \in Nat
    PROVE  n \in Nat /\ \A i \in 0..(n - 1) : i \in DOMAIN r /\ r[i].distance \in Int
  BY DEF IsArray

\* The renders of the objects before the k-th that are not hidden.
Expected(k, h) ==
    {w \in [object : R!Object, part : R!Part] :
       w.object < k /\ w.object \notin h /\ w.part \in R!Parts(w.object)}

\* The places that the objects before the k-th need at most.
Room(k) ==
    IF k <= NumEnemies + 1 THEN 3 * (k - 1) ELSE 3 * NumEnemies + (k - 1 - NumEnemies)

RendersInv ==
    /\ next \in 1..(NumEnemies + NumPickups + 1) /\ hidden \subseteq 1..(next - 1)
    /\ size <= Room(next)
    /\ IsArray(renders, size) /\ IsSorted(renders, size) /\ IsLayered(renders, size)
    /\ Holds(renders, size, Expected(next, hidden))
    /\ R!ShowsValue

LEMMA RendersNumbers ==
    /\ NumEnemies \in Nat /\ NumPickups \in Nat
    /\ R!num_items = 3 * NumEnemies + NumPickups + 1 /\ R!num_items \in Nat
    /\ R!Object = 1..(NumEnemies + NumPickups)
    /\ \A d \in Distances : d \in Int /\ d > 0 /\ d - 1 > 0
<1>1. R!RendersConstants
  BY GameInstances
<1>2. \A d \in Distances : d \in Nat \ {0} /\ d % 2 = 0
  BY <1>1 DEF R!RendersConstants
<1>3. ASSUME NEW d \in Distances PROVE d \in Int /\ d > 0 /\ d - 1 > 0
  <2>1. d \in Nat \ {0} /\ d % 2 = 0
    BY <1>2
  <2> QED BY <2>1
<1>4. NumEnemies \in Nat /\ NumPickups \in Nat
  BY <1>1 DEF R!RendersConstants
<1> QED BY <1>3, <1>4 DEF R!num_items, R!Object

\* The parts of the next object are expected when it has been set up, and
\* nothing is when it is skipped.
LEMMA ExpectedNext ==
    ASSUME NEW k \in R!Object, NEW h, h \subseteq 1..(k - 1)
    PROVE  /\ k <= NumEnemies =>
                Expected(k + 1, h) = ((Expected(k, h) \cup {[object |-> k, part |-> "body"]})
                                       \cup {[object |-> k, part |-> "health"]})
                                       \cup {[object |-> k, part |-> "armor"]}
           /\ k > NumEnemies =>
                Expected(k + 1, h) = Expected(k, h) \cup {[object |-> k, part |-> "body"]}
           /\ Expected(k + 1, h \cup {k}) = Expected(k, h)
           /\ \A w \in Expected(k, h) : w.object < k /\ w.object # k
<1>1. k \in Nat /\ k \notin h /\ k < k + 1 /\ k \in R!Object
  BY RendersNumbers
<1>2. \A o \in R!Object : o \in Nat
  BY RendersNumbers
<1>3. ASSUME NEW w
      PROVE  w \in Expected(k + 1, h) <=>
               \/ w \in Expected(k, h)
               \/ w \in [object : R!Object, part : R!Part] /\ w.object = k /\ w.part \in R!Parts(k)
  <2>1. CASE w \in [object : R!Object, part : R!Part]
    <3>1. w.object \in Nat /\ (w.object < k + 1 <=> w.object < k \/ w.object = k)
      <4>1. w.object \in Nat
        BY <1>2, <2>1
      <4> QED BY <4>1, <1>1
    <3> QED BY <1>1, <2>1, <3>1 DEF Expected
  <2>2. CASE w \notin [object : R!Object, part : R!Part]
    BY <2>2 DEF Expected
  <2> QED BY <2>1, <2>2
<1>4. ASSUME NEW w
      PROVE  w \in [object : R!Object, part : R!Part] /\ w.object = k /\ w.part \in R!Parts(k)
               <=> \E p \in R!Parts(k) : w = [object |-> k, part |-> p]
  <2>1. R!Parts(k) \subseteq R!Part
    BY DEF R!Parts, R!Part
  <2> QED BY <2>1, <1>1
<1>5. k <= NumEnemies => R!Parts(k) = {"body", "health", "armor"}
  BY DEF R!Parts, R!Part
<1>6. k > NumEnemies => R!Parts(k) = {"body"}
  BY <1>1, RendersNumbers DEF R!Parts
<1> DEFINE E == Expected(k, h)
           E1 == Expected(k + 1, h)
<1>7. \A w : w \in E1 <=> w \in E \/ \E p \in R!Parts(k) : w = [object |-> k, part |-> p]
  BY <1>3, <1>4
<1>8. Expected(k + 1, h \cup {k}) = E
  <2>1. ASSUME NEW w \in [object : R!Object, part : R!Part]
        PROVE  (w.object < k + 1 /\ w.object \notin h \cup {k}) <=> (w.object < k /\ w.object \notin h)
    <3>1. w.object \in Nat
      BY <1>2
    <3> QED BY <3>1, <1>1
  <2> QED BY <2>1 DEF Expected
<1>9. \A w \in E : w.object < k /\ w.object # k
  BY <1>1, <1>2 DEF Expected
<1> HIDE DEF E, E1
<1>10. k <= NumEnemies =>
        E1 = ((E \cup {[object |-> k, part |-> "body"]})
                \cup {[object |-> k, part |-> "health"]}) \cup {[object |-> k, part |-> "armor"]}
  BY <1>5, <1>7
<1>11. k > NumEnemies => E1 = E \cup {[object |-> k, part |-> "body"]}
  BY <1>6, <1>7
<1> QED BY <1>8, <1>9, <1>10, <1>11 DEF E, E1

\* Three insertions at most, each into a place that is left.
LEMMA SetupStep ==
    ASSUME RendersInv, NEW d \in Distances, R!setup_renders(d)
    PROVE  RendersInv'
<1>1. /\ d \in Int /\ d > 0 /\ d - 1 > 0 /\ NumEnemies \in Nat /\ NumPickups \in Nat
      /\ R!num_items = 3 * NumEnemies + NumPickups + 1 /\ R!num_items \in Nat
      /\ R!Object = 1..(NumEnemies + NumPickups)
  BY RendersNumbers
<1>2. next \in R!Object /\ next' = next + 1 /\ hidden' = hidden /\ shown' = shown
  BY DEF R!setup_renders
<1>3. size \in Nat /\ next \in Nat
  BY <1>1, <1>2 DEF RendersInv, IsArray
<1> DEFINE E == Expected(next, hidden)
           w1 == [object |-> next, part |-> "body"]
           w2 == [object |-> next, part |-> "health"]
           w3 == [object |-> next, part |-> "armor"]
           v1 == R!Render(next, "body", d)
           v2 == R!Render(next, "health", d)
           v3 == R!Render(next, "armor", d)
           a1 == R!renders_insert_sorted(renders, size, v1)
           a2 == R!renders_insert_sorted(a1, size + 1, v2)
           a3 == R!renders_insert_sorted(a2, (size + 1) + 1, v3)
<1>4. hidden \subseteq 1..(next - 1)
  BY DEF RendersInv
<1>5. /\ next <= NumEnemies => Expected(next + 1, hidden) = ((E \cup {w1}) \cup {w2}) \cup {w3}
      /\ next > NumEnemies => Expected(next + 1, hidden) = E \cup {w1}
      /\ \A w \in E : w.object < next /\ w.object # next
  BY <1>2, <1>4, ExpectedNext
<1>6. /\ v1.distance = d /\ v2.distance = d /\ v3.distance = d - 1
      /\ v1.what = w1 /\ v2.what = w2 /\ v3.what = w3
  BY DEF R!Render
<1>7. w1.object = next /\ w2.object = next /\ w3.object = next
  OBVIOUS
<1>8. /\ w1 \in [object : {0} \cup R!Object, part : R!Part]
      /\ w2 \in [object : {0} \cup R!Object, part : R!Part]
      /\ w3 \in [object : {0} \cup R!Object, part : R!Part]
  BY <1>2 DEF R!Part
<1>9. w2 # w1 /\ w3 # w1 /\ w3 # w2 /\ ~Over(w1, w2) /\ ~Over(w1, w3) /\ ~Over(w2, w3)
  BY DEF Over
<1>10. ASSUME NEW w \in E
       PROVE  /\ w # w1 /\ w # w2 /\ w # w3
              /\ ~Over(w, w1) /\ ~Over(w, w2) /\ ~Over(w, w3)
  <2>1. w.object # next
    BY <1>5
  <2> QED BY <2>1, <1>7 DEF Over
<1>11. Good(renders, size, E, next, d)
  <2>1. ASSUME NEW i \in 0..(size - 1) PROVE renders[i].what.object # next
    <3>1. renders[i].what \in E
      BY DEF RendersInv, Holds
    <3> QED BY <3>1, <1>5
  <2> QED BY <2>1 DEF RendersInv, Good
<1>12. size < R!num_items /\ (next <= NumEnemies => (size + 1) + 1 < R!num_items)
  <2>1. size <= Room(next)
    BY DEF RendersInv
  <2> QED BY <2>1, <1>1, <1>2, <1>3 DEF Room
<1> HIDE DEF E, w1, w2, w3, v1, v2, v3
<1>13. Good(a1, size + 1, E \cup {w1}, next, d)
  <2>1. Good(a1, size + 1, E \cup {v1.what}, next, v1.distance)
    <3>1. /\ v1.distance \in Int /\ v1.distance > 0 /\ v1.distance <= d /\ v1.what.object = next
          /\ v1.what \in [object : {0} \cup R!Object, part : R!Part]
          /\ v1.what \notin E /\ \A w \in E : ~Over(w, v1.what)
      BY <1>1, <1>6, <1>7, <1>8, <1>10
    <3> QED BY <3>1, <1>1, <1>11, <1>12, InsertGood
  <2> QED BY <2>1, <1>6
<1> HIDE DEF a1
<1>14. next <= NumEnemies => Good(a2, (size + 1) + 1, (E \cup {w1}) \cup {w2}, next, d)
  <2>1. SUFFICES ASSUME next <= NumEnemies
                 PROVE  Good(a2, (size + 1) + 1, (E \cup {w1}) \cup {w2}, next, d)
    OBVIOUS
  <2>2. Good(a2, (size + 1) + 1, (E \cup {w1}) \cup {v2.what}, next, v2.distance)
    <3>1. /\ v2.distance \in Int /\ v2.distance > 0 /\ v2.distance <= d /\ v2.what.object = next
          /\ v2.what \in [object : {0} \cup R!Object, part : R!Part]
          /\ v2.what \notin E \cup {w1} /\ \A w \in E \cup {w1} : ~Over(w, v2.what)
      BY <1>1, <1>6, <1>7, <1>8, <1>9, <1>10
    <3>2. size + 1 < R!num_items
      BY <2>1, <1>1, <1>3, <1>12
    <3> QED BY <3>1, <3>2, <1>1, <1>13, InsertGood
  <2> QED BY <2>2, <1>6
<1> HIDE DEF a2
<1>15. next <= NumEnemies
        => Good(a3, ((size + 1) + 1) + 1, ((E \cup {w1}) \cup {w2}) \cup {w3}, next, d - 1)
  <2>1. SUFFICES ASSUME next <= NumEnemies
                 PROVE  Good(a3, ((size + 1) + 1) + 1, ((E \cup {w1}) \cup {w2}) \cup {w3}, next, d - 1)
    OBVIOUS
  <2>2. Good(a3, ((size + 1) + 1) + 1, ((E \cup {w1}) \cup {w2}) \cup {v3.what}, next, v3.distance)
    <3>1. /\ v3.distance \in Int /\ v3.distance > 0 /\ v3.distance <= d /\ v3.what.object = next
          /\ v3.what \in [object : {0} \cup R!Object, part : R!Part]
          /\ v3.what \notin (E \cup {w1}) \cup {w2}
          /\ \A w \in (E \cup {w1}) \cup {w2} : ~Over(w, v3.what)
      BY <1>1, <1>6, <1>7, <1>8, <1>9, <1>10
    <3>2. (size + 1) + 1 < R!num_items
      BY <2>1, <1>12
    <3>3. Good(a2, (size + 1) + 1, (E \cup {w1}) \cup {w2}, next, d)
      BY <2>1, <1>14
    <3> QED BY <3>1, <3>2, <3>3, <1>1, InsertGood
  <2> QED BY <2>2, <1>6
<1> HIDE DEF a3
<1> DEFINE s0 == [array |-> renders, size |-> size]
           s1 == R!Insert(s0, v1)
           s2 == R!Insert(R!Insert(s1, v2), v3)
<1>16. s1 = [array |-> a1, size |-> size + 1]
  <2>1. ~(v1.distance <= 0)
    BY <1>1, <1>6
  <2> QED BY <2>1 DEF R!Insert, a1
<1>17. R!Insert(s1, v2) = [array |-> a2, size |-> (size + 1) + 1]
  <2>1. ~(v2.distance <= 0)
    BY <1>1, <1>6
  <2>2. s1.array = a1 /\ s1.size = size + 1
    BY <1>16
  <2> HIDE DEF s1
  <2> QED BY <2>1, <2>2 DEF R!Insert, a2
<1>18. s2 = [array |-> a3, size |-> ((size + 1) + 1) + 1]
  <2>1. ~(v3.distance <= 0)
    BY <1>1, <1>6
  <2> DEFINE s == R!Insert(s1, v2)
  <2>2. s.array = a2 /\ s.size = (size + 1) + 1
    BY <1>17
  <2>3. s2 = R!Insert(s, v3)
    OBVIOUS
  <2> HIDE DEF s, s1, s2
  <2> QED BY <2>1, <2>2, <2>3 DEF R!Insert, a3
<1>19. /\ next <= NumEnemies => renders' = s2.array /\ size' = s2.size
       /\ ~(next <= NumEnemies) => renders' = s1.array /\ size' = s1.size
  BY DEF R!setup_renders, v1, v2, v3
<1> HIDE DEF s1, s2
<1>20. Good(renders', size', Expected(next', hidden'), next, d - 1) /\ size' <= Room(next')
  <2>1. CASE next <= NumEnemies
    <3>1. renders' = a3 /\ size' = ((size + 1) + 1) + 1
      BY <2>1, <1>18, <1>19
    <3>2. Expected(next', hidden') = ((E \cup {w1}) \cup {w2}) \cup {w3}
      BY <2>1, <1>2, <1>5
    <3>3. Good(renders', size', Expected(next', hidden'), next, d - 1)
      BY <3>1, <3>2, <2>1, <1>15
    <3>4. size <= Room(next)
      BY DEF RendersInv
    <3>5. size' <= Room(next')
      BY <3>1, <3>4, <2>1, <1>1, <1>2, <1>3 DEF Room
    <3> QED BY <3>3, <3>5
  <2>2. CASE ~(next <= NumEnemies)
    <3>1. renders' = a1 /\ size' = size + 1
      BY <2>2, <1>16, <1>19
    <3>2. next > NumEnemies
      BY <2>2, <1>1, <1>3
    <3>3. Expected(next', hidden') = E \cup {w1}
      BY <3>2, <1>2, <1>5
    <3>4. Good(renders', size', Expected(next', hidden'), next, d)
      BY <3>1, <3>3, <1>13
    <3>5. size <= Room(next)
      BY DEF RendersInv
    <3>6. size' <= Room(next')
      BY <3>1, <3>5, <3>2, <1>1, <1>2, <1>3 DEF Room
    <3>7. IsArray(renders', size')
      BY <3>4 DEF Good
    <3>8. \A i \in 0..(size' - 1) : renders'[i].distance \in Int
      BY <3>7, <1>1, ArrayPlaces
    <3>9. \A i \in 0..(size' - 1) : renders'[i].what.object = next => renders'[i].distance >= d - 1
      BY <3>4, <3>8, <1>1 DEF Good
    <3> QED BY <3>4, <3>6, <3>9 DEF Good
  <2> QED BY <2>1, <2>2
<1>21. next' \in 1..(NumEnemies + NumPickups + 1) /\ hidden' \subseteq 1..(next' - 1)
  BY <1>1, <1>2, <1>4
<1>22. R!ShowsValue'
  <2>1. R!ShowsValue
    BY DEF RendersInv
  <2> QED BY <2>1, <1>2 DEF R!ShowsValue
<1> QED BY <1>20, <1>21, <1>22 DEF RendersInv, Good, IsArray, IsSorted, IsLayered, Holds

LEMMA SkipStep == ASSUME RendersInv, R!skip PROVE RendersInv'
<1>1. /\ NumEnemies \in Nat /\ NumPickups \in Nat
      /\ R!Object = 1..(NumEnemies + NumPickups)
  BY RendersNumbers
<1>2. /\ next \in R!Object /\ next' = next + 1 /\ hidden' = hidden \cup {next}
      /\ renders' = renders /\ size' = size /\ shown' = shown
  BY DEF R!skip
<1>3. hidden \subseteq 1..(next - 1) /\ next \in Nat /\ size \in Int
  BY <1>1, <1>2, RendersNumbers DEF RendersInv, IsArray
<1>4. Expected(next + 1, hidden \cup {next}) = Expected(next, hidden)
  BY <1>2, <1>3, ExpectedNext
<1>5. size <= Room(next) /\ Room(next) <= Room(next + 1) /\ Room(next) \in Int /\ Room(next + 1) \in Int
  BY <1>1, <1>3 DEF RendersInv, Room
<1>6. next' \in 1..(NumEnemies + NumPickups + 1) /\ hidden' \subseteq 1..(next' - 1)
  BY <1>1, <1>2, <1>3
<1>7. size <= Room(next + 1)
  BY <1>5, <1>3
<1>8. Holds(renders, size, Expected(next', hidden'))
  BY <1>2, <1>4 DEF RendersInv
<1>9. R!ShowsValue'
  <2>1. R!ShowsValue
    BY DEF RendersInv
  <2> QED BY <2>1, <1>2 DEF R!ShowsValue
<1>10. IsArray(renders, size) /\ IsSorted(renders, size) /\ IsLayered(renders, size)
  BY DEF RendersInv
<1>11. next' = next + 1 /\ renders' = renders /\ size' = size
  BY <1>2
<1> QED BY <1>6, <1>7, <1>8, <1>9, <1>10, <1>11 DEF RendersInv, IsArray, IsSorted, IsLayered, Holds

\* An array of which no place is used.
LEMMA NoPlaceUsed ==
    ASSUME NEW r, NEW x \in Stack,
           r = [i \in 0..(R!num_items - 1) |-> [distance |-> x, what |-> R!None]]
    PROVE  /\ IsArray(r, 0) /\ IsSorted(r, 0) /\ IsLayered(r, 0)
           /\ Holds(r, 0, Expected(1, {})) /\ 0 <= Room(1)
           /\ 1 \in 1..(NumEnemies + NumPickups + 1) /\ {} \subseteq 1..(1 - 1)
<1>1. x \in Int
  BY GameInstances DEF R!RendersConstants
<1>2. /\ NumEnemies \in Nat /\ NumPickups \in Nat /\ R!num_items \in Nat
      /\ R!Object = 1..(NumEnemies + NumPickups)
  BY RendersNumbers
<1>3. 0..(0 - 1) = {}
  OBVIOUS
<1>4. R!None \in [object : {0} \cup R!Object, part : R!Part]
  BY DEF R!None, R!Part
<1>5. IsArray(r, 0)
  BY <1>1, <1>2, <1>4 DEF IsArray
<1>6. Expected(1, {}) = {}
  BY <1>2 DEF Expected
<1>7. IsSorted(r, 0) /\ IsLayered(r, 0) /\ Holds(r, 0, Expected(1, {}))
  BY <1>3, <1>6 DEF IsSorted, IsLayered, Holds
<1>8. 0 <= Room(1) /\ 1 \in 1..(NumEnemies + NumPickups + 1)
  BY <1>2 DEF Room
<1> QED BY <1>5, <1>7, <1>8

\* The powers of ten that the places of the HUD need.
LEMMA TenIs == R!Ten(0) = 1 /\ R!Ten(1) = 10 /\ R!Ten(2) = 100 /\ R!Ten(3) = 1000
  BY SMT DEF R!Ten, R!Tens

\* digitize finds the number of digits, and its places together with the
\* cleared ones hold the digits of num.
LEMMA DigitizeIs ==
    ASSUME NEW num \in Nat, NEW m \in 1..3, num < R!Ten(m), NEW i \in 0..(m - 1)
    PROVE  (IF i \in DOMAIN R!digitize(num, m) THEN R!digitize(num, m)[i] ELSE 0)
             = (num \div R!Ten(m - 1 - i)) % 10
<1> DEFINE Fits(n) == num < R!Ten(n) /\ \A k \in 0..(n - 1) : num >= R!Ten(k)
           len == CHOOSE n \in 0..9 : Fits(n)
<1>1. num < 1000
  BY TenIs
<1>2. \E n \in 0..9 : Fits(n)
  <2>1. num < 1 => Fits(0)
    BY TenIs
  <2>2. num >= 1 /\ num < 10 => Fits(1)
    BY TenIs
  <2>3. num >= 10 /\ num < 100 => Fits(2)
    BY TenIs
  <2>4. num >= 100 => Fits(3)
    BY TenIs, <1>1
  <2> HIDE DEF Fits
  <2>5. num < 1 \/ (num >= 1 /\ num < 10) \/ (num >= 10 /\ num < 100) \/ num >= 100
    OBVIOUS
  <2>6. 0 \in 0..9 /\ 1 \in 0..9 /\ 2 \in 0..9 /\ 3 \in 0..9
    OBVIOUS
  <2> QED BY <2>1, <2>2, <2>3, <2>4, <2>5, <2>6
<1>3. len \in 0..9 /\ Fits(len)
  <2> HIDE DEF Fits
  <2> QED BY <1>2
<1>4. R!digitize(num, m) = [k \in (m - len)..(m - 1) |-> (num \div R!Ten(m - 1 - k)) % 10]
  BY Zenon DEF R!digitize
<1> HIDE DEF len
<1>5. i \notin (m - len)..(m - 1) => (num \div R!Ten(m - 1 - i)) % 10 = 0
  <2>1. SUFFICES ASSUME i \notin (m - len)..(m - 1)
                 PROVE  (num \div R!Ten(m - 1 - i)) % 10 = 0
    OBVIOUS
  <2>2. len <= m - 1 - i /\ m - 1 - i \in 0..2
    BY <2>1, <1>3
  <2>3. num < R!Ten(m - 1 - i)
    <3>1. num < R!Ten(len) /\ len \in 0..2
      BY <2>2, <1>3
    <3> QED BY <3>1, <2>2, TenIs
  <2> QED BY <2>2, <2>3, TenIs
<1> QED BY <1>4, <1>5

\* What render_number draws reads as the number.
LEMMA NumberReads ==
    ASSUME NEW num \in Nat, NEW m \in 1..3, num < R!Ten(m)
    PROVE  /\ R!Read(R!render_number(num, m)) = num
           /\ Len(R!render_number(num, m)) > 1 => R!render_number(num, m)[1] # 0
<1> DEFINE res == R!digitize(num, m)
           nums == [i \in 0..(m - 1) |-> IF i \in DOMAIN res THEN res[i] ELSE 0]
           IsFirst(i) == /\ nums[i] # 0 \/ i = m - 1
                         /\ \A j \in 0..(i - 1) : nums[j] = 0
           first == CHOOSE i \in 0..(m - 1) : IsFirst(i)
           s == [k \in 1..(m - first) |-> nums[first + k - 1]]
<1>1. R!render_number(num, m) = s
  BY Zenon DEF R!render_number
<1>2. \A i \in 0..(m - 1) : nums[i] = (num \div R!Ten(m - 1 - i)) % 10
  BY DigitizeIs
<1> HIDE DEF nums
<1>3. \A i \in 0..(m - 1) : nums[i] \in Nat
  <2>1. ASSUME NEW i \in 0..(m - 1) PROVE nums[i] \in Nat
    <3>1. nums[i] = (num \div R!Ten(m - 1 - i)) % 10
      BY <1>2
    <3>2. m - 1 - i \in 0..2
      OBVIOUS
    <3> QED BY <3>1, <3>2, TenIs
  <2> QED BY <2>1
<1>4. \E i \in 0..(m - 1) : IsFirst(i)
  <2>1. CASE m = 1
    <3>1. IsFirst(0)
      BY <2>1
    <3> QED BY <3>1, <2>1
  <2>2. CASE m = 2
    <3>1. IsFirst(0) \/ IsFirst(1)
      BY <2>2
    <3> QED BY <3>1, <2>2
  <2>3. CASE m = 3
    <3>1. IsFirst(0) \/ IsFirst(1) \/ IsFirst(2)
      BY <2>3
    <3> QED BY <3>1, <2>3
  <2> QED BY <2>1, <2>2, <2>3
<1>5. first \in 0..(m - 1) /\ IsFirst(first)
  <2> HIDE DEF IsFirst
  <2> QED BY <1>4
<1> HIDE DEF first
<1>6. s \in Seq(Nat) /\ Len(s) = m - first /\ \A k \in 1..(m - first) : s[k] = nums[first + k - 1]
  <2>1. m - first \in Nat /\ \A k \in 1..(m - first) : nums[first + k - 1] \in Nat
    BY <1>3, <1>5
  <2>2. s \in [1..(m - first) -> Nat]
    BY <2>1
  <2>3. s \in Seq(Nat) /\ DOMAIN s = 1..(m - first)
    BY <2>1, <2>2, SeqDef
  <2>4. Len(s) \in Nat /\ DOMAIN s = 1..Len(s)
    BY <2>3, LenProperties
  <2>5. Len(s) = m - first
    BY <2>1, <2>3, <2>4
  <2> QED BY <2>3, <2>5
<1> HIDE DEF s
<1> DEFINE n == Len(s)
<1>7. /\ R!Read(s) = (IF n >= 1 THEN s[n] ELSE 0) + (IF n >= 2 THEN 10 * s[n - 1] ELSE 0)
                       + (IF n >= 3 THEN 100 * s[n - 2] ELSE 0)
      /\ n = m - first
  BY <1>6 DEF R!Read
<1> HIDE DEF n
<1>8. /\ R!Read(s) = num
      /\ n > 1 => s[1] # 0
  <2>1. CASE m = 1
    <3>1. first = 0 /\ n = 1 /\ s[1] = nums[0]
      BY <2>1, <1>5, <1>6, <1>7
    <3>2. nums[0] = num
      BY <2>1, <1>2, TenIs
    <3> QED BY <3>1, <3>2, <1>7
  <2>2. CASE m = 2
    <3>1. nums[0] = (num \div 10) % 10 /\ nums[1] = num % 10 /\ num < 100
      <4>1. nums[0] = (num \div R!Ten(1)) % 10 /\ nums[1] = (num \div R!Ten(0)) % 10
        BY <2>2, <1>2
      <4> QED BY <4>1, <2>2, TenIs
    <3>2. 10 * nums[0] + nums[1] = num
      BY <3>1
    <3>3. CASE first = 0
      <4>1. n = 2 /\ s[1] = nums[0] /\ s[2] = nums[1] /\ nums[0] # 0
        BY <3>3, <2>2, <1>5, <1>6, <1>7
      <4> QED BY <4>1, <3>1, <3>2, <1>7
    <3>4. CASE first = 1
      <4>1. n = 1 /\ s[1] = nums[1] /\ nums[0] = 0
        BY <3>4, <2>2, <1>5, <1>6, <1>7
      <4> QED BY <4>1, <3>1, <3>2, <1>7
    <3> QED BY <3>3, <3>4, <2>2, <1>5
  <2>3. CASE m = 3
    <3>1. nums[0] = (num \div 100) % 10 /\ nums[1] = (num \div 10) % 10 /\ nums[2] = num % 10 /\ num < 1000
      <4>1. /\ nums[0] = (num \div R!Ten(2)) % 10 /\ nums[1] = (num \div R!Ten(1)) % 10
            /\ nums[2] = (num \div R!Ten(0)) % 10
        BY <2>3, <1>2
      <4> QED BY <4>1, <2>3, TenIs
    <3>2. 100 * nums[0] + 10 * nums[1] + nums[2] = num
      BY <3>1
    <3>3. CASE first = 0
      <4>1. n = 3 /\ s[1] = nums[0] /\ s[2] = nums[1] /\ s[3] = nums[2] /\ nums[0] # 0
        BY <3>3, <2>3, <1>5, <1>6, <1>7
      <4>2. R!Read(s) = s[3] + 10 * s[2] + 100 * s[1]
        BY <4>1, <1>7
      <4> QED BY <4>1, <4>2, <3>1, <3>2
    <3>4. CASE first = 1
      <4>1. n = 2 /\ s[1] = nums[1] /\ s[2] = nums[2] /\ nums[0] = 0 /\ nums[1] # 0
        BY <3>4, <2>3, <1>5, <1>6, <1>7
      <4>2. R!Read(s) = s[2] + 10 * s[1]
        BY <4>1, <3>1, <1>7
      <4> QED BY <4>1, <4>2, <3>1, <3>2
    <3>5. CASE first = 2
      <4>1. n = 1 /\ s[1] = nums[2] /\ nums[0] = 0 /\ nums[1] = 0
        BY <3>5, <2>3, <1>5, <1>6, <1>7
      <4>2. R!Read(s) = s[1] /\ s[1] = num
        BY <4>1, <3>1, <3>2, <1>7
      <4> QED BY <4>1, <4>2
    <3> QED BY <3>3, <3>4, <3>5, <2>3, <1>5
  <2> QED BY <2>1, <2>2, <2>3
<1> QED BY <1>1, <1>8 DEF n

LEMMA HudStep ==
    ASSUME RendersInv, NEW num \in Values, NEW m \in Places, R!render_game(num, m)
    PROVE  RendersInv'
<1>1. PICK x \in Stack :
        renders' = [i \in 0..(R!num_items - 1) |-> [distance |-> x, what |-> R!None]]
  BY DEF R!render_game
<1>2. size' = 0 /\ next' = 1 /\ hidden' = {}
  BY DEF R!render_game
<1>3. /\ IsArray(renders', 0) /\ IsSorted(renders', 0) /\ IsLayered(renders', 0)
      /\ Holds(renders', 0, Expected(1, {})) /\ 0 <= Room(1)
      /\ 1 \in 1..(NumEnemies + NumPickups + 1) /\ {} \subseteq 1..(1 - 1)
  BY <1>1, NoPlaceUsed
<1>4. R!ShowsValue'
  <2>1. num \in Nat /\ m \in 1..3
    BY GameInstances DEF R!RendersConstants
  <2>2. /\ shown'.value = num /\ shown'.max_digits = m
        /\ shown'.drawn = R!render_number(num, m)
    BY DEF R!render_game
  <2>3. num < R!Ten(m) =>
          /\ R!Read(R!render_number(num, m)) = num
          /\ Len(R!render_number(num, m)) > 1 => R!render_number(num, m)[1] # 0
    BY <2>1, NumberReads
  <2> QED BY <2>2, <2>3 DEF R!ShowsValue
<1> QED BY <1>2, <1>3, <1>4 DEF RendersInv, IsArray, IsSorted, IsLayered, Holds

LEMMA RendersInit == R!Init => RendersInv
<1>1. SUFFICES ASSUME R!Init PROVE RendersInv
  OBVIOUS
<1>2. PICK x \in Stack :
        renders = [i \in 0..(R!num_items - 1) |-> [distance |-> x, what |-> R!None]]
  BY <1>1 DEF R!Init
<1>3. size = 0 /\ next = 1 /\ hidden = {}
  BY <1>1 DEF R!Init
<1>4. /\ IsArray(renders, 0) /\ IsSorted(renders, 0) /\ IsLayered(renders, 0)
      /\ Holds(renders, 0, Expected(1, {})) /\ 0 <= Room(1)
      /\ 1 \in 1..(NumEnemies + NumPickups + 1) /\ {} \subseteq 1..(1 - 1)
  BY <1>2, NoPlaceUsed
<1>5. R!ShowsValue
  <2>1. shown.value = 0 /\ shown.drawn = <<0>>
    BY <1>1 DEF R!Init
  <2>2. R!Read(<<0>>) = 0 /\ ~(Len(<<0>>) > 1)
    BY DEF R!Read
  <2> QED BY <2>1, <2>2 DEF R!ShowsValue
<1> QED BY <1>3, <1>4, <1>5 DEF RendersInv

LEMMA RendersInvariant == R!Spec => []RendersInv
<1>1. RendersInv /\ [R!Next]_(R!vars) => RendersInv'
  <2>1. SUFFICES ASSUME RendersInv, [R!Next]_(R!vars) PROVE RendersInv'
    OBVIOUS
  <2>2. CASE \E d \in Distances : R!setup_renders(d)
    BY <2>1, <2>2, SetupStep
  <2>3. CASE R!skip
    BY <2>1, <2>3, SkipStep
  <2>4. CASE \E num \in Values, m \in Places : R!render_game(num, m)
    BY <2>1, <2>4, HudStep
  <2>5. CASE UNCHANGED R!vars
    BY <2>1, <2>5 DEF R!vars, RendersInv, IsArray, IsSorted, IsLayered, Holds, R!ShowsValue
  <2> QED BY <2>1, <2>2, <2>3, <2>4, <2>5 DEF R!Next
<1> QED BY <1>1, RendersInit, PTL DEF R!Spec

LEMMA RendersTyped == RendersInv => R!TypeOK
  BY RendersNumbers DEF RendersInv, IsArray, R!TypeOK

LEMMA RendersAllOnce == RendersInv => R!DrawsAllOnce
<1>1. SUFFICES ASSUME RendersInv, NEW o \in 1..(next - 1), NEW p \in R!Part
               PROVE  R!Cardinality({i \in R!Used : renders[i].what = [object |-> o, part |-> p]})
                        = (IF o \in hidden \/ p \notin R!Parts(o) THEN 0 ELSE 1)
  BY DEF R!DrawsAllOnce
<1> DEFINE w == [object |-> o, part |-> p]
           T == {i \in 0..(size - 1) : renders[i].what = w}
<1>2. R!Used = 0..(size - 1) /\ Holds(renders, size, Expected(next, hidden))
  BY <1>1 DEF R!Used, RendersInv
<1>3. o \in R!Object /\ o < next
  BY <1>1, RendersNumbers DEF RendersInv
<1>4. w.object = o /\ w.part = p /\ w \in [object : R!Object, part : R!Part]
  BY <1>1, <1>3
<1>5. w \in Expected(next, hidden) <=> ~(o \in hidden \/ p \notin R!Parts(o))
  BY <1>3, <1>4 DEF Expected
<1> HIDE DEF w
<1>6. \A S : R!Cardinality(S) = Cardinality(S)
  BY DEF R!Cardinality, Cardinality, R!IsFiniteSet, IsFiniteSet
<1>7. CASE w \in Expected(next, hidden)
  <2>1. PICK k \in 0..(size - 1) : renders[k].what = w
    BY <1>2, <1>7 DEF Holds
  <2>2. T = {k}
    BY <2>1, <1>2 DEF Holds
  <2>3. Cardinality({k}) = 1
    BY FS_Singleton
  <2>4. Cardinality(T) = 1
    BY <2>2, <2>3, Zenon
  <2> QED BY <2>4, <1>2, <1>5, <1>6, <1>7 DEF w
<1>8. CASE w \notin Expected(next, hidden)
  <2>1. T = {}
    BY <1>2, <1>8 DEF Holds
  <2>2. Cardinality({}) = 0
    BY FS_EmptySet
  <2>3. Cardinality(T) = 0
    BY <2>1, <2>2, Zenon
  <2> QED BY <2>3, <1>2, <1>5, <1>6, <1>8 DEF w
<1> QED BY <1>7, <1>8

(***************************************************************************)
(* A frame shows what there is: whatever is on the stack, in whatever      *)
(* order the distances come and however many people and pickups there are, *)
(* setup_renders draws all that is in sight once, far to near and with the *)
(* bars over their body, and render_number shows any value that fits.      *)
(***************************************************************************)
THEOREM RendersFrameShowsAll == R!Spec => []FrameShowsAll
<1>1. RendersInv => FrameShowsAll
  <2>1. SUFFICES ASSUME RendersInv PROVE FrameShowsAll
    OBVIOUS
  <2>2. R!DrawsAllOnce
    BY <2>1, RendersAllOnce
  <2>3. R!FarToNear
    BY <2>1 DEF RendersInv, IsSorted, R!FarToNear, R!Used
  <2>4. R!BarsOnTop
    BY <2>1 DEF RendersInv, IsLayered, Over, R!BarsOnTop, R!Used
  <2>5. R!ShowsValue
    BY <2>1 DEF RendersInv
  <2> QED BY <2>2, <2>3, <2>4, <2>5 DEF FrameShowsAll
<1> QED BY <1>1, RendersInvariant, PTL

-----------------------------------------------------------------------------
(* Module Pickups: the collision table.                                    *)

\* The circle c reaches into tile t, and add_collision looks at t.
Reaches(c, t) == t \in P!around(c.center) /\ P!check_circle_rect_collision(c, t)

\* The indexes listed for a tile are those of pickups around it that are still
\* there, or 0.
OnlyLive ==
    \A t \in P!Tile : \A k \in 1..Len(table[t].indexes) :
      table[t].indexes[k] # 0 =>
        /\ table[t].indexes[k] \in P!Live
        /\ t \in P!around(items[table[t].indexes[k]].collider.center)

\* And every pickup that is still there is listed wherever it reaches.
AllListed ==
    \A j \in P!Live : \A t \in P!Tile :
      Reaches(items[j].collider, t) =>
        \E k \in 1..Len(table[t].indexes) : table[t].indexes[k] = j

PlacedPickup == [collider : [center : Spot, radius : Radius], picked_up : BOOLEAN]
TileList == [indexes : Seq(Nat), max_indexes : Nat, room : Nat]

PickupsInv ==
    /\ items \in Seq(PlacedPickup) /\ Len(items) <= MaxPickups /\ dummy \in FreshPage
    /\ loaded \in BOOLEAN /\ loads \in 0..MaxLoads /\ (~loaded => items = <<>>)
    /\ table \in [P!Tile -> TileList]
    /\ \A t \in P!Tile : table[t].indexes = <<>> => table[t].max_indexes = 0
    /\ P!ListsFit
    /\ OnlyLive /\ AllListed

\* What is on the fresh page reaches no place where a pickup can be.
DummyOutOfReach ==
    \A c \in FreshPage, p \in P!Position, s \in Spot, r \in Radius :
      P!dist_positions_squared(p, c.center) <= c.radius * c.radius
        => r * r <= P!dist_positions_squared(p, s)

LEMMA PickupsNumbers ==
    /\ Unit \in Nat \ {0} /\ Width \in Nat \ {0} /\ Height \in Nat \ {0} /\ STEP \in Nat \ {0}
    /\ MaxPickups \in Nat /\ MaxLoads \in Nat
    /\ Spot \subseteq P!Position /\ Radius \subseteq 1..Unit
    /\ \A c \in FreshPage : c.center \in Int \X Int /\ c.radius \in Int
<1>1. P!PickupsConstants
  BY GameInstances
<1> QED BY <1>1 DEF P!PickupsConstants

\* Multiplication by a number that is not negative keeps the order.
LEMMA Times ==
    ASSUME NEW a \in Int, NEW b \in Int, NEW u \in Nat, a <= b
    PROVE  u * a <= u * b
<1>1. u * (b - a) >= 0
  BY SMT
<1>2. u * (b - a) = u * b - u * a
  BY SMT
<1>3. u * a \in Int /\ u * b \in Int
  BY SMT
<1> QED BY <1>1, <1>2, <1>3

LEMMA Squares ==
    /\ \A a, b \in Nat : a <= b => a * a <= b * b
    /\ \A a \in Int : a * a \in Nat
<1>1. ASSUME NEW a \in Nat, NEW b \in Nat, a <= b PROVE a * a <= b * b
  <2>1. a * a <= a * b
    BY <1>1, Times
  <2>2. b * a <= b * b
    BY <1>1, Times
  <2>3. a * b = b * a /\ a * a \in Int /\ a * b \in Int /\ b * b \in Int
    BY SMT
  <2> QED BY <2>1, <2>2, <2>3
<1>2. ASSUME NEW a \in Int PROVE a * a \in Nat
  BY SMT
<1> QED BY <1>1, <1>2

\* The square of a distance is less than another one only if the distance is.
LEMMA SquareLess ==
    ASSUME NEW a \in Int, NEW b \in Nat, a * a < b * b
    PROVE  -b < a /\ a < b
<1>1. a * a \in Nat /\ b * b \in Nat
  BY Squares
<1>2. CASE a >= 0
  <2>1. ~(b <= a)
    BY <1>1, <1>2, Squares
  <2> QED BY <2>1, <1>2
<1>3. CASE a < 0
  <2>1. -a \in Nat /\ (-a) * (-a) = a * a
    BY <1>3
  <2>2. ~(b <= -a)
    BY <1>1, <2>1, Squares
  <2> QED BY <2>2, <1>3
<1> QED BY <1>2, <1>3

\* The tile number of a coordinate.
LEMMA TileNumber ==
    ASSUME NEW x \in Nat, NEW u \in Nat \ {0}
    PROVE  /\ x \div u \in Nat
           /\ u * (x \div u) <= x /\ x < u * (x \div u) + u
<1>1. x \div u \in Int /\ x % u \in 0..(u - 1) /\ x = u * (x \div u) + (x % u)
  <2>1. x \div u \in Int
    BY SMT
  <2>2. x % u \in 0..(u - 1)
    BY SMT
  <2>3. x = u * (x \div u) + (x % u)
    BY SMT
  <2> QED BY <2>1, <2>2, <2>3
<1>2. u * (x \div u) \in Int
  BY <1>1, SMT
<1>3. u * (x \div u) <= x /\ x < u * (x \div u) + u
  <2> DEFINE m == u * (x \div u)
             r == x % u
  <2> HIDE DEF m, r
  <2>1. m \in Int /\ r \in 0..(u - 1) /\ x = m + r
    BY <1>1, <1>2 DEF m, r
  <2>2. m <= x /\ x < m + u
    BY <2>1
  <2> QED BY <2>2 DEF m
<1>4. x \div u >= 0
  <2>1. SUFFICES ASSUME x \div u <= -1 PROVE FALSE
    BY <1>1
  <2>2. u * (x \div u) <= u * (-1)
    BY <2>1, <1>1, Times
  <2>3. u * (-1) = -u
    OBVIOUS
  <2> DEFINE m == u * (x \div u)
  <2> HIDE DEF m
  <2>4. m \in Int /\ m <= -u /\ x < m + u
    BY <1>2, <1>3, <2>2, <2>3 DEF m
  <2> QED BY <2>4
<1> QED BY <1>1, <1>3, <1>4

\* Coordinates that are less than a tile apart are in the same tile or in
\* tiles side by side.
LEMMA NextTile ==
    ASSUME NEW x \in Nat, NEW y \in Nat, NEW u \in Nat \ {0}, x < y + u
    PROVE  x \div u <= (y \div u) + 1
<1> DEFINE tx == x \div u
           ty == y \div u
<1>1. tx \in Nat /\ ty \in Nat /\ u * tx <= x /\ y < u * ty + u
  BY TileNumber
<1> HIDE DEF tx, ty
<1>2. SUFFICES ASSUME ty + 2 <= tx PROVE FALSE
  BY <1>1 DEF tx, ty
<1>3. u * (ty + 2) <= u * tx
  BY <1>1, <1>2, Times
<1>4. u * (ty + 2) = u * ty + 2 * u
  BY <1>1, SMT
<1> DEFINE m == u * ty
           k == u * tx
<1>5. m \in Int /\ k \in Int
  BY <1>1, SMT
<1> HIDE DEF m, k
<1>6. k <= x /\ y < m + u /\ m + 2 * u <= k
  BY <1>1, <1>3, <1>4 DEF m, k
<1> QED BY <1>5, <1>6

LEMMA TileInside ==
    ASSUME NEW x \in Nat, NEW u \in Nat \ {0}, NEW w \in Nat \ {0}, x < w * u
    PROVE  x \div u \in 0..(w - 1)
<1>1. x \div u \in Nat /\ u * (x \div u) <= x
  BY TileNumber
<1>2. SUFFICES ASSUME w <= x \div u PROVE FALSE
  BY <1>1
<1>3. u * w <= u * (x \div u)
  BY <1>1, <1>2, Times
<1> DEFINE m == u * w
           k == u * (x \div u)
<1>4. m \in Int /\ k \in Int /\ w * u = m
  BY <1>1, SMT
<1> HIDE DEF m, k
<1>5. k <= x /\ x < m /\ m <= k
  BY <1>1, <1>3, <1>4 DEF m, k
<1> QED BY <1>4, <1>5

\* No point of an interval is nearer to a than the closest one.
LEMMA Closer ==
    ASSUME NEW a \in Int, NEW x \in Int, NEW f \in Int, f <= x, x <= f + Unit
    PROVE  /\ P!closest(a, f) \in Int
           /\ (a - P!closest(a, f)) * (a - P!closest(a, f)) <= (x - a) * (x - a)
<1>1. Unit \in Nat
  BY PickupsNumbers
<1> DEFINE e == P!closest(a, f)
<1>2. /\ a < f => e = f
      /\ a > f + Unit => e = f + Unit
      /\ a >= f /\ a <= f + Unit => e = a
  BY <1>1 DEF P!closest
<1> HIDE DEF e
<1>3. e \in Int
  BY <1>1, <1>2
<1>4. (x - a) * (x - a) \in Nat /\ (a - e) * (a - e) \in Nat
  BY <1>3, Squares
<1>5. CASE a < f
  <2>1. f - a \in Nat /\ x - a \in Nat /\ f - a <= x - a
    BY <1>5
  <2>2. (f - a) * (f - a) <= (x - a) * (x - a)
    BY <2>1, Squares
  <2>3. (a - f) * (a - f) = (f - a) * (f - a)
    BY SMT
  <2> QED BY <2>2, <2>3, <1>2, <1>3, <1>5 DEF e
<1>6. CASE a > f + Unit
  <2>1. a - (f + Unit) \in Nat /\ a - x \in Nat /\ a - (f + Unit) <= a - x
    BY <1>1, <1>6
  <2>2. (a - (f + Unit)) * (a - (f + Unit)) <= (a - x) * (a - x)
    BY <2>1, Squares
  <2>3. (a - x) * (a - x) = (x - a) * (x - a)
    BY SMT
  <2>4. e = f + Unit
    BY <1>2, <1>6
  <2>5. (a - e) * (a - e) <= (x - a) * (x - a)
    BY <2>2, <2>3, <2>4
  <2> QED BY <2>5, <1>3 DEF e
<1>7. CASE a >= f /\ a <= f + Unit
  <2>1. e = a
    BY <1>2, <1>7
  <2>2. (a - e) * (a - e) = 0
    BY <2>1
  <2>3. (a - e) * (a - e) <= (x - a) * (x - a)
    BY <2>2, <1>4
  <2> QED BY <2>3, <1>3 DEF e
<1> QED BY <1>1, <1>5, <1>6, <1>7

LEMMA PositionNumbers ==
    ASSUME NEW p \in P!Position
    PROVE  /\ p[1] \in Nat /\ p[2] \in Nat /\ p[1] < Width * Unit /\ p[2] < Height * Unit
           /\ p = <<p[1], p[2]>>
           /\ P!TileOf(p) \in P!Tile
           /\ P!TileOf(p)[1] = p[1] \div Unit /\ P!TileOf(p)[2] = p[2] \div Unit
<1> DEFINE w == Width * Unit
           h == Height * Unit
<1>1. w \in Int /\ h \in Int
  BY PickupsNumbers, SMT
<1> HIDE DEF w, h
<1>2. p \in (0..(w - 1)) \X (0..(h - 1))
  BY DEF P!Position, w, h
<1>3. p[1] \in Nat /\ p[2] \in Nat /\ p[1] < w /\ p[2] < h /\ p = <<p[1], p[2]>>
  BY <1>1, <1>2
<1>4. p[1] < Width * Unit /\ p[2] < Height * Unit
  BY <1>3 DEF w, h
<1>5. p[1] \div Unit \in 0..(Width - 1) /\ p[2] \div Unit \in 0..(Height - 1)
  BY <1>3, <1>4, PickupsNumbers, TileInside
<1>6. P!TileOf(p) = <<p[1] \div Unit, p[2] \div Unit>>
  BY DEF P!TileOf
<1> DEFINE i == p[1] \div Unit
           j == p[2] \div Unit
<1> HIDE DEF i, j
<1>7. <<i, j>> \in P!Tile
  BY <1>5 DEF P!Tile, i, j
<1>8. P!TileOf(p) = <<i, j>>
  BY <1>6 DEF i, j
<1> QED BY <1>3, <1>4, <1>7, <1>8 DEF i, j

LEMMA DistanceTyped ==
    ASSUME NEW p, NEW q, p[1] \in Int, p[2] \in Int, q[1] \in Int, q[2] \in Int
    PROVE  /\ P!dist_positions_squared(p, q) \in Nat
           /\ (p[1] - q[1]) * (p[1] - q[1]) <= P!dist_positions_squared(p, q)
           /\ (p[2] - q[2]) * (p[2] - q[2]) <= P!dist_positions_squared(p, q)
<1> DEFINE a == (p[1] - q[1]) * (p[1] - q[1])
           b == (p[2] - q[2]) * (p[2] - q[2])
<1>1. a \in Nat /\ b \in Nat
  BY Squares
<1>2. P!dist_positions_squared(p, q) = a + b
  BY DEF P!dist_positions_squared
<1> HIDE DEF a, b
<1>3. a + b \in Nat /\ a <= a + b /\ b <= a + b
  BY <1>1
<1> QED BY <1>2, <1>3 DEF a, b

\* Where a player stands inside a circle, its tile is one that the circle
\* reaches, and near enough for add_collision to look at it.
LEMMA OwnTileReached ==
    ASSUME NEW c, c.center \in P!Position, c.radius \in 1..Unit, NEW p \in P!Position,
           P!dist_positions_squared(p, c.center) < c.radius * c.radius
    PROVE  Reaches(c, P!TileOf(p))
<1> DEFINE x == p[1]
           y == p[2]
           a == c.center[1]
           b == c.center[2]
           r == c.radius
           t == P!TileOf(p)
           dist == P!dist_positions_squared(p, c.center)
<1>1. Unit \in Nat \ {0} /\ r \in Nat /\ r <= Unit /\ r * r \in Nat
  <2>1. Unit \in Nat \ {0}
    BY PickupsNumbers
  <2>2. r \in Nat /\ r <= Unit
    BY <2>1
  <2> QED BY <2>1, <2>2, Squares
<1>2. x \in Nat /\ y \in Nat /\ t \in P!Tile /\ t[1] = x \div Unit /\ t[2] = y \div Unit
  BY PositionNumbers
<1>3. /\ a \in Nat /\ b \in Nat
      /\ P!TileOf(c.center)[1] = a \div Unit /\ P!TileOf(c.center)[2] = b \div Unit
  BY PositionNumbers
<1>4. dist \in Nat /\ (x - a) * (x - a) <= dist /\ (y - b) * (y - b) <= dist
  BY <1>2, <1>3, DistanceTyped
<1>5. dist = (x - a) * (x - a) + (y - b) * (y - b) /\ dist < r * r
  BY DEF P!dist_positions_squared
<1> HIDE DEF x, y, a, b, r, t, dist
<1>6. -r < x - a /\ x - a < r /\ -r < y - b /\ y - b < r
  <2>1. x - a \in Int /\ y - b \in Int /\ (x - a) * (x - a) \in Nat /\ (y - b) * (y - b) \in Nat
    BY <1>2, <1>3, Squares
  <2>2. (x - a) * (x - a) < r * r /\ (y - b) * (y - b) < r * r
    <3> DEFINE m == (x - a) * (x - a)
               n == (y - b) * (y - b)
               k == r * r
    <3>1. m \in Nat /\ n \in Nat /\ k \in Nat /\ m <= dist /\ n <= dist /\ dist < k /\ dist \in Nat
      BY <1>1, <1>4, <1>5, <2>1
    <3> HIDE DEF m, n, k
    <3>2. m < k /\ n < k
      BY <3>1
    <3> QED BY <3>2 DEF m, n, k
  <2> QED BY <1>1, <2>1, <2>2, SquareLess
<1>7. t \in P!around(c.center)
  <2>1. x < a + Unit /\ a < x + Unit /\ y < b + Unit /\ b < y + Unit
    BY <1>1, <1>2, <1>3, <1>6
  <2>2. /\ x \div Unit <= (a \div Unit) + 1 /\ a \div Unit <= (x \div Unit) + 1
        /\ y \div Unit <= (b \div Unit) + 1 /\ b \div Unit <= (y \div Unit) + 1
    BY <1>1, <1>2, <1>3, <2>1, NextTile
  <2>3. x \div Unit \in Nat /\ a \div Unit \in Nat /\ y \div Unit \in Nat /\ b \div Unit \in Nat
    BY <1>1, <1>2, <1>3, TileNumber
  <2> DEFINE tx == x \div Unit
             ty == y \div Unit
             ta == a \div Unit
             tb == b \div Unit
  <2>4. /\ tx \in Nat /\ ty \in Nat /\ ta \in Nat /\ tb \in Nat
        /\ tx <= ta + 1 /\ ta <= tx + 1 /\ ty <= tb + 1 /\ tb <= ty + 1
    BY <2>2, <2>3
  <2>5. /\ t[1] = tx /\ t[2] = ty
        /\ P!TileOf(c.center)[1] = ta /\ P!TileOf(c.center)[2] = tb
    BY <1>2, <1>3
  <2> HIDE DEF tx, ty, ta, tb
  <2>6. tx \in (ta - 1)..(ta + 1) /\ ty \in (tb - 1)..(tb + 1)
    BY <2>4
  <2> QED BY <2>5, <2>6, <1>2 DEF P!around
<1>8. P!check_circle_rect_collision(c, t)
  <2> DEFINE f == t[1] * Unit
             h == t[2] * Unit
             ex == P!closest(a, f)
             ey == P!closest(b, h)
  <2>1. f \in Int /\ f <= x /\ x <= f + Unit
    <3>1. x \div Unit \in Nat /\ Unit * (x \div Unit) <= x /\ x < Unit * (x \div Unit) + Unit
      BY <1>1, <1>2, TileNumber
    <3>2. t[1] * Unit = Unit * (x \div Unit) /\ Unit * (x \div Unit) \in Int
      BY <3>1, <1>1, <1>2, SMT
    <3>3. f = Unit * (x \div Unit)
      BY <3>2
    <3> HIDE DEF f
    <3>4. f \in Int /\ f <= x /\ x < f + Unit
      BY <3>1, <3>2, <3>3
    <3> QED BY <3>4, <1>1, <1>2
  <2>2. h \in Int /\ h <= y /\ y <= h + Unit
    <3>1. y \div Unit \in Nat /\ Unit * (y \div Unit) <= y /\ y < Unit * (y \div Unit) + Unit
      BY <1>1, <1>2, TileNumber
    <3>2. t[2] * Unit = Unit * (y \div Unit) /\ Unit * (y \div Unit) \in Int
      BY <3>1, <1>1, <1>2, SMT
    <3>3. h = Unit * (y \div Unit)
      BY <3>2
    <3> HIDE DEF h
    <3>4. h \in Int /\ h <= y /\ y < h + Unit
      BY <3>1, <3>2, <3>3
    <3> QED BY <3>4, <1>1, <1>2
  <2> HIDE DEF f, h
  <2>3. ex \in Int /\ (a - ex) * (a - ex) <= (x - a) * (x - a)
    BY <2>1, <1>2, <1>3, Closer
  <2>4. ey \in Int /\ (b - ey) * (b - ey) <= (y - b) * (y - b)
    BY <2>2, <1>2, <1>3, Closer
  <2> HIDE DEF ex, ey
  <2>5. P!dist_positions_squared(c.center, <<ex, ey>>) = (a - ex) * (a - ex) + (b - ey) * (b - ey)
    BY DEF P!dist_positions_squared, a, b
  <2>6. (a - ex) * (a - ex) + (b - ey) * (b - ey) < r * r
    <3> DEFINE m1 == (a - ex) * (a - ex)
               m2 == (x - a) * (x - a)
               n1 == (b - ey) * (b - ey)
               n2 == (y - b) * (y - b)
               k == r * r
    <3>1. /\ m1 \in Nat /\ m2 \in Nat /\ n1 \in Nat /\ n2 \in Nat /\ k \in Nat
          /\ m1 <= m2 /\ n1 <= n2 /\ m2 + n2 < k
      <4>1. m1 \in Nat /\ m2 \in Nat /\ n1 \in Nat /\ n2 \in Nat
        BY <1>2, <1>3, <2>3, <2>4, Squares
      <4> QED BY <4>1, <1>1, <1>5, <2>3, <2>4
    <3> HIDE DEF m1, m2, n1, n2, k
    <3>2. m1 + n1 < k
      BY <3>1
    <3> QED BY <3>2 DEF m1, n1, k
  <2>7. P!check_circle_rect_collision(c, t)
          <=> P!dist_positions_squared(c.center, <<ex, ey>>) < r * r
    BY Zenon DEF P!check_circle_rect_collision, ex, ey, f, h, a, b, r
  <2> QED BY <2>5, <2>6, <2>7
<1> QED BY <1>7, <1>8 DEF Reaches, t

\* The fields of a pickup that was put somewhere.
LEMMA PlacedFields ==
    ASSUME NEW e \in PlacedPickup
    PROVE  e.collider.center \in P!Position /\ e.collider.radius \in 1..Unit
           /\ e.collider.center \in Spot /\ e.collider.radius \in Radius
<1>1. e.collider \in [center : Spot, radius : Radius]
  BY Zenon DEF PlacedPickup
<1>2. e.collider.center \in Spot /\ e.collider.radius \in Radius
  BY <1>1
<1> QED BY <1>2, PickupsNumbers

\* What Append(items, e) is.
LEMMA ItemsAppended ==
    ASSUME items \in Seq(PlacedPickup), NEW c \in [center : Spot, radius : Radius],
           items' = Append(items, [collider |-> c, picked_up |-> FALSE])
    PROVE  /\ items' \in Seq(PlacedPickup) /\ Len(items') = Len(items) + 1
           /\ \A i \in 1..Len(items) : items'[i] = items[i]
           /\ items'[Len(items) + 1].collider = c
           /\ P!Live' = P!Live \cup {Len(items) + 1}
<1>1. PICK e : e = [collider |-> c, picked_up |-> FALSE]
  OBVIOUS
<1>2. e \in PlacedPickup /\ e.collider = c /\ ~e.picked_up
  BY <1>1, Zenon DEF PlacedPickup
<1>3. items' = Append(items, e)
  BY <1>1, Zenon
<1>4. /\ items' \in Seq(PlacedPickup) /\ Len(items') = Len(items) + 1 /\ Len(items) \in Nat
      /\ \A i \in 1..Len(items) : items'[i] = items[i]
      /\ items'[Len(items) + 1] = e
  BY <1>2, <1>3, AppendProperties
<1> DEFINE n == Len(items) + 1
<1>5. DOMAIN items = 1..Len(items) /\ DOMAIN items' = 1..n
  BY <1>4, LenProperties
<1>6. /\ \A i \in 1..Len(items) : i \in 1..n
      /\ n \in 1..n /\ \A i \in 1..n : i \in 1..Len(items) \/ i = n
  BY <1>4
<1>7. P!Live = {i \in 1..Len(items) : ~items[i].picked_up}
  BY <1>5, Zenon DEF P!Live
<1>8. P!Live' = {i \in 1..n : ~items'[i].picked_up}
  BY <1>5, Zenon DEF P!Live
<1> HIDE DEF n
<1>9. items'[n] = e
  BY <1>4 DEF n
<1>10. ASSUME NEW i PROVE i \in P!Live' <=> i \in P!Live \cup {n}
  <2>1. CASE i = n
    <3>1. ~items'[n].picked_up
      BY <1>2, <1>9, Zenon
    <3> QED BY <2>1, <3>1, <1>6, <1>8, Zenon
  <2>2. CASE i # n /\ i \in 1..Len(items)
    <3>1. items'[i] = items[i] /\ i \in 1..n
      BY <2>2, <1>4, <1>6
    <3> QED BY <2>2, <3>1, <1>7, <1>8, Zenon
  <2>3. CASE i # n /\ i \notin 1..Len(items)
    <3>1. i \notin 1..n
      BY <2>3, <1>6, Zenon
    <3> QED BY <2>3, <3>1, <1>7, <1>8, Zenon
  <2> QED BY <2>1, <2>2, <2>3, Zenon
<1>11. P!Live' = P!Live \cup {n}
  BY <1>10, Zenon
<1> QED BY <1>2, <1>4, <1>11 DEF n

\* What is left when the i-th pickup is taken.
LEMMA ItemTaken ==
    ASSUME items \in Seq(PlacedPickup), NEW i \in 1..Len(items),
           items' = [items EXCEPT ![i].picked_up = TRUE]
    PROVE  /\ items' \in Seq(PlacedPickup) /\ Len(items') = Len(items)
           /\ \A k \in 1..Len(items) : items'[k].collider = items[k].collider
           /\ P!Live' = P!Live \ {i}
<1>1. PICK e : e = [items[i] EXCEPT !.picked_up = TRUE]
  OBVIOUS
<1>2. items' = [items EXCEPT ![i] = e]
  BY <1>1, Zenon
<1>3. Len(items) \in Nat /\ DOMAIN items = 1..Len(items) /\ items[i] \in PlacedPickup
      /\ items \in [1..Len(items) -> PlacedPickup]
  BY LenProperties, ElementOfSeq
<1>4. e \in PlacedPickup /\ e.collider = items[i].collider /\ e.picked_up
  BY <1>1, <1>3, Zenon DEF PlacedPickup
<1>5. /\ items' \in Seq(PlacedPickup) /\ Len(items') = Len(items) /\ DOMAIN items' = 1..Len(items)
      /\ items'[i] = e /\ \A k \in 1..Len(items) : k # i => items'[k] = items[k]
  <2>1. items' \in [1..Len(items) -> PlacedPickup]
    BY <1>2, <1>3, <1>4
  <2>2. items' \in Seq(PlacedPickup) /\ DOMAIN items' = 1..Len(items)
    BY <2>1, <1>3, SeqDef
  <2>3. Len(items') \in Nat /\ DOMAIN items' = 1..Len(items')
    BY <2>2, LenProperties
  <2>4. Len(items') = Len(items)
    BY <2>2, <2>3, <1>3
  <2>5. items'[i] = e /\ \A k \in 1..Len(items) : k # i => items'[k] = items[k]
    BY <1>2, <1>3
  <2> QED BY <2>2, <2>4, <2>5
<1>6. \A k \in 1..Len(items) : items'[k].collider = items[k].collider
  <2>1. ASSUME NEW k \in 1..Len(items) PROVE items'[k].collider = items[k].collider
    BY <1>4, <1>5, Zenon
  <2> QED BY <2>1
<1>7. P!Live = {k \in 1..Len(items) : ~items[k].picked_up}
  BY <1>3, Zenon DEF P!Live
<1>8. P!Live' = {k \in 1..Len(items) : ~items'[k].picked_up}
  BY <1>5, Zenon DEF P!Live
<1>9. ASSUME NEW k PROVE k \in P!Live' <=> k \in P!Live \ {i}
  BY <1>4, <1>5, <1>7, <1>8, Zenon
<1>10. P!Live' = P!Live \ {i}
  BY <1>9, Zenon
<1> QED BY <1>5, <1>6, <1>10

\* The pickup that is found is the first of the nearest ones that cover p.
LEMMA FoundIs ==
    ASSUME PickupsInv, NEW p \in P!Position
    PROVE  LET T == table[P!TileOf(p)].indexes
               I == P!check_player_pickup_collision(p)
           IN
           /\ I # 0 => I \in P!Live /\ P!Covers(I, p)
           /\ \A k \in 1..Len(T) : P!Covers(T[k], p) =>
                /\ \E m \in 1..Len(T) : I = T[m] /\ P!Covers(I, p)
                /\ P!dist_positions_squared(p, P!ColliderOf(I).center)
                     <= P!dist_positions_squared(p, P!ColliderOf(T[k]).center)
<1> DEFINE T == table[P!TileOf(p)].indexes
           I == P!check_player_pickup_collision(p)
           d(k) == P!dist_positions_squared(p, P!ColliderOf(T[k]).center)
           hit == {k \in DOMAIN T : P!Covers(T[k], p)}
           First(k) == \A j \in hit : d(k) < d(j) \/ (d(k) = d(j) /\ k <= j)
           best == CHOOSE k \in hit : First(k)
<1>1. I = IF hit = {} THEN 0 ELSE T[best]
  BY DEF P!check_player_pickup_collision
<1> HIDE DEF I
<1>2. P!TileOf(p) \in P!Tile /\ p[1] \in Nat /\ p[2] \in Nat
  BY PositionNumbers
<1>3. T \in Seq(Nat) /\ Len(T) \in Nat /\ DOMAIN T = 1..Len(T)
  <2>1. table[P!TileOf(p)] \in TileList
    BY <1>2 DEF PickupsInv
  <2>2. T \in Seq(Nat)
    BY <2>1 DEF TileList
  <2> QED BY <2>2, LenProperties
<1>4. ASSUME NEW k \in 1..Len(T), T[k] # 0
      PROVE  T[k] \in P!Live /\ T[k] \in 1..Len(items) /\ items[T[k]] \in PlacedPickup
  <2>1. T[k] \in P!Live
    BY <1>2, <1>4 DEF PickupsInv, OnlyLive, T
  <2>2. items \in Seq(PlacedPickup)
    BY DEF PickupsInv
  <2>3. T[k] \in DOMAIN items
    BY <2>1, Zenon DEF P!Live
  <2> QED BY <2>1, <2>2, <2>3, LenProperties, ElementOfSeq
<1>5. \A k \in 1..Len(T) : d(k) \in Nat
  <2>1. SUFFICES ASSUME NEW k \in 1..Len(T) PROVE d(k) \in Nat
    OBVIOUS
  <2>2. CASE T[k] = 0
    <3>1. P!ColliderOf(T[k]) = dummy
      BY <2>2 DEF P!ColliderOf
    <3>2. dummy \in FreshPage
      BY DEF PickupsInv
    <3>3. dummy.center[1] \in Int /\ dummy.center[2] \in Int
      BY <3>2, PickupsNumbers
    <3> QED BY <3>1, <3>3, <1>2, DistanceTyped
  <2>3. CASE T[k] # 0
    <3>1. P!ColliderOf(T[k]) = items[T[k]].collider
      BY <2>3 DEF P!ColliderOf
    <3>2. items[T[k]].collider.center \in P!Position
      BY <2>3, <1>4, PlacedFields
    <3>3. items[T[k]].collider.center[1] \in Nat /\ items[T[k]].collider.center[2] \in Nat
      BY <3>2, PositionNumbers
    <3> QED BY <3>1, <3>3, <1>2, DistanceTyped
  <2> QED BY <2>2, <2>3
<1>6. hit \subseteq 1..Len(T)
  BY <1>3
<1> HIDE DEF T, d, hit
<1>7. hit # {} => \E k \in hit : First(k)
  <2>1. SUFFICES ASSUME hit # {} PROVE \E k \in hit : First(k)
    OBVIOUS
  <2> DEFINE near == {d(k) : k \in hit}
  <2>2. near \in SUBSET Nat /\ near # {}
    BY <2>1, <1>5, <1>6
  <2>3. PICK x \in near : \A y \in near : x <= y
    <3> HIDE DEF near
    <3> QED BY <2>2, LeastNat
  <2> DEFINE same == {k \in hit : d(k) = x}
  <2>4. same \in SUBSET Nat /\ same # {}
    BY <1>3, <1>6
  <2>5. PICK k \in same : \A j \in same : k <= j
    <3> HIDE DEF same
    <3> QED BY <2>4, LeastNat
  <2>6. ASSUME NEW j \in hit PROVE d(k) < d(j) \/ (d(k) = d(j) /\ k <= j)
    <3>1. d(j) \in Nat /\ x \in Nat /\ x <= d(j) /\ d(k) = x
      BY <2>2, <2>3, <2>5, <1>5, <1>6
    <3>2. d(j) = x => k <= j
      BY <2>5
    <3> QED BY <3>1, <3>2
  <2> QED BY <2>5, <2>6
<1>8. hit # {} => best \in hit /\ First(best)
  <2> HIDE DEF First
  <2> QED BY <1>7
<1> HIDE DEF best
<1>9. ASSUME hit # {}
      PROVE  /\ I = T[best] /\ best \in 1..Len(T) /\ P!Covers(I, p)
             /\ d(best) = P!dist_positions_squared(p, P!ColliderOf(I).center)
  <2>1. I = T[best]
    BY <1>1, <1>9
  <2>2. best \in 1..Len(T)
    BY <1>6, <1>8, <1>9
  <2>3. P!Covers(T[best], p)
    BY <1>8, <1>9 DEF hit
  <2> QED BY <2>1, <2>2, <2>3, Zenon DEF d
<1>10. I # 0 => I \in P!Live /\ P!Covers(I, p)
  <2>1. SUFFICES ASSUME I # 0 PROVE I \in P!Live /\ P!Covers(I, p)
    OBVIOUS
  <2>2. hit # {}
    BY <2>1, <1>1
  <2> QED BY <2>1, <2>2, <1>4, <1>9
<1>11. ASSUME NEW k \in 1..Len(T), P!Covers(T[k], p)
       PROVE  /\ \E m \in 1..Len(T) : I = T[m] /\ P!Covers(I, p)
              /\ P!dist_positions_squared(p, P!ColliderOf(I).center)
                     <= P!dist_positions_squared(p, P!ColliderOf(T[k]).center)
  <2>1. k \in hit
    BY <1>3, <1>11 DEF hit
  <2>2. d(best) <= d(k)
    <3>1. hit # {} /\ best \in 1..Len(T) /\ k \in 1..Len(T)
      BY <2>1, <1>9
    <3>2. d(best) < d(k) \/ d(best) = d(k)
      BY <2>1, <3>1, <1>8
    <3>3. d(best) \in Nat /\ d(k) \in Nat
      BY <3>1, <1>5
    <3> QED BY <3>2, <3>3
  <2>3. d(k) = P!dist_positions_squared(p, P!ColliderOf(T[k]).center)
    BY DEF d
  <2> QED BY <2>1, <2>2, <2>3, <1>9
<1> QED BY <1>10, <1>11 DEF T, I

\* Insert appends an index and keeps the list within what is allocated.
LEMMA InsertIs ==
    ASSUME NEW e \in TileList, NEW n \in Nat, NEW f, f = P!Insert(e, n),
           e.indexes = <<>> => e.max_indexes = 0,
           Len(e.indexes) <= e.room, e.max_indexes <= e.room
    PROVE  /\ f \in TileList /\ f.indexes = Append(e.indexes, n)
           /\ Len(f.indexes) = Len(e.indexes) + 1
           /\ \A k \in 1..Len(e.indexes) : f.indexes[k] = e.indexes[k]
           /\ f.indexes[Len(e.indexes) + 1] = n
           /\ f.indexes # <<>>
           /\ Len(f.indexes) <= f.room /\ f.max_indexes <= f.room
<1> DEFINE s == e.indexes
           m == e.max_indexes
           r == e.room
<1>1. s \in Seq(Nat) /\ m \in Nat /\ r \in Nat /\ STEP \in Nat \ {0}
  BY PickupsNumbers DEF TileList
<1>2. /\ f.indexes = Append(s, n)
      /\ f.max_indexes = (IF s = <<>> \/ Len(s) >= m THEN m + STEP ELSE m)
      /\ f.room = (IF s = <<>> THEN STEP ELSE IF Len(s) >= m THEN Len(s) + STEP ELSE r)
      /\ f = [indexes |-> f.indexes, max_indexes |-> f.max_indexes, room |-> f.room]
  BY DEF P!Insert
<1>3. (s = <<>> => m = 0) /\ Len(s) <= r /\ m <= r
  OBVIOUS
<1> HIDE DEF s, m, r
<1>4. /\ Append(s, n) \in Seq(Nat) /\ Len(s) \in Nat /\ Len(Append(s, n)) = Len(s) + 1
      /\ \A k \in 1..Len(s) : Append(s, n)[k] = s[k]
      /\ Append(s, n)[Len(s) + 1] = n /\ Append(s, n) # <<>> /\ (s = <<>> => Len(s) = 0)
  BY <1>1, AppendProperties, LenProperties
<1> DEFINE l == Len(s)
<1> HIDE DEF l
<1>5. f.max_indexes \in Nat /\ f.room \in Nat /\ l + 1 <= f.room /\ f.max_indexes <= f.room
  <2>1. l \in Nat /\ (s = <<>> => l = 0)
    BY <1>4 DEF l
  <2>2. CASE s = <<>>
    <3>1. f.max_indexes = m + STEP /\ f.room = STEP /\ m = 0 /\ l = 0
      BY <1>2, <1>3, <2>1, <2>2
    <3> QED BY <3>1, <1>1
  <2>3. CASE s # <<>> /\ l >= m
    <3>1. f.max_indexes = m + STEP /\ f.room = l + STEP
      BY <1>2, <2>3 DEF l
    <3> QED BY <3>1, <1>1, <2>1, <2>3
  <2>4. CASE s # <<>> /\ ~(l >= m)
    <3>1. f.max_indexes = m /\ f.room = r /\ m <= r
      BY <1>2, <1>3, <2>4 DEF l
    <3> QED BY <3>1, <1>1, <2>1, <2>4
  <2> QED BY <2>2, <2>3, <2>4
<1>6. f \in TileList
  BY <1>2, <1>4, <1>5 DEF TileList
<1> QED BY <1>2, <1>4, <1>5, <1>6 DEF s, l

LEMMA ItemsTyped ==
    ASSUME PickupsInv
    PROVE  /\ items \in Seq(PlacedPickup) /\ Len(items) \in Nat
           /\ P!Live \subseteq 1..Len(items)
           /\ \A i \in 1..Len(items) : items[i] \in PlacedPickup
           /\ \A t \in P!Tile : /\ table[t] \in TileList /\ table[t].indexes \in Seq(Nat)
                                /\ Len(table[t].indexes) \in Nat
<1>1. items \in Seq(PlacedPickup) /\ table \in [P!Tile -> TileList]
  BY DEF PickupsInv
<1>2. Len(items) \in Nat /\ DOMAIN items = 1..Len(items)
      /\ \A i \in 1..Len(items) : items[i] \in PlacedPickup
  BY <1>1, LenProperties, ElementOfSeq
<1>3. P!Live \subseteq 1..Len(items)
  BY <1>2, Zenon DEF P!Live
<1>4. \A t \in P!Tile : table[t] \in TileList /\ table[t].indexes \in Seq(Nat)
  BY <1>1 DEF TileList
<1> QED BY <1>1, <1>2, <1>3, <1>4, LenProperties

LEMMA AddPickupStep ==
    ASSUME PickupsInv, NEW c \in [center : Spot, radius : Radius], P!add_pickup(c)
    PROVE  PickupsInv'
<1> DEFINE n == Len(items) + 1
<1>1. /\ items \in Seq(PlacedPickup) /\ Len(items) \in Nat /\ P!Live \subseteq 1..Len(items)
      /\ \A t \in P!Tile : /\ table[t] \in TileList /\ table[t].indexes \in Seq(Nat)
                           /\ Len(table[t].indexes) \in Nat
  BY ItemsTyped
<1>2. loaded /\ Len(items) < MaxPickups /\ loaded' = loaded /\ loads' = loads
      /\ items' = Append(items, [collider |-> c, picked_up |-> FALSE])
  BY Zenon DEF P!add_pickup
<1>3. table' = [t \in P!Tile |-> IF Reaches(c, t) THEN P!Insert(table[t], n) ELSE table[t]]
  BY DEF P!add_pickup, P!add_collision, Reaches
<1>4. dummy' \in FreshPage
  BY DEF P!add_pickup, PickupsInv
<1>5. /\ items' \in Seq(PlacedPickup) /\ Len(items') = n
      /\ \A i \in 1..Len(items) : items'[i] = items[i]
      /\ items'[n].collider = c
      /\ P!Live' = P!Live \cup {n}
  BY <1>1, <1>2, ItemsAppended
<1>6. Len(items') <= MaxPickups
  BY <1>1, <1>2, <1>5, PickupsNumbers
<1>7. n \in Nat /\ n # 0
  BY <1>1
<1> HIDE DEF n
\* The lists of one tile before and after.
<1>8. ASSUME NEW t \in P!Tile
      PROVE  LET old == table[t].indexes
                 new == table'[t].indexes
             IN  /\ table'[t] \in TileList /\ (new = <<>> => table'[t].max_indexes = 0)
                 /\ Len(new) <= table'[t].room /\ table'[t].max_indexes <= table'[t].room
                 /\ Reaches(c, t) => Len(new) = Len(old) + 1 /\ new[Len(old) + 1] = n
                 /\ ~Reaches(c, t) => Len(new) = Len(old)
                 /\ \A k \in 1..Len(old) : new[k] = old[k]
  <2>1. /\ table[t].indexes = <<>> => table[t].max_indexes = 0
        /\ Len(table[t].indexes) <= table[t].room /\ table[t].max_indexes <= table[t].room
    BY DEF PickupsInv, P!ListsFit
  <2>2. CASE Reaches(c, t)
    <3>1. table'[t] = P!Insert(table[t], n)
      BY <1>3, <2>2
    <3>2. table[t] \in TileList
      BY <1>1
    <3> QED BY <3>1, <3>2, <2>1, <2>2, <1>7, InsertIs
  <2>3. CASE ~Reaches(c, t)
    <3>1. table'[t] = table[t]
      BY <1>3, <2>3
    <3> QED BY <3>1, <1>1, <2>1, <2>3
  <2> QED BY <2>2, <2>3
<1>9. table' \in [P!Tile -> TileList]
  <2>1. \A t \in P!Tile : table'[t] \in TileList
    BY <1>8
  <2>2. DOMAIN table' = P!Tile /\ table' = [t \in P!Tile |-> table'[t]]
    BY <1>3
  <2> QED BY <2>1, <2>2
<1>10. P!ListsFit' /\ \A t \in P!Tile : table'[t].indexes = <<>> => table'[t].max_indexes = 0
  BY <1>8 DEF P!ListsFit
<1>11. OnlyLive'
  <2>1. SUFFICES ASSUME NEW t \in P!Tile, NEW k \in 1..Len(table'[t].indexes), table'[t].indexes[k] # 0
                 PROVE  /\ table'[t].indexes[k] \in P!Live'
                        /\ t \in P!around(items'[table'[t].indexes[k]].collider.center)
    BY DEF OnlyLive
  <2>2. CASE k \in 1..Len(table[t].indexes)
    <3>1. PICK i : i = table[t].indexes[k]
      OBVIOUS
    <3>2. table'[t].indexes[k] = i
      BY <2>2, <3>1, <1>8
    <3>3. i \in P!Live /\ t \in P!around(items[i].collider.center)
      BY <2>1, <2>2, <3>1, <3>2 DEF PickupsInv, OnlyLive
    <3>4. items'[i] = items[i]
      BY <3>3, <1>1, <1>5
    <3> QED BY <3>2, <3>3, <3>4, <1>5
  <2>3. CASE k \notin 1..Len(table[t].indexes)
    <3>1. Len(table[t].indexes) \in Nat
      BY <1>1
    <3>2. Reaches(c, t) /\ k = Len(table[t].indexes) + 1
      <4>1. k \in 1..Len(table'[t].indexes)
        BY <2>1
      <4>2. Reaches(c, t)
        BY <4>1, <2>3, <1>8
      <4>3. Len(table'[t].indexes) = Len(table[t].indexes) + 1
        BY <4>2, <1>8
      <4> QED BY <4>1, <4>2, <4>3, <2>3, <3>1
    <3>3. table'[t].indexes[k] = n
      BY <3>2, <1>8
    <3>4. t \in P!around(c.center)
      BY <3>2 DEF Reaches
    <3> QED BY <3>3, <3>4, <1>5
  <2> QED BY <2>2, <2>3
<1>12. AllListed'
  <2>1. SUFFICES ASSUME NEW j \in P!Live', NEW t \in P!Tile, Reaches(items'[j].collider, t)
                 PROVE  \E k \in 1..Len(table'[t].indexes) : table'[t].indexes[k] = j
    BY DEF AllListed, Reaches, P!around, P!check_circle_rect_collision
  <2>2. Len(table[t].indexes) \in Nat
    BY <1>1
  <2>3. CASE j = n
    <3>1. Reaches(c, t)
      BY <2>1, <2>3, <1>5
    <3>2. Len(table'[t].indexes) = Len(table[t].indexes) + 1
          /\ table'[t].indexes[Len(table[t].indexes) + 1] = j
      BY <3>1, <2>3, <1>8
    <3>3. Len(table[t].indexes) + 1 \in 1..Len(table'[t].indexes)
      BY <3>2, <2>2
    <3> QED BY <3>2, <3>3
  <2>4. CASE j # n
    <3>1. j \in P!Live
      BY <2>1, <2>4, <1>5
    <3>2. items'[j] = items[j]
      BY <3>1, <1>1, <1>5
    <3>3. PICK k \in 1..Len(table[t].indexes) : table[t].indexes[k] = j
      BY <2>1, <3>1, <3>2 DEF PickupsInv, AllListed
    <3>4. table'[t].indexes[k] = j
      BY <3>3, <1>8
    <3>5. Len(table'[t].indexes) = Len(table[t].indexes) + 1
          \/ Len(table'[t].indexes) = Len(table[t].indexes)
      BY <1>8
    <3>6. k \in 1..Len(table'[t].indexes)
      BY <3>5, <2>2
    <3> QED BY <3>4, <3>6
  <2> QED BY <2>3, <2>4
<1>13. loaded' \in BOOLEAN /\ loads' \in 0..MaxLoads /\ (~loaded' => items' = <<>>)
  BY <1>2, Zenon DEF PickupsInv
<1> QED BY <1>4, <1>5, <1>6, <1>9, <1>10, <1>11, <1>12, <1>13 DEF PickupsInv

LEMMA TakePickupStep ==
    ASSUME PickupsInv, NEW p \in P!Position, P!pickup_index(p)
    PROVE  PickupsInv'
<1>1. PICK i : i = P!check_player_pickup_collision(p)
  OBVIOUS
<1>2. /\ loaded /\ i > 0 /\ items' = [items EXCEPT ![i].picked_up = TRUE]
      /\ table' = P!remove_collision(items[i].collider.center, i)
      /\ dummy' = dummy /\ loaded' = loaded /\ loads' = loads
  BY <1>1, Zenon DEF P!pickup_index
<1>3. /\ items \in Seq(PlacedPickup) /\ Len(items) \in Nat /\ P!Live \subseteq 1..Len(items)
      /\ \A t \in P!Tile : /\ table[t] \in TileList /\ table[t].indexes \in Seq(Nat)
                           /\ Len(table[t].indexes) \in Nat
  BY ItemsTyped
<1>4. i \in P!Live /\ i \in 1..Len(items) /\ i # 0
  <2>1. i # 0
    BY <1>2
  <2> QED BY <2>1, <1>1, <1>3, FoundIs
<1>5. /\ items' \in Seq(PlacedPickup) /\ Len(items') = Len(items)
      /\ \A k \in 1..Len(items) : items'[k].collider = items[k].collider
      /\ P!Live' = P!Live \ {i}
  BY <1>2, <1>3, <1>4, ItemTaken
<1> DEFINE near == P!around(items[i].collider.center)
<1>6. table' = [t \in P!Tile |-> IF t \in near
        THEN [table[t] EXCEPT !.indexes = [k \in DOMAIN table[t].indexes |->
                IF table[t].indexes[k] = i THEN 0 ELSE table[t].indexes[k]]]
        ELSE table[t]]
  BY <1>2 DEF P!remove_collision
<1> HIDE DEF near
<1>7. ASSUME NEW t \in P!Tile
      PROVE  LET old == table[t].indexes
                 new == table'[t].indexes
             IN  /\ table'[t] \in TileList
                 /\ table'[t].room = table[t].room /\ table'[t].max_indexes = table[t].max_indexes
                 /\ Len(new) = Len(old)
                 /\ \A k \in 1..Len(old) :
                      new[k] = IF t \in near /\ old[k] = i THEN 0 ELSE old[k]
  <2>1. CASE t \in near
    <3> DEFINE old == table[t].indexes
               new == [k \in DOMAIN old |-> IF old[k] = i THEN 0 ELSE old[k]]
    <3>1. old \in Seq(Nat) /\ Len(old) \in Nat /\ DOMAIN old = 1..Len(old)
          /\ \A k \in 1..Len(old) : old[k] \in Nat
      BY <1>3, LenProperties, ElementOfSeq
    <3>2. new \in [1..Len(old) -> Nat]
      BY <3>1
    <3>3. new \in Seq(Nat) /\ DOMAIN new = 1..Len(old)
      BY <3>1, <3>2, SeqDef
    <3>4. Len(new) = Len(old)
      BY <3>1, <3>3, LenProperties
    <3>5. \A k \in 1..Len(old) : new[k] = IF t \in near /\ old[k] = i THEN 0 ELSE old[k]
      BY <3>1, <2>1
    <3>6. table'[t] = [table[t] EXCEPT !.indexes = new]
      BY <1>6, <2>1
    <3>7. table[t] \in TileList
      BY <1>3
    <3> HIDE DEF new
    <3>8. /\ table'[t].indexes = new /\ table'[t].room = table[t].room
          /\ table'[t].max_indexes = table[t].max_indexes /\ table'[t] \in TileList
      BY <3>3, <3>6, <3>7 DEF TileList
    <3> QED BY <3>4, <3>5, <3>8
  <2>2. CASE t \notin near
    <3>1. table'[t] = table[t]
      BY <1>6, <2>2
    <3> QED BY <3>1, <2>2, <1>3
  <2> QED BY <2>1, <2>2
<1>8. table' \in [P!Tile -> TileList]
  <2>1. \A t \in P!Tile : table'[t] \in TileList
    BY <1>7
  <2>2. DOMAIN table' = P!Tile /\ table' = [t \in P!Tile |-> table'[t]]
    BY <1>6
  <2> QED BY <2>1, <2>2
<1>9. P!ListsFit' /\ \A t \in P!Tile : table'[t].indexes = <<>> => table'[t].max_indexes = 0
  <2>1. ASSUME NEW t \in P!Tile
        PROVE  /\ Len(table'[t].indexes) <= table'[t].room
               /\ table'[t].max_indexes <= table'[t].room
               /\ table'[t].indexes = <<>> => table'[t].max_indexes = 0
    <3>1. /\ table'[t].room = table[t].room /\ table'[t].max_indexes = table[t].max_indexes
          /\ Len(table'[t].indexes) = Len(table[t].indexes) /\ table'[t] \in TileList
      BY <1>7
    <3>2. /\ table[t].indexes = <<>> => table[t].max_indexes = 0
          /\ Len(table[t].indexes) <= table[t].room /\ table[t].max_indexes <= table[t].room
      BY DEF PickupsInv, P!ListsFit
    <3>3. table[t].indexes \in Seq(Nat) /\ (table'[t].indexes = <<>> => table[t].indexes = <<>>)
      BY <3>1, <1>3, EmptySeq
    <3> QED BY <3>1, <3>2, <3>3
  <2> QED BY <2>1 DEF P!ListsFit
<1>10. OnlyLive'
  <2>1. SUFFICES ASSUME NEW t \in P!Tile, NEW k \in 1..Len(table'[t].indexes), table'[t].indexes[k] # 0
                 PROVE  /\ table'[t].indexes[k] \in P!Live'
                        /\ t \in P!around(items'[table'[t].indexes[k]].collider.center)
    BY DEF OnlyLive
  <2>2. k \in 1..Len(table[t].indexes)
    BY <2>1, <1>7
  <2>3. PICK j : j = table[t].indexes[k]
    OBVIOUS
  <2>4. table'[t].indexes[k] = j /\ j # 0 /\ ~(t \in near /\ j = i)
    BY <2>1, <2>2, <2>3, <1>7, <1>4
  <2>5. j \in P!Live /\ t \in P!around(items[j].collider.center)
    BY <2>2, <2>3, <2>4 DEF PickupsInv, OnlyLive
  <2>6. j # i
    BY <2>4, <2>5 DEF near
  <2>7. items'[j].collider = items[j].collider
    BY <2>5, <1>3, <1>5
  <2> QED BY <2>4, <2>5, <2>6, <2>7, <1>5
<1>11. AllListed'
  <2>1. SUFFICES ASSUME NEW j \in P!Live', NEW t \in P!Tile, Reaches(items'[j].collider, t)
                 PROVE  \E k \in 1..Len(table'[t].indexes) : table'[t].indexes[k] = j
    BY DEF AllListed, Reaches, P!around, P!check_circle_rect_collision
  <2>2. j \in P!Live /\ j # i
    BY <2>1, <1>5
  <2>3. items'[j].collider = items[j].collider
    BY <2>2, <1>3, <1>5
  <2>4. PICK k \in 1..Len(table[t].indexes) : table[t].indexes[k] = j
    BY <2>1, <2>2, <2>3 DEF PickupsInv, AllListed
  <2>5. table'[t].indexes[k] = j /\ Len(table'[t].indexes) = Len(table[t].indexes)
    BY <2>2, <2>4, <1>7
  <2> QED BY <2>4, <2>5
<1>12. loaded' \in BOOLEAN /\ loads' \in 0..MaxLoads /\ (~loaded' => items' = <<>>)
  BY <1>2, Zenon DEF PickupsInv
<1>13. dummy' \in FreshPage /\ Len(items') <= MaxPickups
  BY <1>2, <1>5 DEF PickupsInv
<1> QED BY <1>5, <1>8, <1>9, <1>10, <1>11, <1>12, <1>13 DEF PickupsInv

LEMMA EmptyTable ==
    ASSUME NEW T, T = [t \in P!Tile |-> P!NoList]
    PROVE  /\ T \in [P!Tile -> TileList]
           /\ \A t \in P!Tile : /\ T[t].indexes = <<>> /\ Len(T[t].indexes) = 0
                                /\ T[t].max_indexes = 0 /\ T[t].room = 0
<1>1. P!NoList \in TileList
  BY DEF P!NoList, TileList
<1> QED BY <1>1 DEF P!NoList

\* With no pickups and no lists, the table is right.
LEMMA EmptyLevel ==
    ASSUME items' = <<>>, table' = [t \in P!Tile |-> P!NoList], dummy' \in FreshPage,
           loaded' \in BOOLEAN, loads' \in 0..MaxLoads
    PROVE  PickupsInv'
<1>1. /\ table' \in [P!Tile -> TileList]
      /\ \A t \in P!Tile : /\ table'[t].indexes = <<>> /\ Len(table'[t].indexes) = 0
                           /\ table'[t].max_indexes = 0 /\ table'[t].room = 0
  BY EmptyTable
<1>2. items' \in Seq(PlacedPickup) /\ Len(items') <= MaxPickups /\ DOMAIN items' = {}
  BY PickupsNumbers
<1>3. P!Live' = {}
  BY <1>2, Zenon DEF P!Live
<1>4. P!ListsFit'
  BY <1>1 DEF P!ListsFit
<1>5. OnlyLive' /\ AllListed'
  <2>1. OnlyLive'
    BY <1>1 DEF OnlyLive
  <2>2. AllListed'
    BY <1>3 DEF AllListed
  <2> QED BY <2>1, <2>2
<1> QED BY <1>1, <1>2, <1>4, <1>5 DEF PickupsInv

LEMMA PickupsInit == P!Init => PickupsInv
<1>1. SUFFICES ASSUME P!Init PROVE PickupsInv
  OBVIOUS
<1>2. /\ items = <<>> /\ table = [t \in P!Tile |-> P!NoList] /\ dummy \in FreshPage
      /\ loaded = FALSE /\ loads = 0
  BY <1>1 DEF P!Init
<1>3. /\ table \in [P!Tile -> TileList]
      /\ \A t \in P!Tile : /\ table[t].indexes = <<>> /\ Len(table[t].indexes) = 0
                           /\ table[t].max_indexes = 0 /\ table[t].room = 0
  BY <1>2, EmptyTable
<1>4. items \in Seq(PlacedPickup) /\ Len(items) <= MaxPickups /\ DOMAIN items = {}
  BY <1>2, PickupsNumbers
<1>5. P!Live = {}
  BY <1>4, Zenon DEF P!Live
<1>6. P!ListsFit
  BY <1>3 DEF P!ListsFit
<1>7. OnlyLive
  BY <1>3 DEF OnlyLive
<1>8. AllListed
  BY <1>5 DEF AllListed
<1>9. loaded \in BOOLEAN /\ loads \in 0..MaxLoads
  <2>1. loaded \in BOOLEAN
    BY <1>2, Zenon
  <2>2. loads \in 0..MaxLoads
    BY <1>2, PickupsNumbers
  <2> QED BY <2>1, <2>2
<1> QED BY <1>2, <1>3, <1>4, <1>6, <1>7, <1>8, <1>9 DEF PickupsInv

LEMMA PickupsInvariant == P!Spec => []PickupsInv
<1>1. PickupsInv /\ [P!Next]_(P!vars) => PickupsInv'
  <2>1. SUFFICES ASSUME PickupsInv, [P!Next]_(P!vars) PROVE PickupsInv'
    OBVIOUS
  <2>2. CASE P!init_collision_table
    <3>1. /\ ~loaded /\ loads < MaxLoads /\ loaded' = TRUE /\ loads' = loads + 1
          /\ table' = [t \in P!Tile |-> P!NoList] /\ items' = items /\ dummy' = dummy
      BY <2>2 DEF P!init_collision_table
    <3>2. items' = <<>> /\ dummy' \in FreshPage /\ loads \in 0..MaxLoads
      BY <2>1, <3>1 DEF PickupsInv
    <3>3. loads' \in 0..MaxLoads
      BY <3>1, <3>2, PickupsNumbers
    <3> QED BY <3>1, <3>2, <3>3, EmptyLevel
  <2>3. CASE \E c \in [center : Spot, radius : Radius] : P!add_pickup(c)
    BY <2>1, <2>3, AddPickupStep
  <2>4. CASE \E p \in P!Position : P!pickup_index(p)
    BY <2>1, <2>4, TakePickupStep
  <2>5. CASE P!free_level
    <3>1. /\ loaded' = FALSE /\ items' = <<>> /\ table' = [t \in P!Tile |-> P!NoList]
          /\ dummy' = dummy /\ loads' = loads
      BY <2>5 DEF P!free_level
    <3>2. dummy' \in FreshPage /\ loads' \in 0..MaxLoads
      BY <2>1, <3>1 DEF PickupsInv
    <3> QED BY <3>1, <3>2, EmptyLevel
  <2>6. CASE UNCHANGED P!vars
    <3>1. /\ items' = items /\ dummy' = dummy /\ table' = table /\ loaded' = loaded
          /\ loads' = loads
      BY <2>6 DEF P!vars
    <3>2. P!Live' = P!Live
      BY <3>1, Zenon DEF P!Live
    <3>3. OnlyLive' /\ AllListed' /\ P!ListsFit'
      <4>1. OnlyLive /\ AllListed /\ P!ListsFit
        BY <2>1 DEF PickupsInv
      <4> QED BY <4>1, <3>1, <3>2 DEF OnlyLive, AllListed, P!ListsFit
    <3> QED BY <2>1, <3>1, <3>3 DEF PickupsInv
  <2> QED BY <2>1, <2>2, <2>3, <2>4, <2>5, <2>6 DEF P!Next
<1> QED BY <1>1, PickupsInit, PTL DEF P!Spec

LEMMA PickupsTyped == PickupsInv => P!TypeOK
<1>1. SUFFICES ASSUME PickupsInv PROVE P!TypeOK
  OBVIOUS
<1>2. /\ items \in Seq(PlacedPickup) /\ Len(items) \in Nat /\ P!Live \subseteq 1..Len(items)
      /\ \A t \in P!Tile : /\ table[t] \in TileList /\ table[t].indexes \in Seq(Nat)
                           /\ Len(table[t].indexes) \in Nat
  BY <1>1, ItemsTyped
<1> DEFINE S == [collider : P!Collider, picked_up : BOOLEAN]
<1>3. PlacedPickup \subseteq S
  <2>1. [center : Spot, radius : Radius] \subseteq P!Collider
    BY PickupsNumbers DEF P!Collider
  <2> QED BY <2>1, Zenon DEF PlacedPickup
<1> HIDE DEF S
<1>4. items \in Seq(S)
  <2>1. items \in [1..Len(items) -> PlacedPickup]
    BY <1>2, LenProperties
  <2>2. items \in [1..Len(items) -> S]
    BY <2>1, <1>3
  <2> QED BY <2>2, <1>2, SeqDef
<1>5. ASSUME NEW t \in P!Tile
      PROVE  /\ table[t].indexes \in Seq(0..Len(items))
             /\ table[t].max_indexes \in Nat /\ table[t].room \in Nat
  <2> DEFINE s == table[t].indexes
  <2>1. s \in [1..Len(s) -> Nat] /\ Len(s) \in Nat
    BY <1>2, LenProperties
  <2>2. \A k \in 1..Len(s) : s[k] \in 0..Len(items)
    <3>1. ASSUME NEW k \in 1..Len(s) PROVE s[k] \in 0..Len(items)
      <4>1. s[k] # 0 => s[k] \in P!Live
        BY <1>1 DEF PickupsInv, OnlyLive
      <4> QED BY <4>1, <1>2
    <3> QED BY <3>1
  <2>3. s \in [1..Len(s) -> 0..Len(items)]
    BY <2>1, <2>2
  <2>4. s \in Seq(0..Len(items))
    BY <2>1, <2>3, SeqDef
  <2>5. table[t].max_indexes \in Nat /\ table[t].room \in Nat
    BY <1>2 DEF TileList
  <2> QED BY <2>4, <2>5
<1>6. Len(items) <= MaxPickups /\ loaded \in BOOLEAN /\ loads \in 0..MaxLoads
  BY <1>1 DEF PickupsInv
<1> QED BY <1>4, <1>5, <1>6 DEF P!TypeOK, S

(***************************************************************************)
(* Wherever a player stands, check_player_pickup_collision finds in the    *)
(* list of one tile the closest of all pickups that are still there, and   *)
(* add_collision writes inside what it allocated: for maps and circles of  *)
(* any size (up to the one tile that pickups.c allows), however many       *)
(* pickups are added and taken, if what malloc left in pickups[0] does not *)
(* reach where a pickup is.                                                *)
(***************************************************************************)
THEOREM PickupsFound == DummyOutOfReach => (P!Spec => []PickupsAreFound)
<1>1. SUFFICES ASSUME DummyOutOfReach PROVE P!Spec => []PickupsAreFound
  OBVIOUS
<1>2. PickupsInv => PickupsAreFound
  <2>1. SUFFICES ASSUME PickupsInv PROVE PickupsAreFound
    OBVIOUS
  <2>2. P!ListsFit
    BY <2>1 DEF PickupsInv
  <2>3. ASSUME NEW p \in P!Position
        PROVE  LET i == P!check_player_pickup_collision(p)
                   D(j) == P!dist_positions_squared(p, items[j].collider.center)
               IN  /\ i # 0 => i \in P!Live /\ P!Covers(i, p)
                   /\ \A j \in P!Live : P!Inside(j, p) => i # 0 /\ D(i) <= D(j)
    <3> DEFINE i == P!check_player_pickup_collision(p)
               T == table[P!TileOf(p)].indexes
               D(j) == P!dist_positions_squared(p, items[j].collider.center)
    <3>1. /\ i # 0 => i \in P!Live /\ P!Covers(i, p)
          /\ \A k \in 1..Len(T) : P!Covers(T[k], p) =>
                /\ \E m \in 1..Len(T) : i = T[m] /\ P!Covers(i, p)
                /\ P!dist_positions_squared(p, P!ColliderOf(i).center)
                     <= P!dist_positions_squared(p, P!ColliderOf(T[k]).center)
      BY <2>1, FoundIs
    <3>2. P!TileOf(p) \in P!Tile /\ p[1] \in Nat /\ p[2] \in Nat
      BY PositionNumbers
    <3> HIDE DEF i, T
    <3>3. ASSUME NEW j \in P!Live, P!Inside(j, p)
          PROVE  i # 0 /\ D(i) <= D(j)
      <4> DEFINE c == items[j].collider
                 dist == P!dist_positions_squared(p, c.center)
      <4>1. j \in 1..Len(items) /\ items[j] \in PlacedPickup /\ j # 0
        BY <2>1, ItemsTyped
      <4>2. /\ c.center \in P!Position /\ c.radius \in 1..Unit
            /\ c.center \in Spot /\ c.radius \in Radius
        BY <4>1, PlacedFields
      <4>3. P!ColliderOf(j) = c
        BY <4>1 DEF P!ColliderOf
      <4>4. dist < c.radius * c.radius
        BY <3>3, <4>3 DEF P!Inside
      <4>5. dist \in Nat /\ c.radius * c.radius \in Nat
        <5>1. c.center[1] \in Nat /\ c.center[2] \in Nat
          BY <4>2, PositionNumbers
        <5>2. c.radius \in Int
          BY <4>2
        <5> QED BY <5>1, <5>2, <3>2, DistanceTyped, Squares
      <4>6. Reaches(c, P!TileOf(p))
        BY <4>2, <4>4, OwnTileReached
      <4>7. PICK k \in 1..Len(T) : T[k] = j
        BY <2>1, <3>2, <4>6 DEF PickupsInv, AllListed, T
      <4>8. P!Covers(j, p)
        <5>1. dist <= c.radius * c.radius
          BY <4>4, <4>5
        <5> QED BY <5>1, <4>3 DEF P!Covers
      <4>9. P!Covers(i, p) /\ P!dist_positions_squared(p, P!ColliderOf(i).center) <= dist
        <5>1. P!Covers(T[k], p) /\ P!ColliderOf(T[k]) = c
          BY <4>3, <4>7, <4>8
        <5> QED BY <5>1, <3>1
      <4>10. i # 0
        <5>1. SUFFICES ASSUME i = 0 PROVE FALSE
          OBVIOUS
        <5>2. P!ColliderOf(i) = dummy /\ dummy \in FreshPage
          BY <2>1, <5>1 DEF P!ColliderOf, PickupsInv
        <5>3. P!dist_positions_squared(p, dummy.center) <= dummy.radius * dummy.radius
          BY <4>9, <5>2 DEF P!Covers
        <5>4. c.radius * c.radius <= dist
          BY <1>1, <4>2, <5>2, <5>3 DEF DummyOutOfReach
        <5> QED BY <5>4, <4>4, <4>5
      <4>11. P!ColliderOf(i) = items[i].collider
        BY <4>10 DEF P!ColliderOf
      <4> QED BY <4>9, <4>10, <4>11
    <3> QED BY <3>1, <3>3 DEF i
  <2> QED BY <2>2, <2>3 DEF PickupsAreFound, P!FindsClosest
<1> QED BY <1>2, PickupsInvariant, PTL

-----------------------------------------------------------------------------
(***************************************************************************)
(* The variables of all parts have their types: the level number and the   *)
(* round timer of game_manager.c stay in range, the pickups that a list    *)
(* names exist, and setup_renders never needs more places than its array   *)
(* has, for any number of people, pickups and levels.                      *)
(***************************************************************************)
THEOREM GameTypeCorrect == Spec /\ L!Spec /\ P!Spec /\ B!Spec /\ R!Spec => []GameTypeOK
<1>1. PatrolInv => B!TypeOK
  BY DEF PatrolInv
<1>2. TypeOK /\ L!TypeOK /\ P!TypeOK /\ B!TypeOK /\ R!TypeOK => GameTypeOK
  BY DEF GameTypeOK
<1> QED
  BY <1>1, <1>2, GameManagerTypeCorrect, LevelInvariant, LevelTyped, PatrolInvariant,
     PickupsInvariant, PickupsTyped, RendersInvariant, RendersTyped, PTL
=============================================================================
