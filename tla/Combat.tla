------------------------------- MODULE Combat -------------------------------
(***************************************************************************)
(* One level being played: the guns of guns/gun.c, the players and bots of *)
(* player/player.c, what they collect (pickups/pickups.c), the decisions   *)
(* of ai/enemy_controller.c and the weapon menu of inventory/menu.c.       *)
(*                                                                         *)
(* A timer tick runs game_handler; `turn` walks through the calls it makes *)
(* in their order.  Keyboard and mouse interrupts fall between ticks and   *)
(* may leave any buttons and keys down for the next one.                   *)
(* Positions, rays and walls are geometry: who stands on which pickup and  *)
(* who is in whose line of fire is a choice.  ammo_per_fire is 1 for every *)
(* gun of init_guns, and is written as 1 here.                             *)
(***************************************************************************)
EXTENDS Integers

CONSTANTS
    NumGuns,         \* guns in a player's inventory; a bot has one
    GunType,         \* gun_t of each of them
    BotGun,          \* gun_t of a bot's gun
    NumFoes,         \* bots in a single player level
    MaxHealth, MaxArmor,
    Pickup,          \* the pickups lying in the level
    Details,         \* pickup_details of each of them
    StartHealth,     \* what a single player level gives the player
    BotArmor,        \* armor a bot may start with, and
    BotLoad          \* its start_ammo and start_packets

GunData == [automatic : BOOLEAN, charge_time : Nat, cooldown_time : Nat,
            reload_time : Nat, damage : Nat, ammo_per_packet : Nat \ {0},
            max_packets : Nat, ammo_index : Nat]

ASSUME CombatConstants ==
    /\ NumGuns \in Nat \ {0, 1} /\ NumFoes \in Nat \ {0}
    /\ GunType \in [1..NumGuns -> GunData] /\ BotGun \in GunData
    /\ MaxHealth \in Nat \ {0} /\ MaxArmor \in Nat
    /\ Details \in [Pickup -> [kind : {"ammo", "medkit", "armor"},
                               amount : Nat, ammo_index : Nat]]
    /\ StartHealth \in 1..MaxHealth /\ BotArmor \subseteq 0..MaxArmor
    /\ BotLoad \subseteq [ammo : Nat, packets : Nat]

VARIABLES
    mode,            \* "GAME" (against bots) or "MP_GAME" (one network player)
    turn,            \* the part of the tick that comes next, and
    bot,             \* the bot whose turn it is
    ply,             \* player_info_t: `player` is 0, enemies[i] is i + 1
    left,            \* pickups not yet picked up
    gun_menu_state,
    level            \* "on", "over", or "crashed" by a stray hit

vars == <<mode, turn, bot, ply, left, gun_menu_state, level>>

-----------------------------------------------------------------------------
Person == 0..NumFoes
Foes == IF mode = "GAME" THEN 1..NumFoes ELSE {1}

type(p) == CASE p = 0 -> "PLAYER"
             [] p # 0 /\ mode = "MP_GAME" -> "NETWORK_PLAYER"
             [] OTHER -> "BOT"

\* A bot uses the first place of its inventory only.
gun(p, i) == IF type(p) = "BOT" THEN BotGun ELSE GunType[i]

GunState == {"INVENTORY", "INITIAL", "CHARGING", "READY", "COOLDOWN", "NO_AMMO", "RELOADING"}

\* The time that update_gun_state compares with in each state.
wait(s, data) == CASE s = "CHARGING" -> data.charge_time
                   [] s = "COOLDOWN" -> data.cooldown_time
                   [] s = "RELOADING" -> data.reload_time
                   [] OTHER -> 0

\* since: time_counter - last_op_tick; bound: not counted beyond that time.

GunInstance == [state : GunState, ammo : Nat, packets : Nat, since : Nat]

Player == [health : 0..MaxHealth, armor : 0..MaxArmor, should_render : BOOLEAN,
           gun_index : 1..NumGuns, guns : [1..NumGuns -> GunInstance],
           held : BOOLEAN, tap : BOOLEAN, mouse : {"KEY_UP", "KEY_DOWN"}]

TypeOK ==
    /\ mode \in {"GAME", "MP_GAME"} /\ level \in {"on", "over", "crashed"}
    /\ turn \in {"timer", "player", "bots", "end"} /\ bot \in 1..NumFoes
    /\ ply \in [Person -> Player]
    /\ left \subseteq Pickup /\ gun_menu_state \in {"CLOSED", "DISPLAYING"}

-----------------------------------------------------------------------------
(* guns/gun.c                                                              *)

Enter(g, s) == [g EXCEPT !.state = s, !.since = 0]

Older(g, data) == IF g.since < wait(g.state, data) THEN [g EXCEPT !.since = @ + 1] ELSE g

create_gun_instance(data, ammo, packets) ==
    [state |-> "INVENTORY", since |-> 0,
     ammo |-> IF ammo > data.ammo_per_packet THEN data.ammo_per_packet ELSE ammo,
     packets |-> IF packets > data.max_packets THEN data.max_packets ELSE packets]

reload_gun(g, data) ==
    IF g.packets > 0 THEN [g EXCEPT !.packets = @ - 1, !.ammo = data.ammo_per_packet] ELSE g

EmptyGun(g) == Enter(g, IF g.packets > 0 THEN "RELOADING" ELSE "NO_AMMO")

update_gun_state_no_empty_check(g, data, shot) ==
    CASE g.state = "INITIAL" -> IF g.ammo = 0 THEN EmptyGun(g) ELSE Enter(g, "CHARGING")
      [] g.state = "CHARGING" /\ g.since >= data.charge_time -> Enter(g, "READY")
      [] g.state = "READY" /\ shot -> Enter(g, "COOLDOWN")
      [] g.state = "COOLDOWN" /\ g.since >= data.cooldown_time -> Enter(g, "READY")
      [] g.state = "RELOADING" /\ g.since >= data.reload_time -> Enter(reload_gun(g, data), "READY")
      [] g.state = "NO_AMMO" /\ g.packets # 0 -> Enter(g, "RELOADING")
      [] OTHER -> g

update_gun_state_no_ammo_final(g, data, shot) ==
    CASE g.state = "INITIAL" -> IF g.ammo = 0 THEN EmptyGun(g) ELSE Enter(g, "CHARGING")
      [] g.state = "CHARGING" /\ g.since >= data.charge_time -> Enter(g, "READY")
      [] g.state = "READY" /\ g.ammo = 0 -> EmptyGun(g)
      [] g.state = "READY" /\ g.ammo # 0 /\ shot -> Enter(g, "COOLDOWN")
      [] g.state = "COOLDOWN" /\ g.since >= data.cooldown_time -> Enter(g, "READY")
      [] g.state = "RELOADING" /\ g.since >= data.reload_time -> Enter(reload_gun(g, data), "READY")
      [] OTHER -> g

update_gun_state(g, data, shot) ==
    CASE g.state = "INITIAL" -> IF g.ammo = 0 THEN EmptyGun(g) ELSE Enter(g, "CHARGING")
      [] g.state = "CHARGING" /\ g.since >= data.charge_time -> Enter(g, "READY")
      [] g.state = "READY" /\ g.ammo = 0 -> EmptyGun(g)
      [] g.state = "READY" /\ g.ammo # 0 /\ shot -> Enter(g, "COOLDOWN")
      [] g.state = "COOLDOWN" /\ g.since >= data.cooldown_time -> Enter(g, "READY")
      [] g.state = "RELOADING" /\ g.since >= data.reload_time -> Enter(reload_gun(g, data), "READY")
      [] g.state = "NO_AMMO" /\ g.packets # 0 -> Enter(g, "RELOADING")
      [] OTHER -> g

-----------------------------------------------------------------------------
(* player/player.c                                                         *)

switch_gun_keeps_state(q, i) ==
    IF q.gun_index = i THEN q
    ELSE [q EXCEPT !.gun_index = i, !.guns[i] = Enter(@, "INITIAL")]

switch_gun(q, i) ==
    IF q.gun_index = i THEN q
    ELSE [q EXCEPT !.guns[q.gun_index] = Enter(@, "INVENTORY"), !.gun_index = i,
                   !.guns[i] = Enter(@, "INITIAL")]

update_player_controls_tap_kept(q, lb) ==
    LET r == [q EXCEPT !.held = lb]
    IN  CASE q.mouse = "KEY_UP" /\ lb -> [r EXCEPT !.tap = TRUE, !.mouse = "KEY_DOWN"]
          [] q.mouse = "KEY_DOWN" /\ ~lb -> [r EXCEPT !.tap = FALSE, !.mouse = "KEY_UP"]
          [] OTHER -> r

\* The state machine that turns a held button (mouse_pkt.lb) into single taps.
update_player_controls(q, lb) ==
    LET r == [q EXCEPT !.held = lb]
    IN  CASE q.mouse = "KEY_UP" /\ lb -> [r EXCEPT !.tap = TRUE, !.mouse = "KEY_DOWN"]
          [] q.mouse = "KEY_DOWN" ->
               [r EXCEPT !.tap = FALSE, !.mouse = IF lb THEN "KEY_DOWN" ELSE "KEY_UP"]
          [] OTHER -> r

damaged_unclamped(q, damage) ==
    LET twice == 2 * q.armor - damage
        hurt == IF q.armor = 0 THEN damage ELSE (-twice) \div 2
    IN  IF q.armor > 0 /\ twice >= 0
          THEN [q EXCEPT !.armor = twice \div 2]
          ELSE [q EXCEPT !.armor = 0, !.health = @ - hurt]

\* armor is an int: armor - 0.5 * damage is rounded towards zero.
damaged(q, damage) ==
    LET twice == 2 * q.armor - damage
        hurt == IF q.armor = 0 THEN damage ELSE (-twice) \div 2
    IN  IF q.armor > 0 /\ twice >= 0
          THEN [q EXCEPT !.armor = twice \div 2]
          ELSE [q EXCEPT !.armor = 0, !.health = IF @ > hurt THEN @ - hurt ELSE 0]

-----------------------------------------------------------------------------
(* pickups/pickups.c: the handlers, with the answer `true` as `taken`.     *)

pickup_ammo_unclamped(q, p, d) ==
    LET of == {i \in 1..(IF type(p) = "BOT" THEN 1 ELSE NumGuns) :
                 gun(p, i).ammo_index = d.ammo_index}
        i == CHOOSE j \in of : \A k \in of : j <= k
    IN  IF of = {} THEN [taken |-> FALSE, q |-> q]
        ELSE IF q.guns[i].packets >= gun(p, i).max_packets THEN [taken |-> FALSE, q |-> q]
        ELSE [taken |-> TRUE, q |-> [q EXCEPT !.guns[i].packets = @ + d.amount]]

pickup_ammo(q, p, d) ==
    LET of == {i \in 1..(IF type(p) = "BOT" THEN 1 ELSE NumGuns) :
                 gun(p, i).ammo_index = d.ammo_index}
        i == CHOOSE j \in of : \A k \in of : j <= k
        sum == q.guns[i].packets + d.amount
    IN  IF of = {} THEN [taken |-> FALSE, q |-> q]
        ELSE IF q.guns[i].packets >= gun(p, i).max_packets THEN [taken |-> FALSE, q |-> q]
        ELSE [taken |-> TRUE,
              q |-> [q EXCEPT !.guns[i].packets =
                       IF sum > gun(p, i).max_packets THEN gun(p, i).max_packets ELSE sum]]

pickup_medkit(q, d) ==
    [taken |-> q.health < MaxHealth,
     q |-> [q EXCEPT !.health = IF @ + d.amount > MaxHealth THEN MaxHealth ELSE @ + d.amount]]

pickup_armor(q, d) ==
    [taken |-> q.armor < MaxArmor,
     q |-> [q EXCEPT !.armor = IF @ + d.amount > MaxArmor THEN MaxArmor ELSE @ + d.amount]]

pickup_handler(q, p, d) ==
    CASE d.kind = "ammo" -> pickup_ammo(q, p, d)
      [] d.kind = "medkit" -> pickup_medkit(q, d)
      [] d.kind = "armor" -> pickup_armor(q, d)

\* What the player stands on when it comes to check_player_pickup_collision.
pickup_index(q, p, under) ==
    IF under \in left THEN pickup_handler(q, p, Details[under]) ELSE [taken |-> FALSE, q |-> q]

-----------------------------------------------------------------------------
(* The calls of one tick.                                                  *)

Alive(p) == ply[p].health > 0

\* Whom fire can hit; bots and the network player only aim at `player`.
Targets(p) == {t \in (IF type(p) = "PLAYER" THEN Foes ELSE {0}) : Alive(t)}

\* player_int_ih ignores the trigger of everyone who is not the player.
trigger(p, q) ==
    \/ type(p) # "PLAYER"
    \/ /\ gun_menu_state = "CLOSED"
       /\ (q.held /\ gun(p, q.gun_index).automatic) \/ q.tap

\* The first number key found down selects the gun.
controls(p, lb, keys) ==
    LET first == CHOOSE k \in keys : \A j \in keys : k <= j
    IN  update_player_controls(IF keys = {} THEN ply[p] ELSE switch_gun(ply[p], first), lb)

\* What fire can do: hit a target, or a wall in front of it; with nobody in
\* range the variable hit is read uninitialised, and if it happens to be true
\* the bullet goes through the null pointer hit_target.
WALL == -1
NOBODY == -2
STRAY == -3
Shot(p) == Targets(p) \cup {NOBODY, STRAY} \cup (IF Targets(p) = {} THEN {} ELSE {WALL})

\* q0 has its controls set; `under` is the pickup it stands on, `ended` the
\* end of the death animation.
player_int_ih(p, q0, under, ended) ==
    LET pick == pickup_index(q0, p, under)
        q == pick.q
        data == gun(p, q.gun_index)
        g == q.guns[q.gun_index]
        shot == trigger(p, q) /\ g.state = "READY"
        bullet == shot /\ g.ammo > 0
        after == [q EXCEPT
            !.guns[q.gun_index] =
                update_gun_state(IF bullet THEN [g EXCEPT !.ammo = @ - 1] ELSE g, data, shot),
            !.should_render = @ /\ ~(p # 0 /\ q.health = 0 /\ ended)]
    IN  \E hit \in IF bullet THEN Shot(p) ELSE {NOBODY} :
          /\ ply' = [x \in Person |-> CASE x = p -> after
                                        [] x # p /\ x = hit -> damaged(ply[x], data.damage)
                                        [] OTHER -> ply[x]]
          /\ left' = IF pick.taken THEN left \ {under} ELSE left
          /\ level' = IF hit = STRAY THEN "crashed" ELSE level

Under == left \cup {"nothing"}
Keys == SUBSET (1..NumGuns)

\* timer_int_handler counts the tick: every waiting gun has waited one more.
\* Then handle_enemies: a dead bot lets go of the trigger, one that has the
\* player in its sights tosses a coin (pulls), the others do not shoot.
StartTick(pulls) ==
    /\ level = "on" /\ turn = "timer"
    /\ turn' = "player"
    /\ ply' = [p \in Person |-> [ply[p] EXCEPT
         !.guns = [i \in 1..NumGuns |-> Older(@[i], gun(p, i))],
         !.held = IF type(p) = "BOT" THEN p \in pulls /\ Alive(p) ELSE @]]
    /\ UNCHANGED <<mode, bot, left, gun_menu_state, level>>

\* uart_receive_data: decode_packet, then player_int_ih, for each packet.
Packet(lb, gun_down, under, ended) ==
    /\ level = "on" /\ turn = "player" /\ mode = "MP_GAME"
    /\ player_int_ih(1, controls(1, lb, {gun_down} \ {0}), under, ended)
    /\ UNCHANGED <<mode, turn, bot, gun_menu_state>>

\* uart_receive_data answers WIN_GAME_ERR or LOSE_GAME_ERR, or gives up.
MatchEnds ==
    /\ level = "on" /\ turn = "player" /\ mode = "MP_GAME"
    /\ level' = "over"
    /\ UNCHANGED <<mode, turn, bot, ply, left, gun_menu_state>>

PlayerTurn(lb, keys, under) ==
    /\ level = "on" /\ turn = "player"
    /\ player_int_ih(0, controls(0, lb, keys), under, FALSE)
    /\ turn' = IF mode = "GAME" THEN "bots" ELSE "end"
    /\ UNCHANGED <<mode, bot, gun_menu_state>>

bot_int_ih_always(under, ended) ==
    /\ level = "on" /\ turn = "bots"
    /\ player_int_ih(bot, ply[bot], under, ended)
    /\ turn' = IF bot = NumFoes THEN "end" ELSE "bots"
    /\ bot' = IF bot = NumFoes THEN 1 ELSE bot + 1
    /\ UNCHANGED <<mode, gun_menu_state>>

\* A bot whose death animation is over is not run any more.
bot_int_ih(under, ended) ==
    /\ level = "on" /\ turn = "bots"
    /\ IF ply[bot].should_render
         THEN player_int_ih(bot, ply[bot], under, ended)
         ELSE UNCHANGED <<ply, left, level>>
    /\ turn' = IF bot = NumFoes THEN "end" ELSE "bots"
    /\ bot' = IF bot = NumFoes THEN 1 ELSE bot + 1
    /\ UNCHANGED <<mode, gun_menu_state>>

\* What a tap in the weapon menu hits.
EXIT == -1
BACKGROUND == 0
MenuButton == EXIT..NumGuns

\* render_game opens the weapon menu while Q is down (gun_menu) and closes it
\* after; display_menu uses the tap.
RenderGame(gun_menu, button) ==
    LET q == [ply[0] EXCEPT !.tap = @ /\ ~gun_menu]
    IN  /\ button # BACKGROUND => gun_menu /\ ply[0].tap
        /\ gun_menu_state' = IF gun_menu THEN "DISPLAYING" ELSE "CLOSED"
        /\ ply' = [ply EXCEPT ![0] = IF button \in 1..NumGuns THEN switch_gun(q, button) ELSE q]

\* update_game_state ends the level; `ends` is the portal or the timer.
EndTick(gun_menu, button, ends) ==
    /\ level = "on" /\ turn = "end"
    /\ RenderGame(gun_menu, button)
    /\ level' = IF (ends /\ mode = "GAME") \/ button = EXIT \/ ~Alive(0)
                      \/ (mode = "MP_GAME" /\ ~Alive(1))
                  THEN "over" ELSE "on"
    /\ turn' = "timer"
    /\ UNCHANGED <<mode, bot, left>>

-----------------------------------------------------------------------------
init_player(health, armor, guns) ==
    [health |-> health, armor |-> armor, should_render |-> TRUE, gun_index |-> 1,
     guns |-> [guns EXCEPT ![1] = Enter(@, "INITIAL")],
     held |-> FALSE, tap |-> FALSE, mouse |-> "KEY_UP"]

Unloaded == [i \in 1..NumGuns |-> create_gun_instance(GunType[i], 0, 0)]

\* Level 2 gives the player a loaded second gun.
Loaded == [Unloaded EXCEPT
    ![2] = create_gun_instance(GunType[2], GunType[2].ammo_per_packet, 1)]

\* setup_game_1 and setup_game_2.  A bot's gun is loaded, except for one bot of
\* level 1; the rest of its inventory is not there.
setup_game ==
    \E player \in {init_player(StartHealth, 0, Unloaded),
                  switch_gun(init_player(StartHealth, 0, Loaded), 2)},
       armor \in BotArmor, load \in BotLoad :
      LET g == create_gun_instance(BotGun, load.ammo, load.packets)
      IN  ply = [p \in Person |-> IF p = 0 THEN player
                   ELSE init_player(MaxHealth, armor, [i \in 1..NumGuns |-> g])]

setup_multiplayer == ply = [p \in Person |-> init_player(MaxHealth, 0, Unloaded)]

\* load_level calls the setup function of its mode.
Init ==
    /\ turn = "timer" /\ bot = 1 /\ level = "on"
    /\ left = Pickup /\ gun_menu_state = "CLOSED"
    /\ \/ mode = "GAME" /\ setup_game
       \/ mode = "MP_GAME" /\ setup_multiplayer

Tick ==
    \/ \E pulls \in SUBSET Foes : StartTick(pulls)
    \/ \E lb \in BOOLEAN, keys \in Keys, under \in Under : PlayerTurn(lb, keys, under)
    \/ \E under \in Under, ended \in BOOLEAN : bot_int_ih(under, ended)
    \/ \E gun_menu \in BOOLEAN, button \in MenuButton, ends \in BOOLEAN :
         EndTick(gun_menu, button, ends)

Next ==
    \/ Tick
    \/ \E lb \in BOOLEAN, gun_down \in 0..NumGuns, under \in Under, ended \in BOOLEAN :
         Packet(lb, gun_down, under, ended)
    \/ MatchEnds

Spec == Init /\ [][Next]_vars

(***************************************************************************)
(* The timer keeps ticking and a tick runs to its end.  None of these      *)
(* steps stays enabled once the tick has moved on in some other way, so    *)
(* nobody is promised to let go of a button or to stand on no pickup.      *)
(***************************************************************************)
FairSpec ==
    /\ Spec
    /\ WF_vars(StartTick({})) /\ WF_vars(PlayerTurn(FALSE, {}, "nothing"))
    /\ WF_vars(bot_int_ih("nothing", FALSE)) /\ WF_vars(EndTick(FALSE, BACKGROUND, FALSE))

-----------------------------------------------------------------------------
(***************************************************************************)
(* fire shoots only when the gun is READY and then reports a shot, also    *)
(* without a bullet: a gun is never left READY with an empty magazine, on  *)
(* whatever path of switching, reloading and collecting it became READY.   *)
(***************************************************************************)
ReadyIsLoaded ==
    \A p \in Person, i \in 1..NumGuns : ply[p].guns[i].state = "READY" => ply[p].guns[i].ammo > 0

(***************************************************************************)
(* Exactly the gun at gun_index is out of the inventory, although it is    *)
(* switched from two places (number keys and weapon menu) in one tick.     *)
(***************************************************************************)
OneGunOut ==
    \A p \in Person, i \in 1..NumGuns :
      ply[p].guns[i].state = "INVENTORY" <=> i # ply[p].gun_index

(***************************************************************************)
(* No magazine holds more than a packet and nobody carries more packets    *)
(* than max_packets, whatever is collected while reloading or switching.   *)
(***************************************************************************)
AmmoInBounds ==
    \A p \in Person, i \in 1..NumGuns :
      /\ ply[p].guns[i].ammo <= gun(p, i).ammo_per_packet
      /\ ply[p].guns[i].packets <= gun(p, i).max_packets

(***************************************************************************)
(* Everybody's guns are in order after every call of a tick, whatever was  *)
(* switched, fired, reloaded and collected in it: a READY gun is loaded,   *)
(* one gun is out, and ammunition stays within its limits.                 *)
(***************************************************************************)
GunsAreSound == ReadyIsLoaded /\ OneGunOut /\ AmmoInBounds

(***************************************************************************)
(* "If false, the weapon needs to be tapped" (gun.h): a gun that is not    *)
(* automatic fires only in the tick that first sees the button down, so    *)
(* holding it, switching guns or opening the menu in between never gives a *)
(* second shot.                                                            *)
(***************************************************************************)
TapFiresOnce ==
    [][\A i \in 1..NumGuns :
         ~GunType[i].automatic /\ ply'[0].guns[i].ammo < ply[0].guns[i].ammo
           => ply[0].mouse = "KEY_UP" /\ ply'[0].mouse = "KEY_DOWN"]_vars

(***************************************************************************)
(* Only the dead disappear: a bot that collects a medkit in the middle of  *)
(* its death animation lives on and is still run and drawn, and one whose  *)
(* animation is over is dead for good.                                     *)
(***************************************************************************)
GoneIsDead == \A p \in Person : ~ply[p].should_render => ply[p].health = 0

(***************************************************************************)
(* A gun with anything left to shoot gets READY if it is not put away: no  *)
(* order of empty magazines, reloads and late ammo pickups leaves it in    *)
(* NO_AMMO, CHARGING or RELOADING for ever.                                *)
(***************************************************************************)
GunRecovers ==
    \A i \in 1..NumGuns :
      (ply[0].gun_index = i /\ (ply[0].guns[i].ammo > 0 \/ ply[0].guns[i].packets > 0))
        ~> (ply[0].guns[i].state \in {"READY", "INVENTORY"} \/ level # "on")

-----------------------------------------------------------------------------
(***************************************************************************)
(* player.h: player_int_ih "Analyses controls and moves, shoots and select *)
(* animations that should be played according to them": nobody shoots      *)
(* whose controls do not hold the left button down.                        *)
(***************************************************************************)
ShotsFollowControls ==
    [][\A p \in Person, i \in 1..NumGuns :
         ply'[p].guns[i].ammo < ply[p].guns[i].ammo => ply'[p].held]_vars
=============================================================================
