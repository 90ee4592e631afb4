-------------------------------- MODULE Level -------------------------------
(***************************************************************************)
(* The memory of a level: what load_level and the setup functions of       *)
(* game/level_manager.c allocate through map.c, pickups.c, gun.c, player.c *)
(* and enemy_controller.c, what a tick reaches through the pointers they   *)
(* keep, and what free_level gives back.                                   *)
(*                                                                         *)
(* A block is <<kind, number, level>>; realloc may move its block or not.  *)
(* A freed block keeps its name, so a pointer to it is seen to dangle even *)
(* when malloc would hand out the address again.  malloc does not fail.    *)
(* Every pickup has one list of the collision table to itself.             *)
(***************************************************************************)
EXTENDS Integers, Sequences, SequencesExt

CONSTANTS
    Lines,           \* lines of the map
    Bots,            \* bots of level 2 (15)
    Items,           \* pickups of level 2 and of the multiplayer level (22, 12)
    MaxLevels        \* bound: levels loaded

LevelConstants == {Lines, Bots, Items, MaxLevels} \subseteq Nat \ {0}

VARIABLES
    todo,            \* the calls that load_level or free_level has yet to make
    playing,         \* game_handler is run for the level
    heap,            \* the blocks allocated now
    enemies, num_enemies,
    controllers, ctrl,         \* the array, and the entries in it
    pickups, pickups_size,
    guns,            \* player.guns
    stale,           \* accesses to a block that is not allocated, by call
    past,            \* calls that have written past the end of a block
    levels

vars == <<todo, playing, heap, enemies, num_enemies, controllers, ctrl,
          pickups, pickups_size, guns, stale, past, levels>>

NULL == <<"null", 0, 0>>
B(kind, i) == <<kind, i, levels>>
Kind(b) == b[1]

GunNumber == 0..4    \* the five guns of init_guns

\* The calls of the setup functions: a call has the function's name and what
\* matters of its arguments, a person's type or number.
Function == {"load_map", "init_collision_table", "init_guns", "init_player", "init_enemy",
             "add_pickup", "close_map", "free_players", "free_controllers",
             "free_collision_table", "free_pickups", "free_gun_anims", "abort"}
Call == [fun : Function, arg : Int]
Do(f) == [fun |-> f, arg |-> 0]
PLAYER == 0
OTHER_PLAYER == 1    \* BOT or NETWORK_PLAYER

init_player_(type) == [fun |-> "init_player", arg |-> type]
init_enemy_(i) == [fun |-> "init_enemy", arg |-> i]
Times(n, c) == [i \in 1..n |-> c]

setup_game_1_bot_last ==
    <<init_player_(PLAYER)>> \o Times(3, Do("add_pickup"))
    \o <<init_player_(OTHER_PLAYER), Do("add_pickup"), init_player_(OTHER_PLAYER),
         init_enemy_(1), init_player_(OTHER_PLAYER), init_enemy_(2)>>

\* Bot 0 has no controller.
setup_game_1 ==
    <<init_player_(PLAYER)>> \o Times(3, Do("add_pickup"))
    \o <<init_player_(OTHER_PLAYER), Do("add_pickup"), init_player_(OTHER_PLAYER),
         init_player_(OTHER_PLAYER), init_enemy_(1), init_enemy_(2)>>

setup_game_2 ==
    <<init_player_(PLAYER)>> \o Times(Bots, init_player_(OTHER_PLAYER))
    \o [i \in 1..Bots |-> init_enemy_(i - 1)] \o Times(Items, Do("add_pickup"))

setup_multiplayer ==
    <<init_player_(PLAYER), init_player_(OTHER_PLAYER)>> \o Times(Items, Do("add_pickup"))

\* free_level, after which the screen has no level.
FreeLevel ==
    <<Do("close_map"), Do("free_players"), Do("free_controllers"),
      Do("free_collision_table"), Do("free_pickups"), Do("free_gun_anims")>>

-----------------------------------------------------------------------------
\* The next call is f; it reaches `blocks`, whether they are allocated or not.
Calls(f) == todo # <<>> /\ Head(todo).fun = f /\ todo' = Tail(todo)

Reach(f, blocks) == stale' = stale \cup {<<f, b>> : b \in blocks \ heap}

\* Where an array of n elements may be after it got one more.
realloc(array, kind, n) == IF n = 0 THEN {B(kind, 0)} ELSE {array, B(kind, n)}
Old(array, n) == IF n = 0 THEN {} ELSE {array}

load_level(setup) ==
    /\ todo = <<>> /\ ~playing /\ levels < MaxLevels
    /\ todo' = <<Do("load_map"), Do("init_collision_table"), Do("init_guns")>> \o setup
    /\ playing' = TRUE /\ levels' = levels + 1
    /\ UNCHANGED <<heap, enemies, num_enemies, controllers, ctrl, pickups, pickups_size,
                   guns, stale, past>>

\* The first line's block, and another one at the end of every line; the
\* matrix has places for Lines of them.
load_map ==
    LET written == {0} \cup 1..Lines
    IN  /\ Calls("load_map")
        /\ heap' = heap \cup {B("matrix", 0)} \cup {B("line", i) : i \in written}
        /\ past' = past \cup {<<"load_map", i>> : i \in written \ 0..(Lines - 1)}
        /\ UNCHANGED <<playing, enemies, num_enemies, controllers, ctrl, pickups,
                       pickups_size, guns, stale, levels>>

init_collision_table ==
    /\ Calls("init_collision_table")
    /\ heap' = heap \cup {B("table", 0)} \cup {B("row", i) : i \in 0..(Lines - 1)}
    /\ UNCHANGED <<playing, enemies, num_enemies, controllers, ctrl, pickups,
                   pickups_size, guns, stale, past, levels>>

init_guns ==
    /\ Calls("init_guns")
    /\ heap' = heap \cup {B(k, i) : k \in {"animations", "gun_frames"}, i \in GunNumber}
    /\ UNCHANGED <<playing, enemies, num_enemies, controllers, ctrl, pickups,
                   pickups_size, guns, stale, past, levels>>

init_player ==
    /\ Calls("init_player")
    /\ \/ /\ Head(todo).arg = PLAYER
          /\ guns' = B("player_guns", 0) /\ heap' = heap \cup {guns'}
          /\ UNCHANGED <<enemies, num_enemies, stale>>
       \/ /\ Head(todo).arg = OTHER_PLAYER
          /\ enemies' \in realloc(enemies, "enemies", num_enemies)
          /\ Reach("init_player", Old(enemies, num_enemies))
          /\ heap' = (heap \ Old(enemies, num_enemies))
                       \cup {enemies', B("guns", num_enemies), B("sprites", num_enemies)}
          /\ num_enemies' = num_enemies + 1
          /\ UNCHANGED guns
    /\ UNCHANGED <<playing, controllers, ctrl, pickups, pickups_size, past, levels>>

\* The controller keeps &enemies[i].
init_enemy ==
    LET n == Len(ctrl)
    IN  /\ Calls("init_enemy")
        /\ controllers' \in realloc(controllers, "controllers", n)
        /\ Reach("init_enemy", Old(controllers, n) \cup {enemies})
        /\ heap' = (heap \ Old(controllers, n)) \cup {controllers', B("positions", n)}
        /\ ctrl' = Append(ctrl, [player |-> enemies, index |-> Head(todo).arg])
        /\ UNCHANGED <<playing, enemies, num_enemies, pickups, pickups_size, guns, past, levels>>

\* add_ammo, add_medkit or add_armor; index 0 comes with the first pickup.
add_pickup ==
    LET index == IF pickups_size = 0 THEN 1 ELSE pickups_size
    IN  /\ Calls("add_pickup")
        /\ pickups' \in realloc(pickups, "pickups", pickups_size)
        /\ Reach("add_pickup", Old(pickups, pickups_size) \cup {B("table", 0)})
        /\ heap' = (heap \ Old(pickups, pickups_size))
                     \cup {pickups'}
                     \cup {B(k, index) : k \in {"details", "frames", "list"}}
        /\ pickups_size' = index + 1
        /\ UNCHANGED <<playing, enemies, num_enemies, controllers, ctrl, guns, past, levels>>

-----------------------------------------------------------------------------
NumIndexes == 0..(num_enemies - 1)

\* handle_enemies, player_int_ih, update_pickups and the renderer.
game_handler ==
    /\ playing /\ todo = <<>>
    /\ Reach("game_handler",
         {guns, B("matrix", 0), B("table", 0), B("row", 0), B("animations", 0)}
         \cup Old(enemies, num_enemies) \cup {B("guns", i) : i \in NumIndexes}
         \cup {B("sprites", i) : i \in NumIndexes}
         \cup Old(controllers, Len(ctrl)) \cup {ctrl[k].player : k \in DOMAIN ctrl}
         \cup {B("positions", k - 1) : k \in DOMAIN ctrl}
         \cup Old(pickups, pickups_size)
         \cup {B(kind, i) : kind \in {"details", "frames"}, i \in 1..(pickups_size - 1)})
    /\ UNCHANGED <<todo, playing, heap, enemies, num_enemies, controllers, ctrl, pickups,
                   pickups_size, guns, past, levels>>

free_level ==
    /\ playing /\ todo = <<>>
    /\ todo' = FreeLevel /\ playing' = FALSE
    /\ UNCHANGED <<heap, enemies, num_enemies, controllers, ctrl, pickups, pickups_size,
                   guns, stale, past, levels>>

\* free of every block of `freed`, the call reading `read` on the way.
Free(f, freed, read) == heap' = heap \ freed /\ Reach(f, freed \cup read)

close_map ==
    /\ Calls("close_map")
    /\ Free("close_map", {B("matrix", 0)} \cup {B("line", i) : i \in 0..(Lines - 1)}, {})
    /\ UNCHANGED <<playing, enemies, num_enemies, controllers, ctrl, pickups, pickups_size,
                   guns, past, levels>>

free_players_size_kept ==
    /\ Calls("free_players")
    /\ Free("free_players", {B("guns", i) : i \in NumIndexes} \cup {guns}
                              \cup Old(enemies, num_enemies), {})
    /\ enemies' = NULL
    /\ UNCHANGED <<playing, controllers, ctrl, pickups, pickups_size, guns, past, levels,
                   num_enemies>>

\* player.guns keeps pointing to what was freed.
free_players ==
    /\ Calls("free_players")
    /\ Free("free_players", {B("guns", i) : i \in NumIndexes} \cup {guns}
                              \cup Old(enemies, num_enemies), {})
    /\ enemies' = NULL /\ num_enemies' = 0
    /\ UNCHANGED <<playing, controllers, ctrl, pickups, pickups_size, guns, past, levels>>

free_controllers_array_only ==
    /\ Calls("free_controllers")
    /\ Free("free_controllers", Old(controllers, Len(ctrl)), {})
    /\ controllers' = NULL /\ ctrl' = <<>>
    /\ UNCHANGED <<playing, enemies, num_enemies, pickups, pickups_size, guns, past, levels>>

free_controllers ==
    /\ Calls("free_controllers")
    /\ Free("free_controllers", {B("positions", k - 1) : k \in DOMAIN ctrl}
                                  \cup Old(controllers, Len(ctrl)), {})
    /\ controllers' = NULL /\ ctrl' = <<>>
    /\ UNCHANGED <<playing, enemies, num_enemies, pickups, pickups_size, guns, past, levels>>

free_collision_table ==
    /\ Calls("free_collision_table")
    /\ Free("free_collision_table", {B("table", 0)} \cup {B("row", i) : i \in 0..(Lines - 1)}
                                      \cup {B("list", i) : i \in 1..(pickups_size - 1)}, {})
    /\ UNCHANGED <<playing, enemies, num_enemies, controllers, ctrl, pickups, pickups_size,
                   guns, past, levels>>

free_pickups_size_kept ==
    /\ Calls("free_pickups")
    /\ Free("free_pickups", {B("details", i) : i \in 1..(pickups_size - 1)}
                              \cup ({pickups} \ {NULL}), {})
    /\ UNCHANGED <<playing, enemies, num_enemies, controllers, ctrl, pickups, pickups_size,
                   guns, past, levels>>

\* pickups is not set to NULL.
free_pickups ==
    /\ Calls("free_pickups")
    /\ Free("free_pickups", {B("details", i) : i \in 1..(pickups_size - 1)}
                              \cup ({pickups} \ {NULL}), {})
    /\ pickups_size' = 0
    /\ UNCHANGED <<playing, enemies, num_enemies, controllers, ctrl, pickups, guns, past, levels>>

\* For the guns 0, 1 and 2, whose animations it looks up in player.guns.  If
\* that memory still is what it was they are freed; if not, free is given
\* something else, and the program goes no further here.
free_gun_anims ==
    /\ \/ /\ Calls("free_gun_anims")
          /\ Free("free_gun_anims", {B("animations", i) : i \in 0..2}, {guns})
       \/ /\ todo # <<>> /\ Head(todo).fun = "free_gun_anims" /\ guns \notin heap
          /\ todo' = <<Do("abort")>>
          /\ Free("free_gun_anims", {}, {guns})
    /\ UNCHANGED <<playing, enemies, num_enemies, controllers, ctrl, pickups, pickups_size,
                   guns, past, levels>>

-----------------------------------------------------------------------------
Init ==
    /\ todo = <<>> /\ playing = FALSE /\ heap = {}
    /\ enemies = NULL /\ num_enemies = 0 /\ controllers = NULL /\ ctrl = <<>>
    /\ pickups = NULL /\ pickups_size = 0 /\ guns = NULL
    /\ stale = {} /\ past = {} /\ levels = 0

Next ==
    \/ \E setup \in {setup_game_1, setup_game_2, setup_multiplayer} : load_level(setup)
    \/ load_map \/ init_collision_table \/ init_guns
    \/ init_player \/ init_enemy \/ add_pickup
    \/ game_handler \/ free_level
    \/ close_map \/ free_players \/ free_controllers
    \/ free_collision_table \/ free_pickups \/ free_gun_anims

Spec == Init /\ [][Next]_vars

-----------------------------------------------------------------------------
People == IF Bots > 3 THEN Bots ELSE 3
Pointer == {"null", "enemies", "controllers", "pickups", "player_guns"}

TypeOK ==
    /\ \A k \in DOMAIN todo : todo[k] \in Call
    /\ playing \in BOOLEAN /\ levels \in 0..MaxLevels
    /\ \A p \in {enemies, controllers, pickups, guns} : Kind(p) \in Pointer
    /\ num_enemies \in 0..People /\ (num_enemies = 0 <=> enemies = NULL)
    /\ Len(ctrl) <= People /\ (ctrl = <<>> <=> controllers = NULL)
    /\ \A k \in DOMAIN ctrl : ctrl[k].index \in 0..(num_enemies - 1) \/ num_enemies = 0
    /\ pickups_size \in 0..(Items + 5)

(***************************************************************************)
(* A tick follows no dangling pointer.  The controllers keep the addresses *)
(* of elements of enemies, which init_player reallocates: that is safe as  *)
(* long as every setup function creates all its people before the first    *)
(* controller, and as long as what the level before has left in pickups,   *)
(* player.guns and the others is overwritten before it is used.            *)
(***************************************************************************)
TicksTouchLive == \A s \in stale : s[1] # "game_handler"

(***************************************************************************)
(* Loading and freeing touch no freed block either, in whatever order the  *)
(* levels follow each other: nothing is freed twice, and nothing is        *)
(* reallocated that the level before has freed.  (For free_gun_anims see   *)
(* NoStaleAccess.)                                                         *)
(***************************************************************************)
LoadsAndFreesTouchLive == \A s \in stale : s[1] \in {"game_handler", "free_gun_anims"}

(***************************************************************************)
(* When no level is loaded, free_level has given back everything that it   *)
(* walks to: the table, the arrays of people, controllers and pickups,     *)
(* wherever realloc has put them, and the blocks their elements point to,  *)
(* except those named by Unfreed.  The comment on free_level says that     *)
(* nothing is left (LevelFreed); what is left is the sprites of enemies    *)
(* (free_player_anims is never called), the frames of pickups and guns,    *)
(* the animations of the last two guns, and the line that load_map         *)
(* allocates past the map.                                                 *)
(***************************************************************************)
Unfreed(b) ==
    \/ Kind(b) \in {"sprites", "frames", "gun_frames"}
    \/ Kind(b) = "animations" /\ b[2] \in 3..4
    \/ Kind(b) = "line" /\ b[2] = Lines

LeavesOnlyUnfreed == (~playing /\ todo = <<>>) => \A b \in heap : Unfreed(b)

-----------------------------------------------------------------------------
(***************************************************************************)
(* level_manager.h promises "Functions to properly handle the game's       *)
(* memory while loading levels": no function reaches a block that has been *)
(* freed ...                                                               *)
(***************************************************************************)
NoStaleAccess == stale = {}

(***************************************************************************)
(* ... and none writes past the end of one.                                *)
(***************************************************************************)
NoOverrun == past = {}

(***************************************************************************)
(* level_manager.h says of free_level "Free memory allocated by load level *)
(* and setup_game_x": nothing of a level is left after it.                 *)
(***************************************************************************)
LevelFreed == (~playing /\ todo = <<>>) => heap = {}
=============================================================================
