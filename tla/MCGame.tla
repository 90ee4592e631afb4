------------------------------- MODULE MCGame -------------------------------
(***************************************************************************)
(* The game around the fighting, for TLC: its screens and its round clock  *)
(* (module GameManager), the memory of a level (Level), the table that     *)
(* finds pickups (Pickups), a bot on its round (Patrol) and the drawing    *)
(* order of a frame (Renders).  They share no state, and in a behaviour    *)
(* one part moves.                                                         *)
(***************************************************************************)
EXTENDS GameManager, Sequences

CONSTANTS
    Lines, Bots, Items, MaxLevels,                             \* Level
    Unit, Width, Height, Spot, Radius, STEP, FreshPage,        \* Pickups
    MaxPickups, MaxLoads,
    NumPositions, Timeout, Fov, Angle, Tiles,                  \* Patrol
    NumEnemies, NumPickups, Distances, Stack, Values, Places   \* Renders

VARIABLES
    part,
    todo, playing, heap, enemies, num_enemies, controllers, ctrl, pickups, pickups_size,
    guns, stale, past, levels,
    items, dummy, table, loaded, loads,
    random, curr_idx, curr_dest, since, alive, held, walks, seen,
    renders, size, next, hidden, shown

\* The modules beside GameManager.  FreshPage is what malloc may leave in
\* pickups[0], and Stack what may be in the places of renders.
L == INSTANCE Level
P == INSTANCE Pickups WITH pickups <- items, levels <- loads, Garbage <- FreshPage,
       MaxLevels <- MaxLoads
B == INSTANCE Patrol
R == INSTANCE Renders WITH Garbage <- Stack

ASSUME GameInstances ==
    L!LevelConstants /\ P!PickupsConstants /\ B!PatrolConstants /\ R!RendersConstants

\* Pickups on nine tiles of 4 by 4 positions: in the middle of a tile, as in
\* the multiplayer level, on the corner of four, as in level 1, and at the
\* border of the map.  pickups[0] is on a fresh page, which is zero, or in a
\* block used before, with something left in it that reaches places of the map
\* but none where a pickup does.
MCSpot == {<<6, 6>>, <<8, 8>>, <<4, 6>>, <<1, 10>>}
MCFreshPage == {[center |-> <<0, 0>>, radius |-> 0], [center |-> <<11, 0>>, radius |-> 1]}

memory == <<todo, playing, heap, enemies, num_enemies, controllers, ctrl, pickups,
            pickups_size, guns, stale, past, levels>>
finder == <<items, dummy, table, loaded, loads>>
bot == <<random, curr_idx, curr_dest, since, alive, held, walks, seen>>
picture == <<renders, size, next, hidden, shown>>

\* A part that stands still has one initial state.
MCInit ==
    /\ part \in {"screens", "memory", "finder", "bot", "picture"}
    /\ Init /\ L!Init /\ P!Init /\ B!Init /\ R!Init
    /\ part # "finder" => dummy.radius = 0
    /\ part # "bot" => random /\ since = 0
    /\ part # "picture" => renders[0].distance = 0

MCNext ==
    \/ part = "screens" /\ Next /\ UNCHANGED <<part, memory, finder, bot, picture>>
    \/ part = "memory" /\ L!Next /\ UNCHANGED <<part, vars, finder, bot, picture>>
    \/ part = "finder" /\ P!Next /\ UNCHANGED <<part, vars, memory, bot, picture>>
    \/ part = "bot" /\ B!Next /\ UNCHANGED <<part, vars, memory, finder, picture>>
    \/ part = "picture" /\ R!Next /\ UNCHANGED <<part, vars, memory, finder, bot>>

\* The fairness of modules GameManager and Patrol, for the behaviours in
\* which they move.
MCFairness ==
    /\ WF_vars(part = "screens" /\ game_handler("packet", "none", "on"))
    /\ WF_vars(part = "screens" /\ RtcInterrupt(TRUE))
    /\ WF_bot(part = "bot" /\ B!Tick)

MCSpec == MCInit /\ [][MCNext]_<<part, vars, memory, finder, bot, picture>> /\ MCFairness

-----------------------------------------------------------------------------
(***************************************************************************)
(* The variables of all parts have their types: among others, the level    *)
(* number and the round timer stay in range, counts and arrays of a level  *)
(* are NULL and 0 together, and setup_renders never needs more places than *)
(* its array has.                                                          *)
(***************************************************************************)
GameTypeOK == TypeOK /\ L!TypeOK /\ P!TypeOK /\ B!TypeOK /\ R!TypeOK

(***************************************************************************)
(* A tick follows no dangling pointer, although enemy controllers keep     *)
(* addresses inside an array that init_player reallocates; load_level and  *)
(* the setup functions touch no freed block and free_level frees none      *)
(* twice, in whatever order the levels follow each other; and when no      *)
(* level is loaded, nothing of it is left but the sprites, the frames, the *)
(* animations of two guns and the spare line that free_level never frees   *)
(* (see LevelFreed in module Level).                                       *)
(***************************************************************************)
MemoryIsSound == L!TicksTouchLive /\ L!LoadsAndFreesTouchLive /\ L!LeavesOnlyUnfreed

(***************************************************************************)
(* Wherever a player stands, check_player_pickup_collision finds, in the   *)
(* list of one tile, the closest of all the pickups that are still there;  *)
(* and add_collision writes inside what it has allocated, also after a     *)
(* list has been reallocated.                                              *)
(***************************************************************************)
PickupsAreFound == P!FindsClosest /\ P!ListsFit

(***************************************************************************)
(* A bot goes by what its last tick saw: it heads for the player exactly   *)
(* if handle_enemy had the player in sight, however a chase before was     *)
(* broken off, holds the trigger only if the player was also within its    *)
(* gun's range, and lets go in the first tick that finds it dead.          *)
(***************************************************************************)
ActsOnSight == B!ActsOnSight

(***************************************************************************)
(* A bot that is left alone keeps going round all its positions, whether   *)
(* or not walls let it reach any of them (timeout_movm of handle_enemy).   *)
(***************************************************************************)
RoundGoesOn == part = "bot" => B!RoundGoesOn

(***************************************************************************)
(* A frame shows what there is: everything in sight is drawn exactly once, *)
(* far to near, with a person's bars over its body, whatever was on the    *)
(* stack and in whatever order setup_renders inserts it; and the digits    *)
(* that render_number draws read as the value, if there are not more than  *)
(* max_digits.                                                             *)
(***************************************************************************)
FrameShowsAll == R!DrawsAllOnce /\ R!FarToNear /\ R!BarsOnTop /\ R!ShowsValue
=============================================================================
