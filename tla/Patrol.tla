------------------------------- MODULE Patrol -------------------------------
(***************************************************************************)
(* One bot of ai/enemy_controller.c: handle_enemy, once a tick, follows    *)
(* the player, walks to the next of its positions, or dies.                *)
(*                                                                         *)
(* What the geometry decides is an input of the tick: the distance to the  *)
(* player, the angle to it, walls, and whether the destination is near.    *)
(* Angles are in degrees, and a place is the number of a position, PLAYER  *)
(* or a random tile.  Only what is said to the bot's controls is kept here *)
(* of movement; the shot itself is in module Combat.                       *)
(***************************************************************************)
EXTENDS Integers

CONSTANTS
    NumPositions, Timeout,   \* num_positions and timeout_movm
    Fov,                     \* fov, in degrees
    Angle,                   \* degrees to either side at which the player may be seen
    Tiles                    \* how many tiles a random bot chooses from

PatrolConstants ==
    /\ NumPositions \in Nat \ {0} /\ Timeout \in Nat /\ Fov \in Nat
    /\ Angle \subseteq 0..180 /\ Tiles \in Nat \ {0}

VARIABLES
    random, curr_idx, curr_dest,
    since,           \* time_counter - last_op; bound: not counted beyond Timeout
    alive,
    held, walks,     \* movm.lb_held_down and movement.x of the bot
    seen             \* history: what the last tick saw, whether it found the bot
                     \* alive, follow_player, the angle, and whether the player
                     \* is within the gun's range

vars == <<random, curr_idx, curr_dest, since, alive, held, walks, seen>>

NOWHERE == -1
PLAYER == -2
Place == {NOWHERE, PLAYER} \cup 0..NumPositions + Tiles
ToEitherSide == Angle \cup {-a : a \in Angle}
Tile == (NumPositions + 1)..(NumPositions + Tiles)

Sight == [alive : BOOLEAN, follow : BOOLEAN, angle : {0} \cup ToEitherSide, gun : BOOLEAN]
Nothing == [alive |-> FALSE, follow |-> FALSE, angle |-> 0, gun |-> FALSE]

TypeOK ==
    /\ random \in BOOLEAN /\ curr_idx \in -1..(NumPositions - 1) /\ curr_dest \in Place
    /\ since \in 0..Timeout /\ {alive, held, walks} \subseteq BOOLEAN
    /\ seen \in Sight

-----------------------------------------------------------------------------
Abs(n) == IF n < 0 THEN -n ELSE n

\* The bot's next destination, if it has reached the last or given it up.
advance(tile) ==
    /\ since' = 0
    /\ IF random THEN curr_dest' = tile /\ curr_idx' = 0
       ELSE curr_idx' = (curr_idx + 1) % NumPositions /\ curr_dest' = curr_idx'

Later == since' = IF since < Timeout THEN since + 1 ELSE since

choose_dest_no_timeout(follow, near, tile) ==
    \/ ~follow /\ (near \/ curr_idx = -1) /\ advance(tile)
    \/ follow /\ curr_dest' = PLAYER /\ curr_idx' = -1 /\ Later
    \/ ~follow /\ ~near /\ curr_idx # -1 /\ Later /\ UNCHANGED <<curr_idx, curr_dest>>

choose_dest_idx_kept(follow, near, tile) ==
    LET reached == curr_idx = -1 \/ near
    IN  \/ ~follow /\ (since >= Timeout \/ reached) /\ advance(tile)
        \/ follow /\ curr_dest' = PLAYER /\ Later /\ UNCHANGED curr_idx
        \/ /\ ~follow /\ since < Timeout /\ ~reached
           /\ Later /\ UNCHANGED <<curr_idx, curr_dest>>

\* After following the player curr_idx is -1, and the round starts again.
choose_dest(follow, near, tile) ==
    LET reached == curr_idx = -1 \/ near
    IN  \/ ~follow /\ (since >= Timeout \/ reached) /\ advance(tile)
        \/ follow /\ curr_dest' = PLAYER /\ curr_idx' = -1 /\ Later
        \/ /\ ~follow /\ since < Timeout /\ ~reached
           /\ Later /\ UNCHANGED <<curr_idx, curr_dest>>

control_trigger_kept(follow, angle, gun, coin, go) ==
    IF angle <= 5 /\ gun /\ follow THEN held' = coin /\ walks' = FALSE
                                   ELSE walks' = go /\ UNCHANGED held

\* Stand and toss a coin, or let go and walk on (24 times out of 25).
control(follow, angle, gun, coin, go) ==
    IF angle <= 5 /\ gun /\ follow THEN held' = coin /\ walks' = FALSE
                                   ELSE walks' = go /\ held' = FALSE

\* in_sight: within range and not behind a wall; then the angle is known.
handle_enemy(in_sight, a, near, gun, tile, coin, go) ==
    LET follow == in_sight /\ Abs(a) <= Fov
    IN  /\ alive
        /\ choose_dest(follow, near, tile)
        /\ control(follow, a, gun, coin, go)
        /\ seen' = [alive |-> TRUE, follow |-> follow, angle |-> a, gun |-> gun]
        /\ UNCHANGED <<random, alive>>

handle_dead_trigger_kept ==
    /\ ~alive
    /\ walks' = FALSE /\ seen' = Nothing /\ Later
    /\ UNCHANGED <<random, curr_idx, curr_dest, alive, held>>

handle_dead ==
    /\ ~alive
    /\ held' = FALSE /\ walks' = FALSE /\ seen' = Nothing /\ Later
    /\ UNCHANGED <<random, curr_idx, curr_dest, alive>>

\* Shot between two ticks, or a medkit under the body (module Combat).
Health == alive' = ~alive
          /\ UNCHANGED <<random, curr_idx, curr_dest, since, held, walks, seen>>

\* init_enemy; last_op is 0, so any time may have passed since.
Init ==
    /\ random \in BOOLEAN /\ curr_idx = -1 /\ curr_dest = NOWHERE
    /\ since \in 0..Timeout /\ alive = TRUE /\ held = FALSE /\ walks = FALSE
    /\ seen = Nothing

Tick ==
    \/ \E in_sight, near, gun, coin, go \in BOOLEAN, a \in ToEitherSide, tile \in Tile :
         handle_enemy(in_sight, a, near, gun, tile, coin, go)
    \/ handle_dead

Next == Tick \/ Health
Spec == Init /\ [][Next]_vars

\* The timer ticks for ever, and each tick runs handle_enemies.
FairSpec == Spec /\ WF_vars(Tick)

-----------------------------------------------------------------------------
(***************************************************************************)
(* A bot goes by what its last tick saw, not by an older one: after a tick *)
(* that found it alive it heads for the player exactly if that tick had    *)
(* the player in sight (lines 84 to 108 leave no stale destination, not    *)
(* after a chase broken off by a wall before timeout_movm, nor after being *)
(* shot in a chase and brought back by a medkit), and it holds the trigger *)
(* only if that tick also had the player within the gun's range; a tick    *)
(* that finds it dead lets go.                                             *)
(***************************************************************************)
ActsOnSight ==
    /\ seen.alive => (curr_dest = PLAYER <=> seen.follow)
    /\ held => seen.alive /\ seen.follow /\ seen.gun

(***************************************************************************)
(* "If he cant reach the defined position, advances to the next one"       *)
(* (enemy_controller.h): a bot that is left alone keeps going round all    *)
(* its positions, whether or not walls let it reach any of them, and       *)
(* whatever it followed before.                                            *)
(***************************************************************************)
RoundGoesOn ==
    (<>[](alive /\ ~seen.follow) /\ ~random) =>
        \A i \in 0..(NumPositions - 1) : []<>(curr_dest = i)

-----------------------------------------------------------------------------
(***************************************************************************)
(* enemy_controller.c says of the shot "If the angle is small and the      *)
(* distance is smaller than the weapon's range".  Small, by the test       *)
(* itself, is up to 5 degrees to either side.                              *)
(***************************************************************************)
ShootsSmallAngle == held => Abs(seen.angle) <= 5
=============================================================================
