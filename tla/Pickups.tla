------------------------------- MODULE Pickups ------------------------------
(***************************************************************************)
(* How a player finds the pickup it stands on: the collision table of      *)
(* pickups/pickups.c, which keeps for every tile of the map the indexes of *)
(* the pickups whose circle reaches into it.                               *)
(*                                                                         *)
(* Positions and radii are multiples of 1/Unit of a tile, and a point is a *)
(* pair <<x, y>>.  What a pickup does to the player is in module Combat;   *)
(* here the handler's answer is a choice.  malloc does not fail.           *)
(***************************************************************************)
EXTENDS Integers, Sequences

CONSTANTS
    Unit,            \* positions per tile and dimension
    Width, Height,   \* tiles of the map
    Spot, Radius,    \* where pickups are put, and how far they reach
    STEP,            \* COLLISION_LIST_ALLOC_STEP, by which max_indexes grows
    Garbage,         \* what malloc may leave in pickups[0].collider
    MaxPickups, MaxLevels   \* bounds

Position == (0..(Width * Unit - 1)) \X (0..(Height * Unit - 1))
Tile == (0..(Width - 1)) \X (0..(Height - 1))

\* "ONLY WORKS WITH MAX CIRCLE RADIUS OF 1!!!"
PickupsConstants ==
    /\ {Unit, Width, Height, STEP} \subseteq Nat \ {0} /\ {MaxPickups, MaxLevels} \subseteq Nat
    /\ Spot \subseteq Position /\ Radius \subseteq 1..Unit
    /\ \A c \in Garbage : c.center \in Int \X Int /\ c.radius \in Int

VARIABLES
    pickups,         \* pickups[1], pickups[2], ...
    dummy,           \* the collider of pickups[0]
    table,           \* collision_list_t of every tile
    loaded, levels   \* a level is loaded; how many were (for the bound)

vars == <<pickups, dummy, table, loaded, levels>>

\* max_indexes counts the places of indexes; room is what was allocated.
NoList == [indexes |-> <<>>, max_indexes |-> 0, room |-> 0]

Collider == [center : Position, radius : Radius]

TypeOK ==
    /\ pickups \in Seq([collider : Collider, picked_up : BOOLEAN])
    /\ Len(pickups) <= MaxPickups
    /\ \A t \in Tile : /\ table[t].indexes \in Seq(0..Len(pickups))
                       /\ table[t].max_indexes \in Nat /\ table[t].room \in Nat
    /\ loaded \in BOOLEAN /\ levels \in 0..MaxLevels

-----------------------------------------------------------------------------
dist_positions_squared(p, q) ==
    (p[1] - q[1]) * (p[1] - q[1]) + (p[2] - q[2]) * (p[2] - q[2])

\* The coordinate of the interval from..from + Unit that is closest to x.
closest(x, from) == IF x < from THEN from ELSE IF x > from + Unit THEN from + Unit ELSE x

check_circle_rect_collision(c, tile) ==
    dist_positions_squared(c.center, <<closest(c.center[1], tile[1] * Unit),
                                       closest(c.center[2], tile[2] * Unit)>>)
      < c.radius * c.radius

TileOf(p) == <<p[1] \div Unit, p[2] \div Unit>>

\* The tiles around a position, cut off at the borders of the map.
around(p) == {t \in Tile : /\ t[1] \in (TileOf(p)[1] - 1)..(TileOf(p)[1] + 1)
                           /\ t[2] \in (TileOf(p)[2] - 1)..(TileOf(p)[2] + 1)}

Insert_late(list, index) ==
    [indexes |-> Append(list.indexes, index),
     max_indexes |-> IF list.indexes = <<>> \/ Len(list.indexes) > list.max_indexes
                       THEN list.max_indexes + STEP ELSE list.max_indexes,
     room |-> IF list.indexes = <<>> THEN STEP
              ELSE IF Len(list.indexes) > list.max_indexes THEN Len(list.indexes) + STEP
              ELSE list.room]

Insert(list, index) ==
    [indexes |-> Append(list.indexes, index),
     max_indexes |-> IF list.indexes = <<>> \/ Len(list.indexes) >= list.max_indexes
                       THEN list.max_indexes + STEP ELSE list.max_indexes,
     room |-> IF list.indexes = <<>> THEN STEP
              ELSE IF Len(list.indexes) >= list.max_indexes THEN Len(list.indexes) + STEP
              ELSE list.room]

add_collision(c, index) ==
    [t \in Tile |-> IF t \in around(c.center) /\ check_circle_rect_collision(c, t)
                      THEN Insert(table[t], index) ELSE table[t]]

remove_collision_own_tile(p, index) ==
    [t \in Tile |-> IF t = TileOf(p)
       THEN [table[t] EXCEPT !.indexes = [k \in DOMAIN @ |-> IF @[k] = index THEN 0 ELSE @[k]]]
       ELSE table[t]]

remove_collision(p, index) ==
    [t \in Tile |-> IF t \in around(p)
       THEN [table[t] EXCEPT !.indexes = [k \in DOMAIN @ |-> IF @[k] = index THEN 0 ELSE @[k]]]
       ELSE table[t]]

ColliderOf(i) == IF i = 0 THEN dummy ELSE pickups[i].collider

Covers(i, p) ==
    dist_positions_squared(p, ColliderOf(i).center) <= ColliderOf(i).radius * ColliderOf(i).radius

\* The first of the nearest pickups in the list of the player's tile.
check_player_pickup_collision(p) ==
    LET list == table[TileOf(p)].indexes
        d(k) == dist_positions_squared(p, ColliderOf(list[k]).center)
        hit == {k \in DOMAIN list : Covers(list[k], p)}
    IN  IF hit = {} THEN 0
        ELSE list[CHOOSE k \in hit : \A j \in hit : d(k) < d(j) \/ (d(k) = d(j) /\ k <= j)]

-----------------------------------------------------------------------------
init_collision_table ==
    /\ ~loaded /\ levels < MaxLevels
    /\ loaded' = TRUE /\ levels' = levels + 1
    /\ table' = [t \in Tile |-> NoList]
    /\ UNCHANGED <<pickups, dummy>>

\* The first add_pickup of a level allocates pickups[0] too.
add_pickup(c) ==
    /\ loaded /\ Len(pickups) < MaxPickups
    /\ IF pickups = <<>> THEN dummy' \in Garbage ELSE UNCHANGED dummy
    /\ table' = add_collision(c, Len(pickups) + 1)
    /\ pickups' = Append(pickups, [collider |-> c, picked_up |-> FALSE])
    /\ UNCHANGED <<loaded, levels>>

\* player_int_ih: the handler accepts, and delete_pickup takes it away.
pickup_index(p) ==
    LET i == check_player_pickup_collision(p)
    IN  /\ loaded /\ i > 0
        /\ pickups' = [pickups EXCEPT ![i].picked_up = TRUE]
        /\ table' = remove_collision(pickups[i].collider.center, i)
        /\ UNCHANGED <<dummy, loaded, levels>>

\* free_collision_table and free_pickups.
free_level ==
    /\ loaded /\ loaded' = FALSE
    /\ pickups' = <<>> /\ table' = [t \in Tile |-> NoList]
    /\ UNCHANGED <<dummy, levels>>

Init ==
    /\ pickups = <<>> /\ dummy \in Garbage
    /\ table = [t \in Tile |-> NoList] /\ loaded = FALSE /\ levels = 0

Next ==
    \/ init_collision_table
    \/ \E c \in [center : Spot, radius : Radius] : add_pickup(c)
    \/ \E p \in Position : pickup_index(p)
    \/ free_level

Spec == Init /\ [][Next]_vars

-----------------------------------------------------------------------------
Live == {i \in DOMAIN pickups : ~pickups[i].picked_up}

\* Inside the circle: its border belongs to no other tile's list.
Inside(i, p) ==
    dist_positions_squared(p, ColliderOf(i).center) < ColliderOf(i).radius * ColliderOf(i).radius

(***************************************************************************)
(* check_player_pickup_collision "returns the index of the closest pickup" *)
(* (pickups.h): wherever a player stands, the one tile it looks up leads   *)
(* to a pickup that is still there and is the closest of all that reach    *)
(* it, whatever has been added and taken away around it before.            *)
(***************************************************************************)
FindsClosest ==
    loaded => \A p \in Position :
      LET i == check_player_pickup_collision(p)
          D(j) == dist_positions_squared(p, pickups[j].collider.center)
      IN  /\ i # 0 => i \in Live /\ Covers(i, p)
          /\ \A j \in Live : Inside(j, p) => i # 0 /\ D(i) <= D(j)

(***************************************************************************)
(* add_collision writes inside what it has allocated: max_indexes never    *)
(* promises more places than the list has, also after it was reallocated.  *)
(***************************************************************************)
ListsFit ==
    \A t \in Tile : /\ Len(table[t].indexes) <= table[t].room
                    /\ table[t].max_indexes <= table[t].room

(***************************************************************************)
(* pickups.c says of index 0 that it "has no pickups, used for dummy       *)
(* pickup": no player who stands on a pickup is told that there is none.   *)
(***************************************************************************)
DummyHidesNothing ==
    loaded => \A p \in Position :
      check_player_pickup_collision(p) = 0 => \A j \in Live : ~Inside(j, p)
=============================================================================
