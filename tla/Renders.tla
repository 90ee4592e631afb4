------------------------------- MODULE Renders ------------------------------
(***************************************************************************)
(* What a frame draws over the walls, graphics/render.c: setup_renders     *)
(* puts every person, its two bars and every pickup into an array that     *)
(* renders_insert_sorted keeps ordered from far to near, so that the near  *)
(* ones cover the far ones; the numbers of the HUD are cut into digits by  *)
(* digitize of utils.c.                                                    *)
(*                                                                         *)
(* A distance is a number of half steps: a person is at an even one, and   *)
(* its armor bar half a step nearer.  The array is a variable length array *)
(* on the stack, which nothing initialises.                                *)
(***************************************************************************)
EXTENDS Integers, Sequences, FiniteSets

CONSTANTS
    NumEnemies, NumPickups,
    Distances,       \* of what is in front of the player: positive, even
    Garbage,         \* distances the stack may hold in the array's places
    Values, Places   \* numbers shown, and the max_digits of a place for them

\* The powers of ten that fit an int.
Tens == <<1, 10, 100, 1000, 10000, 100000, 1000000, 10000000, 100000000, 1000000000>>
Ten(n) == Tens[n + 1]

RendersConstants ==
    /\ NumEnemies \in Nat /\ NumPickups \in Nat
    /\ \A d \in Distances : d \in Nat \ {0} /\ d % 2 = 0
    /\ Garbage \subseteq Int /\ Places \subseteq 1..3
    /\ \A v \in Values : v \in Nat /\ v < Ten(9)

VARIABLES
    renders, size,   \* the array and the number of places used
    next,            \* the object setup_renders comes to next
    hidden,          \* objects left out so far
    shown            \* a number on the HUD: value, max_digits, what is drawn,
                     \* and the places of nums that digitize has written

vars == <<renders, size, next, hidden, shown>>

num_items == 3 * NumEnemies + NumPickups + 1
Object == 1..(NumEnemies + NumPickups)
Part == {"body", "health", "armor"}

Parts(o) == IF o <= NumEnemies THEN Part ELSE {"body"}
None == [object |-> 0, part |-> "body"]

TypeOK ==
    /\ DOMAIN renders = 0..(num_items - 1)
    /\ \A i \in DOMAIN renders :
         /\ renders[i].distance \in Int
         /\ renders[i].what \in [object : {0} \cup Object, part : Part]
    /\ size \in 0..num_items /\ next \in 1..(NumEnemies + NumPickups + 1)
    /\ hidden \subseteq Object

-----------------------------------------------------------------------------
(* utils.c                                                                 *)

\* The places of res that digitize writes, and the digits it writes there:
\* the last digit goes to max_size - 1, and the others before it.
digitize_from_left(num, max_size) ==
    LET len == CHOOSE n \in 0..9 : num < Ten(n) /\ \A m \in 0..(n - 1) : num >= Ten(m)
    IN  [k \in 0..(len - 1) |-> (num \div Ten(len - 1 - k)) % 10]

digitize(num, max_size) ==
    LET len == CHOOSE n \in 0..9 : num < Ten(n) /\ \A m \in 0..(n - 1) : num >= Ten(m)
    IN  [k \in (max_size - len)..(max_size - 1) |-> (num \div Ten(max_size - 1 - k)) % 10]

\* render_number clears the digits first and skips the zeros before a number.
render_number(value, max_digits) ==
    LET res == digitize(value, max_digits)
        nums == [i \in 0..(max_digits - 1) |-> IF i \in DOMAIN res THEN res[i] ELSE 0]
        first == CHOOSE i \in 0..(max_digits - 1) :
                   /\ nums[i] # 0 \/ i = max_digits - 1
                   /\ \A j \in 0..(i - 1) : nums[j] = 0
    IN  [k \in 1..(max_digits - first) |-> nums[first + k - 1]]

-----------------------------------------------------------------------------
(* render.c                                                                *)

renders_insert_sorted_before_equal(r, n, v) ==
    LET before == {i \in 0..(n - 1) : r[i].distance <= v.distance}
        at == IF before = {} THEN n ELSE CHOOSE i \in before : \A j \in before : i <= j
    IN  [i \in DOMAIN r |-> CASE i = at -> v
                              [] i > at /\ i <= n -> r[i - 1]
                              [] OTHER -> r[i]]

renders_insert_sorted_swap(r, n, v) ==
    LET before == {i \in 0..(n - 1) : r[i].distance < v.distance}
        at == IF before = {} THEN n ELSE CHOOSE i \in before : \A j \in before : i <= j
    IN  [r EXCEPT ![at] = v, ![n] = IF at = n THEN v ELSE r[at]]

renders_insert_sorted_overwrite(r, n, v) ==
    LET before == {i \in 0..(n - 1) : r[i].distance < v.distance}
        at == IF before = {} THEN n ELSE CHOOSE i \in before : \A j \in before : i <= j
    IN  [r EXCEPT ![at] = v]

renders_insert_sorted_tests_next(r, n, v) ==
    LET before == {i \in 0..(n - 1) : r[i].distance < v.distance}
        at == IF before = {} THEN n ELSE CHOOSE i \in before : \A j \in before : i <= j
        moved == {j \in (at + 1)..n : \A k \in (at + 1)..j : r[k].distance > 0}
    IN  [i \in DOMAIN r |-> CASE i = at -> v
                              [] i \in moved -> r[i - 1]
                              [] OTHER -> r[i]]

\* In front of the first nearer one among the n there are, or after them.  The
\* others move up, up to the first one at no distance, which is dropped; the
\* place behind the last one is read too, but its turn is after the last move.
renders_insert_sorted(r, n, v) ==
    LET before == {i \in 0..(n - 1) : r[i].distance < v.distance}
        at == IF before = {} THEN n ELSE CHOOSE i \in before : \A j \in before : i <= j
        moved == {j \in (at + 1)..n : \A k \in at..(j - 1) : r[k].distance > 0}
    IN  [i \in DOMAIN r |-> CASE i = at -> v
                              [] i \in moved -> r[i - 1]
                              [] OTHER -> r[i]]

Render(o, p, d) ==
    [distance |-> IF p = "armor" THEN d - 1 ELSE d, what |-> [object |-> o, part |-> p]]

Insert(s, v) ==
    IF v.distance <= 0 THEN s
    ELSE [array |-> renders_insert_sorted(s.array, s.size, v), size |-> s.size + 1]

\* One object of setup_renders at distance d: a person with its bars, which
\* render_player hands out in this order, or a pickup.
setup_renders(d) ==
    LET s0 == [array |-> renders, size |-> size]
        s1 == Insert(s0, Render(next, "body", d))
        s2 == Insert(Insert(s1, Render(next, "health", d)), Render(next, "armor", d))
        s == IF next <= NumEnemies THEN s2 ELSE s1
    IN  /\ next \in Object
        /\ renders' = s.array /\ size' = s.size
        /\ next' = next + 1
        /\ UNCHANGED <<hidden, shown>>

\* A person that should not be rendered, a pickup that was picked up, or an
\* object behind the player or out of range.
skip ==
    /\ next \in Object
    /\ next' = next + 1 /\ hidden' = hidden \cup {next}
    /\ UNCHANGED <<renders, size, shown>>

\* The HUD, and the next frame with what is on the stack then.
render_game(v, m) ==
    /\ next \notin Object
    /\ shown' = [value |-> v, max_digits |-> m, drawn |-> render_number(v, m),
                 written |-> DOMAIN digitize(v, m)]
    /\ \E g \in Garbage :
         renders' = [i \in 0..(num_items - 1) |-> [distance |-> g, what |-> None]]
    /\ size' = 0 /\ next' = 1 /\ hidden' = {}

Init ==
    /\ \E g \in Garbage :
         renders = [i \in 0..(num_items - 1) |-> [distance |-> g, what |-> None]]
    /\ size = 0 /\ next = 1 /\ hidden = {}
    /\ shown = [value |-> 0, max_digits |-> 1, drawn |-> <<0>>, written |-> {}]

Next ==
    \/ \E d \in Distances : setup_renders(d)
    \/ skip
    \/ \E v \in Values, m \in Places : render_game(v, m)

Spec == Init /\ [][Next]_vars

-----------------------------------------------------------------------------
Used == 0..(size - 1)

(***************************************************************************)
(* The painter's order: what is drawn later is not farther away, whatever  *)
(* order people and pickups are inserted in and whatever was on the stack. *)
(***************************************************************************)
FarToNear == \A i, j \in Used : i < j => renders[i].distance >= renders[j].distance

(***************************************************************************)
(* Everything in sight is drawn exactly once, and nothing else: shifting   *)
(* the array to insert loses no render and brings in no garbage.           *)
(***************************************************************************)
DrawsAllOnce ==
    \A o \in 1..(next - 1), p \in Part :
      Cardinality({i \in Used : renders[i].what = [object |-> o, part |-> p]})
        = (IF o \in hidden \/ p \notin Parts(o) THEN 0 ELSE 1)

(***************************************************************************)
(* A person's health bar is drawn over its own body, and the armor bar     *)
(* over the health bar, although body and health bar have the same         *)
(* distance and other people may stand at that distance too.               *)
(***************************************************************************)
BarsOnTop ==
    \A i, j \in Used :
      renders[i].what.object = renders[j].what.object =>
        /\ renders[i].what.part = "body" /\ renders[j].what.part = "health" => i < j
        /\ renders[i].what.part = "health" /\ renders[j].what.part = "armor" => i < j

(***************************************************************************)
(* The HUD shows the number: read from left to right, what render_number   *)
(* draws is the value, with no zero in front of it, as long as the value   *)
(* has no more than max_digits digits.                                     *)
(***************************************************************************)
Read(s) == LET n == Len(s) IN
    (IF n >= 1 THEN s[n] ELSE 0) + (IF n >= 2 THEN 10 * s[n - 1] ELSE 0)
      + (IF n >= 3 THEN 100 * s[n - 2] ELSE 0)

ShowsValue ==
    shown.value < Ten(shown.max_digits) =>
      /\ Read(shown.drawn) = shown.value
      /\ Len(shown.drawn) > 1 => shown.drawn[1] # 0

-----------------------------------------------------------------------------
(***************************************************************************)
(* utils.h says of digitize's max_size "Max digits - Truncates the first   *)
(* digits": a number that is too long loses digits, and nothing outside    *)
(* the array is written.                                                   *)
(***************************************************************************)
DigitsInside == shown.written \subseteq 0..(shown.max_digits - 1)
=============================================================================
