-------------------------------- MODULE Fifo --------------------------------
(***************************************************************************)
(* What lib/queue.h promises: a queue is a sequence of elements, added at  *)
(* the back and taken from the front, that queue_clean empties and that    *)
(* stops existing at queue_delete.                                         *)
(***************************************************************************)
EXTENDS Sequences

CONSTANT Elem        \* what the queue holds (int16_t values)

VARIABLES items,     \* the elements, front first
          open       \* queue_init has run and queue_delete has not

vars == <<items, open>>

Init == items = <<>> /\ open = FALSE

Create == ~open /\ open' = TRUE /\ items' = <<>>

Push(e) == open /\ items' = Append(items, e) /\ UNCHANGED open

Pop == /\ open /\ items # <<>>
       /\ items' = Tail(items)
       /\ UNCHANGED open

Clean == open /\ items' = <<>> /\ UNCHANGED open

Delete == open /\ open' = FALSE /\ items' = <<>>

Next == Create \/ (\E e \in Elem : Push(e)) \/ Pop \/ Clean \/ Delete

Spec == Init /\ [][Next]_vars
=============================================================================
