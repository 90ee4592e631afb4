-------------------------------- MODULE Queue -------------------------------
(***************************************************************************)
(* The linked list of lib/queue.c: cells taken from the heap, a front and  *)
(* a back pointer, and the two shortcuts the code takes.  queue_pop leaves *)
(* `back` alone, so once the last cell is popped `back` points to freed    *)
(* memory; queue_push decides by `front` alone whether `back` may be used. *)
(* Freed cells keep whatever was in them, as the heap does.                *)
(***************************************************************************)
EXTENDS Naturals, FiniteSets, Sequences

CONSTANTS Elem,      \* values of a queue_item's byte
          Cell,      \* the heap blocks queue_item_t can be given (bounds the heap)
          NULL

QueueConstants == IsFiniteSet(Cell) /\ NULL \notin Cell

VARIABLES open,      \* the queue_t itself is allocated
          live,      \* the cells handed out by malloc and not freed
          front, back,
          byte, next \* the fields of every block, live or not

vars == <<open, live, front, back, byte, next>>

Ptr == Cell \cup {NULL}

TypeOK ==
    /\ open \in BOOLEAN
    /\ live \subseteq Cell
    /\ front \in Ptr /\ back \in Ptr
    /\ byte \in [Cell -> Elem] /\ next \in [Cell -> Ptr]

Init ==
    /\ open = FALSE /\ live = {}
    /\ front = NULL /\ back = NULL
    /\ byte \in [Cell -> Elem] /\ next = [c \in Cell |-> NULL]

-----------------------------------------------------------------------------
queue_init ==
    /\ ~open
    /\ open' = TRUE /\ front' = NULL /\ back' = NULL
    /\ UNCHANGED <<live, byte, next>>

queue_empty == front = NULL

(***************************************************************************)
(* malloc may return any block that is not in use, a freed one included.   *)
(* The write through `back` happens whatever `back` points to.             *)
(***************************************************************************)
queue_push_back_kept(b) ==
    /\ open
    /\ \E c \in Cell \ live :
         /\ live' = live \cup {c}
         /\ byte' = [byte EXCEPT ![c] = b]
         /\ IF queue_empty
              THEN front' = c /\ back' = c /\ next' = [next EXCEPT ![c] = NULL]
              ELSE /\ next' = [next EXCEPT ![c] = NULL, ![back] = c]
                   /\ UNCHANGED <<front, back>>
    /\ UNCHANGED open

queue_push_stores_item(b) ==
    /\ open
    /\ \E c \in Cell \ live :
         live' = live \cup {c} /\ front' = c /\ back' = c /\ byte' = [byte EXCEPT ![c] = c]
    /\ UNCHANGED <<open, next>>

queue_push(b) ==
    /\ open
    /\ \E c \in Cell \ live :
         /\ live' = live \cup {c}
         /\ byte' = [byte EXCEPT ![c] = b]
         /\ IF queue_empty
              THEN front' = c /\ next' = [next EXCEPT ![c] = NULL]
              ELSE front' = front /\ next' = [next EXCEPT ![c] = NULL, ![back] = c]
         /\ back' = c
    /\ UNCHANGED open

queue_pop ==
    /\ open /\ ~queue_empty
    /\ front' = next[front]
    /\ live' = live \ {front}
    /\ UNCHANGED <<open, back, byte, next>>

\* s is what the links lead to from p, up to the NULL at the end.
Chain(p, s) ==
    /\ p = IF s = <<>> THEN NULL ELSE s[1]
    /\ \A i \in 1..Len(s) : next[s[i]] = IF i = Len(s) THEN NULL ELSE s[i + 1]

\* The cells reached from p, in order; none if the links do not come to an end.
CellsFrom(p) ==
    LET Run == UNION {[1..n -> Cell] : n \in 0..Cardinality(Cell)}
    IN  IF \E s \in Run : Chain(p, s) THEN CHOOSE s \in Run : Chain(p, s) ELSE <<>>

Listed == {CellsFrom(front)[i] : i \in 1..Len(CellsFrom(front))}

\* queue_pop until queue_empty; `back` still points to the last cell.
queue_clean_leaky ==
    /\ open
    /\ live' = live /\ front' = NULL
    /\ UNCHANGED <<open, back, byte, next>>

queue_clean ==
    /\ open
    /\ live' = live \ Listed /\ front' = NULL
    /\ UNCHANGED <<open, back, byte, next>>

queue_delete ==
    /\ open
    /\ live' = live \ Listed /\ front' = NULL
    /\ open' = FALSE
    /\ UNCHANGED <<back, byte, next>>

Next ==
    \/ queue_init
    \/ \E b \in Elem : queue_push(b)
    \/ queue_pop
    \/ queue_clean
    \/ queue_delete

Spec == Init /\ [][Next]_vars

-----------------------------------------------------------------------------
(***************************************************************************)
(* The heap holds exactly the cells of the list: no cell leaks, and no     *)
(* freed cell is still reachable from the front pointer, after any mix of  *)
(* queue_push, queue_pop, queue_clean and queue_delete.                    *)
(***************************************************************************)
NoLeakNoDangling == live = (IF open THEN Listed ELSE {})

(***************************************************************************)
(* The write `queue->back->next = item` in queue_push only ever goes to a  *)
(* live cell: whenever the list is not empty, `back` is its last cell,     *)
(* although queue_pop and queue_clean never touch `back`.                  *)
(***************************************************************************)
BackIsLast ==
    (open /\ ~queue_empty) =>
        /\ back \in live /\ next[back] = NULL
        /\ CellsFrom(front)[Len(CellsFrom(front))] = back

Contents == [i \in 1..Len(CellsFrom(front)) |-> byte[CellsFrom(front)[i]]]

Abstract == INSTANCE Fifo WITH items <- Contents

(***************************************************************************)
(* The linked list implements the abstract FIFO queue: what queue_front    *)
(* and queue_pop give back is what queue_push put in, in that order.       *)
(***************************************************************************)
RefinesFifo == Abstract!Spec
=============================================================================
