-------------------------------- MODULE Fifo --------------------------------
(***************************************************************************)
(* What queue.h promises one writer and one reader: a queue of bounded     *)
(* length.  push answers 0 and appends, or 1 and only when the queue is    *)
(* full; pop takes the oldest value, or answers 0 (NULL) and only when the *)
(* queue is empty.  Each call takes effect at one moment.                  *)
(***************************************************************************)
EXTENDS Naturals, Sequences

CONSTANTS Values, NoValue, Capacity

VARIABLES contents,  \* the values pushed and not yet popped
          pushed,    \* what the last push answered
          popped     \* what the last pop answered

Init ==
  /\ contents = <<>>
  /\ pushed = "none" /\ popped = NoValue

Push(v) ==
  /\ Len(contents) < Capacity
  /\ contents' = Append(contents, v)
  /\ pushed' = "done"
  /\ UNCHANGED popped

PushFull ==
  /\ Len(contents) = Capacity
  /\ pushed' = "full"
  /\ UNCHANGED <<contents, popped>>

Pop ==
  /\ contents # <<>>
  /\ contents' = Tail(contents)
  /\ popped' = Head(contents)
  /\ UNCHANGED pushed

PopEmpty ==
  /\ contents = <<>>
  /\ popped' = NoValue
  /\ UNCHANGED <<contents, pushed>>

Next == PushFull \/ Pop \/ PopEmpty \/ \E v \in Values : Push(v)

Spec == Init /\ [][Next]_<<contents, pushed, popped>>
=============================================================================
