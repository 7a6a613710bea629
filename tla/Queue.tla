------------------------------- MODULE Queue -------------------------------
(***************************************************************************)
(* The ring buffer of ltask (ltask/src/queue.c), shared by one writer and  *)
(* one reader without a lock: a service's inbound queue, pushed to by the  *)
(* thread that is the scheduler and popped by the thread that runs the     *)
(* service.                                                                *)
(*                                                                         *)
(* A push and a pop are three steps each: open, which loads both indices   *)
(* (its own index nobody else changes, so that the load of the other one   *)
(* is the step), the access to the slot, and close, which publishes the    *)
(* new index.  Atomics are sequentially consistent (stdatomic's default),  *)
(* and the slot is accessed between two of them.                           *)
(***************************************************************************)
EXTENDS Naturals, Sequences

CONSTANTS Values,   \* what is pushed: non-zero ints or non-NULL pointers
          NoValue,  \* 0 or NULL
          Size      \* queue->size

ASSUME QueueAssumption ==
  /\ NoValue \notin Values
  /\ Size \in Nat \ {0}

VARIABLES head, tail, data,
          writer,  \* where the writer is in queue_push
          value,   \* the argument of queue_push
          reader,  \* where the reader is in queue_pop
          taken,   \* the local v of queue_pop
          pushed,  \* the result of the last queue_push
          popped   \* the result of the last queue_pop

vars == <<head, tail, data, writer, value, reader, taken, pushed, popped>>
writerVars == <<tail, data, writer, value, pushed>>
readerVars == <<head, reader, taken, popped>>

Index == 0..(Size - 1)

TypeOK ==
  /\ head \in Index /\ tail \in Index
  /\ data \in [Index -> Values \cup {NoValue}]
  /\ writer \in {"out", "open", "written"}
  /\ value \in Values \cup {NoValue}
  /\ reader \in {"out", "open", "read"}
  /\ taken \in Values \cup {NoValue}
  /\ pushed \in {"none", "done", "full"}
  /\ popped \in Values \cup {NoValue}

(* malloc leaves the slots of a new queue with any value. *)
Init ==
  /\ head = 0 /\ tail = 0
  /\ data \in [Index -> Values \cup {NoValue}]
  /\ writer = "out" /\ value = NoValue
  /\ reader = "out" /\ taken = NoValue
  /\ pushed = "none" /\ popped = NoValue

(* p & (size - 1), where size is a power of two. *)
Position(p) == p % Size

(* mutant: the test for a full queue does not wrap around *)
IsFullUnwrapped == tail + 1 = head

(* A slot stays empty to tell a full queue from an empty one. *)
IsFull == Position(tail + 1) = head

PushOpen(v) ==
  /\ writer = "out" /\ ~IsFull
  /\ value' = v /\ writer' = "open"
  /\ UNCHANGED <<tail, data, pushed, readerVars>>

PushFull ==
  /\ writer = "out" /\ IsFull
  /\ pushed' = "full"
  /\ UNCHANGED <<tail, data, writer, value, readerVars>>

PushWrite ==
  /\ writer = "open"
  /\ data' = [data EXCEPT ![tail] = value]
  /\ writer' = "written"
  /\ UNCHANGED <<tail, value, pushed, readerVars>>

PushClose ==
  /\ writer = "written"
  /\ tail' = Position(tail + 1)
  /\ writer' = "out" /\ pushed' = "done"
  /\ UNCHANGED <<data, value, readerVars>>

PopOpen ==
  /\ reader = "out" /\ head # tail
  /\ reader' = "open"
  /\ UNCHANGED <<head, taken, popped, writerVars>>

PopEmpty ==
  /\ reader = "out" /\ head = tail
  /\ popped' = NoValue
  /\ UNCHANGED <<head, reader, taken, writerVars>>

(* mutant: the index is published before the slot is read *)
PopReadLate ==
  /\ reader = "open"
  /\ head' = Position(head + 1)
  /\ taken' = data[head]
  /\ reader' = "read"
  /\ UNCHANGED <<popped, writerVars>>

PopRead ==
  /\ reader = "open"
  /\ taken' = data[head]
  /\ reader' = "read"
  /\ UNCHANGED <<head, popped, writerVars>>

PopClose ==
  /\ reader = "read"
  /\ head' = Position(head + 1)
  /\ reader' = "out" /\ popped' = taken
  /\ UNCHANGED <<taken, writerVars>>

Next == PushFull \/ PushWrite \/ PushClose \/ PopOpen \/ PopEmpty \/ PopRead
        \/ PopClose \/ \E v \in Values : PushOpen(v)

Spec == Init /\ [][Next]_vars

(* queue_length *)
Length == IF tail >= head THEN tail - head ELSE tail - head + Size

(***************************************************************************)
(* Properties.                                                             *)
(***************************************************************************)
(* The writer and the reader are never at the same slot, which neither of
   them accesses atomically. *)
NoRace == writer = "open" /\ reader = "open" => head # tail
RingKept == TypeOK /\ NoRace

(* The ring is the queue that queue.h promises, of one value less than it has
   slots: what is pushed is popped once and in order, whatever steps of the
   other side come in between.  queue_length is its length. *)
Slot(i) == Position(head + i - 1)
Contents == [i \in 1..Length |-> data[Slot(i)]]

F == INSTANCE Fifo WITH contents <- Contents, Capacity <- Size - 1
ImplementsFifo == F!Spec
=============================================================================
