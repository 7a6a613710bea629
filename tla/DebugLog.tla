------------------------------ MODULE DebugLog ------------------------------
(***************************************************************************)
(* The debug log of builds with DEBUGLOG (ltask/src/debuglog.c, and        *)
(* thread_logger and ltask_run in ltask.c).  A thread writes lines into    *)
(* the last chunk of its logger, without a lock; another thread, ten times *)
(* a second, closes the last chunk of every logger and prints and frees    *)
(* those before it.  The logger SCHEDULE is written by the thread that is  *)
(* the scheduler, one at a time.                                           *)
(*                                                                         *)
(* If a chunk is closed while a line is written into it, the line ends up  *)
(* where nobody prints it and what was in memory is printed instead.       *)
(***************************************************************************)
EXTENDS Naturals, Sequences, SequencesExt

CONSTANTS Loggers,    \* the loggers, each with the thread that writes to it
          ChunkSize, \* lines that fit into a chunk (CHUNKSIZE bytes in the code)
          MaxId,     \* lines that are written (bound)
          Junk       \* what is read from memory nobody has written

DebugLogAssumption == ChunkSize \in Nat \ {0} /\ MaxId \in Nat /\ Junk \notin Nat

VARIABLES
  chunks,  \* the chunks of each logger, oldest first; logger->c is the last
  freed,   \* how many there were before them
  at,      \* where the thread of a logger is in dlog_write
  id,      \* header.id
  chunk,   \* the chunk ptr points into
  nextId,  \* G.id
  written, \* lines of each logger
  running, \* thread_count: the threads that have not ended
  left,    \* loggers that are still to be written in this pass of thread_logger
  flushed, \* the logger that it writes now
  logging, \* thread_logger runs
  printed, \* what was printed, by logger (history)
  raced    \* loggers whose chunk was closed in the middle of a line (history)

vars == <<chunks, freed, at, id, chunk, nextId, written, running, left,
               flushed, logging, printed, raced>>

Entry == Nat \cup {Junk}

TypeOK ==
  /\ chunks \in [Loggers -> Seq(Seq(Entry)) \ {<<>>}] /\ freed \in [Loggers -> Nat]
  /\ at \in [Loggers -> {"out", "begin", "copy"}] /\ id \in [Loggers -> Nat]
  /\ chunk \in [Loggers -> Nat] /\ nextId \in Nat /\ written \in [Loggers -> Nat]
  /\ running \subseteq Loggers /\ {left, flushed} \subseteq SUBSET Loggers /\ logging \in BOOLEAN
  /\ printed \in [Loggers -> Seq(Entry)] /\ raced \subseteq Loggers

(* dlog_new *)
Init ==
  /\ chunks = [l \in Loggers |-> << <<>> >>] /\ freed = [l \in Loggers |-> 0]
  /\ at = [l \in Loggers |-> "out"] /\ id = [l \in Loggers |-> 0]
  /\ chunk = [l \in Loggers |-> 0] /\ nextId = 0 /\ written = [l \in Loggers |-> 0]
  /\ running = Loggers /\ left = {} /\ flushed = {} /\ logging = TRUE
  /\ printed = [l \in Loggers |-> <<>>] /\ raced = {}

(* dlog_flush: an empty chunk is not closed. *)
Flush(c) == IF Last(c) = <<>> THEN c ELSE Append(c, <<>>)

Position(l) == freed[l] + Len(chunks[l])

-----------------------------------------------------------------------------
(* dlog_write takes an id, ... *)
WriteBegin(l) ==
  /\ l \in running /\ at[l] = "out" /\ nextId < MaxId
  /\ nextId' = nextId + 1 /\ id' = [id EXCEPT ![l] = nextId']
  /\ written' = [written EXCEPT ![l] = @ + 1]
  /\ at' = [at EXCEPT ![l] = "begin"]
  /\ UNCHANGED <<chunks, freed, chunk, running, left,
               flushed, logging, printed, raced>>

(* closes the chunk if the line does not fit and loads the offset into the
   last one, ... *)
WriteOffset(l) ==
  LET c == IF Len(Last(chunks[l])) + 1 > ChunkSize THEN Flush(chunks[l]) ELSE chunks[l]
  IN
  /\ at[l] = "begin"
  /\ chunks' = [chunks EXCEPT ![l] = c]
  /\ chunk' = [chunk EXCEPT ![l] = freed[l] + Len(c)]
  /\ at' = [at EXCEPT ![l] = "copy"]
  /\ UNCHANGED <<freed, id, nextId, written, running, left,
               flushed, logging, printed, raced>>

(* and copies the line and sets the size of the last chunk, which need not be
   the one the line is in. *)
WriteSize(l) ==
  /\ at[l] = "copy"
  /\ chunks' = [chunks EXCEPT ![l] =
       Append(Front(@), Append(Last(@), IF Position(l) = chunk[l] THEN id[l] ELSE Junk))]
  /\ at' = [at EXCEPT ![l] = "out"]
  /\ UNCHANGED <<freed, id, chunk, nextId, written, running, left,
               flushed, logging, printed, raced>>

(* The thread of a logger ends. *)
EndThread(l) ==
  /\ l \in running /\ at[l] = "out"
  /\ running' = running \ {l}
  /\ UNCHANGED <<chunks, freed, at, id, chunk, nextId, written, left, flushed, logging, printed, raced>>

-----------------------------------------------------------------------------
(* thread_logger: a pass over all loggers, again and again until the other
   threads have ended.  Nobody calls dlog_close then, and what was written
   since the last pass is not printed. *)
WriteFile ==
  /\ logging /\ left = {} /\ flushed = {}
  /\ IF running # {} THEN left' = Loggers /\ UNCHANGED logging
     ELSE logging' = FALSE /\ UNCHANGED left
  /\ UNCHANGED <<chunks, freed, at, id, chunk, nextId, written, running, flushed, printed, raced>>

(* The lines of all chunks but the last *)
Closed(c) == FlattenSeq(Front(c))

(* writefile_all_logger, one logger: the flush ... *)
FlushLogger(l) ==
  /\ l \in left /\ flushed = {}
  /\ left' = left \ {l} /\ flushed' = {l}
  /\ chunks' = [chunks EXCEPT ![l] = Flush(@)]
  /\ raced' = IF at[l] = "copy" /\ Last(chunks[l]) # <<>> THEN raced \cup {l} ELSE raced
  /\ UNCHANGED <<freed, at, id, chunk, nextId, written, running, logging, printed>>

(* and writefile_logger, which frees what it prints. *)
WriteLogger(l) ==
  /\ l \in flushed /\ flushed' = {}
  /\ printed' = [printed EXCEPT ![l] = @ \o Closed(chunks[l])]
  /\ freed' = [freed EXCEPT ![l] = @ + Len(chunks[l]) - 1]
  /\ chunks' = [chunks EXCEPT ![l] = <<Last(@)>>]
  /\ UNCHANGED <<at, id, chunk, nextId, written, running, left, logging, raced>>

Next ==
  \/ \E l \in Loggers : \/ WriteBegin(l) \/ WriteOffset(l) \/ WriteSize(l) \/ EndThread(l)
                       \/ FlushLogger(l) \/ WriteLogger(l)
  \/ WriteFile

Spec == Init /\ [][Next]_vars

-----------------------------------------------------------------------------
(* Of each logger every line is printed or in a chunk, once and in the order
   they were written, and nothing else, unless a chunk was closed in the middle
   of a line. *)
Lines(l) == printed[l] \o FlattenSeq(chunks[l])
Count(l) == written[l] - (IF at[l] = "out" THEN 0 ELSE 1)
LinesOnce ==
  \A l \in Loggers \ raced :
    /\ Len(Lines(l)) = Count(l)
    /\ \A i \in 1..Count(l) : Lines(l)[i] # Junk
    /\ \A i, j \in 1..Count(l) : i < j => Lines(l)[i] < Lines(l)[j]
=============================================================================
