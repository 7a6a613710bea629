------------------------------ MODULE MCParts ------------------------------
(* Small instances of the parts that do not depend on each other, for TLC:
   the ring buffer, who owns the memory of messages, the log queue and the debug
   log, the serialisation, the timing wheel and the state cells.  In a behaviour
   one of them moves, and the others stay as they begin; its properties are
   those of its module. *)
EXTENDS Queue, Memory, Integers, TLC

CONSTANTS v1, v2,  \* values in the ring
          Pusher, MaxLines, Item, Nil,                \* LogQueue
          Loggers, ChunkSize, MaxId, Junk,            \* DebugLog
          Base, MAX_COOKIE, MAX_DEPTH, BLOCK_SIZE, RawSize,  \* Seri
          NearSize, LevelSize, Timers, MaxTime,       \* Timer
          Leaves, Table, MaxPatches, MaxSaved         \* StateCell

VARIABLES which,
  freelist, first, last, next, text, owned, copying, count, at, item, line, turn, known,
  shutdown, torn, raced, meant, linked, unlinked, printed,
  chunks, freed, writing, id, chunk, nextId, written, running, left, flushed, logging,
  lines, closed,
  sample, buffer, got,
  time, wheel, expire, firing, stage, pending,
  conf, t, patches, shared, was, timing, quit, waits, updates, saved, exit, gone, overlap

(***************************************************************************)
(* What is packed.                                                         *)
(***************************************************************************)
Integer(n) == <<"integer", n>>
String(n) == <<"string", n>>
TableAt(n) == <<"table", n>>
NilValue == <<"nil", 0>>
Half(width) == Base ^ width \div 2

(* Numbers at both sides of every boundary, strings of the sizes around theirs,
   and one value of each other type *)
Numbers == {0, 1, -1} \cup UNION {{-n - 1, -n, n - 1, n} : n \in {Base, Base ^ 2, Half(4)}}
             \cup {-Half(8), Half(8) - 1}
Sizes == 0..(MAX_COOKIE + 2) \cup {Base ^ 2 - 1, Base ^ 2}
Flat == {Integer(n) : n \in Numbers} \cup {String(n) : n \in Sizes}
          \cup {NilValue, <<"boolean", 0>>, <<"boolean", 1>>, <<"real", 1>>,
                <<"userdata", 1>>, <<"function", 1>>}

(* The string before a value has it begin anywhere in a block. *)
FlatSamples ==
  {[args |-> <<String(n), x, Integer(1)>>, heap |-> <<>>] : n \in 0..BLOCK_SIZE, x \in Flat}

(* Arrays whose size is in their header, or in a byte or a word after it *)
ArraySamples ==
  {[args |-> <<TableAt(1), NilValue>>,
    heap |-> << [array |-> [i \in 1..n |-> Integer(i)], hash |-> h] >>] :
      n \in 0..(Base + 1), h \in {<<>>, << <<String(1), Integer(1)>> >>}}

(* Two tables with each other and themselves in them *)
Element == {Integer(1), NilValue, TableAt(1), TableAt(2)}
Node == [array : UNION {[1..n -> Element] : n \in 0..2},
         hash : {<<>>} \cup {<< <<String(1), x>> >> : x \in Element \ {NilValue}}]
GraphSamples ==
  {[args |-> args, heap |-> <<x, y>>] :
     args \in {<<TableAt(1)>>, <<TableAt(1), TableAt(2)>>}, x \in Node, y \in Node}

(* Tables in tables, by array or hash, as deep as allowed and a level more *)
Nested(i, hash) ==
  IF hash THEN [array |-> <<>>, hash |-> << <<String(1), TableAt(i + 1)>> >>]
  ELSE [array |-> <<TableAt(i + 1)>>, hash |-> <<>>]
DepthSamples ==
  {[args |-> <<TableAt(1)>>,
    heap |-> [i \in 1..n |-> IF i < n THEN Nested(i, i \in S)
                             ELSE [array |-> inner, hash |-> <<>>]]] :
     n \in 1..(MAX_DEPTH + 1), S \in SUBSET (1..MAX_DEPTH),
     inner \in {<<>>, <<Integer(1)>>, <<TableAt(1)>>}}

Samples == FlatSamples \cup ArraySamples \cup GraphSamples \cup DepthSamples

(* The keys of a state with tables in tables *)
Paths == {<<"x">>, <<"x", "a">>, <<"x", "a", "b">>}

-----------------------------------------------------------------------------
L == INSTANCE LogQueue
D == INSTANCE DebugLog WITH at <- writing, printed <- lines, raced <- closed
S == INSTANCE Seri
T == INSTANCE Timer WITH phase <- stage
C == INSTANCE StateCell

debugVars == <<chunks, freed, writing, id, chunk, nextId, written, running, left, flushed,
               logging, lines, closed>>
logVars == <<freelist, first, last, next, text, owned, copying, count, at, item, line, turn,
             known, shutdown, torn, raced, meant, linked, unlinked, printed>>
seriVars == <<sample, buffer, got>>
timerVars == <<time, wheel, expire, firing, stage, pending>>
cellVars == <<conf, t, patches, shared, was, timing, quit, waits, updates, saved, exit,
              gone, overlap>>

allVars == <<which, vars, memoryVars, debugVars, logVars, seriVars, timerVars, cellVars>>

PartsInit ==
  /\ which \in {"queue", "memory", "debuglog", "logqueue", "seri", "timer", "cell"}
  /\ Init /\ (which # "queue" => \A i \in Index : data[i] = NoValue)
  /\ MemoryInit /\ D!Init /\ L!Init /\ T!Init
  /\ C!Init /\ (which # "cell" => conf = "none" /\ t = <<>>)
  /\ IF which = "seri" THEN S!Init ELSE sample = <<>> /\ buffer = <<>> /\ got = <<>>

PartsNext ==
  /\ UNCHANGED which
  /\ IF which = "queue" THEN Next ELSE UNCHANGED vars
  /\ IF which = "memory" THEN MemoryNext ELSE UNCHANGED memoryVars
  /\ IF which = "debuglog" THEN D!Next ELSE UNCHANGED debugVars
  /\ IF which = "logqueue" THEN L!Next ELSE UNCHANGED logVars
  /\ IF which = "seri" THEN S!Next ELSE UNCHANGED seriVars
  /\ IF which = "timer" THEN T!Next ELSE UNCHANGED timerVars
  /\ IF which = "cell" THEN C!Next ELSE UNCHANGED cellVars

PartsSpec == PartsInit /\ [][PartsNext]_allVars

(* Addresses, items of the log queue and timers have no order of their own.
   They are the same model values, of which one part at a time makes use. *)
Symmetry == Permutations(Item)
ASSUME SymmetryAssumption == Struct = Item /\ Timers = Item

-----------------------------------------------------------------------------
(* The properties, as their modules state them and each for the behaviours of
   its part.  RingKept and ImplementsFifo are those of the ring,
   MemoryKept is that of the memory. *)
ASSUME PartsAssumption ==
  /\ D!DebugLogAssumption /\ L!LogQueueAssumption
  /\ T!TimerAssumption /\ C!StateCellAssumption

(* The log queue and its free list are disjoint lists that hold every item; a
   line that was logged is in one place, queued, with a popper or printed, and
   the lines of one service are printed in order by one popper; only when two
   overlaps of copies come about, another line is read
   (ltask/src/logqueue.c).  A line of the debug log is printed once and in
   order, unless its chunk is closed meanwhile (ltask/src/debuglog.c). *)
LogKept ==
  /\ which = "logqueue" => /\ L!TypeOK /\ L!Chains
                           /\ L!LineOnce /\ L!LogInOrder /\ L!TornByRace
  /\ which = "debuglog" => D!TypeOK /\ D!LinesOnce

(* By its critical sections the log queue is a FIFO. *)
LogFifo == L!LogFifo

(* What is unpacked means what was packed, and only a function, or a value
   that nests too deep, is refused (ltask/src/lua-seri.c). *)
RoundTrip == which = "seri" => S!TypeOK /\ S!RoundTrip /\ S!RefusedOnly

(* A pending timer is in one list of the wheel, once, and where it would be put
   now, and it fires in the tick in which it is due (ltask/src/timer.c). *)
WheelKept == which = "timer" => T!TypeOK /\ T!EachInOneList /\ T!Filed /\ T!OnTime

(* Timers of one tick fire in the order they were added. *)
FiresInOrder == T!FiresInOrder

(* Patches bring an old copy of a state up to date or fail, and are never
   silently wrong (service/state_cell.lua). *)
CatchUp == which = "cell" => C!TypeOK /\ C!CatchUp

(* A cell quits with its state saved, unless two saves overlapped. *)
SavedOrOverlapped == which = "cell" => C!SavedOrOverlapped
=============================================================================
