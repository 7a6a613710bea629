-------------------------------- MODULE Seri --------------------------------
(***************************************************************************)
(* The serialisation of Lua values (ltask/src/lua-seri.c): what a service  *)
(* sends is packed into one buffer and unpacked in the service that gets   *)
(* it.  The sizes of the code are constants, so that all the boundaries of *)
(* the format are near 0: a byte has Base values, and so on.               *)
(*                                                                         *)
(* A Lua value is a pair of its type and what tells it from others of this *)
(* type; a table is the number of an entry of a heap.  The string of       *)
(* length n has the characters 1..n.                                       *)
(***************************************************************************)
EXTENDS Integers, Sequences, FiniteSets, SequencesExt

CONSTANTS Base,       \* values of a byte: 256
          MAX_COOKIE, \* values of the high bits of a header: 32
          MAX_DEPTH,  \* nested tables: 32
          BLOCK_SIZE, \* bytes of a block: 128
          RawSize,    \* bytes of a double and of a pointer: 8
          Samples     \* what is packed: the arguments and the heap

VARIABLES sample,  \* the values one service sends
          buffer,  \* the packed message
          got \* what the other one unpacks
vars == <<sample, buffer, got>>

LuaNil == <<"nil", 0>>
Head8(type, cookie) == <<"header", type, cookie>>  \* COMBINE_TYPE
ValuesOf(width) == Base ^ width
WidthOf(cookie) == CASE cookie = "zero" -> 0 [] cookie = "byte" -> 1 [] cookie = "word" -> 2
                     [] cookie = "dword" -> 4 [] cookie = "qword" -> 8

-----------------------------------------------------------------------------
(* Packing: b is a struct write_block, with the objects of its stack. *)

EmptyBlock == [blocks |-> << <<>> >>, stack |-> <<>>, err |-> "none"]
WbLen(b) == BLOCK_SIZE * (Len(b.blocks) - 1) + Len(Last(b.blocks))

(* wb_push *)
RECURSIVE WbPush(_, _)
WbPush(b, bytes) ==
  LET current == Last(b.blocks)
      room == BLOCK_SIZE - Len(current)
      filled(n) == [b EXCEPT !.blocks[Len(b.blocks)] = current \o SubSeq(bytes, 1, n)]
  IN IF Len(bytes) <= room THEN filled(Len(bytes))
     ELSE WbPush([filled(room) EXCEPT !.blocks = Append(@, <<>>)],
                 SubSeq(bytes, room + 1, Len(bytes)))

Digits(v, width) ==
  [i \in 1..width |-> <<"digit", ((v % ValuesOf(width)) \div ValuesOf(i - 1)) % Base, 0>>]

IntegerCookie(v) ==
  CASE v = 0 -> "zero"
    [] v < -(ValuesOf(4) \div 2) \/ v >= ValuesOf(4) \div 2 -> "qword"
    [] v \in -(ValuesOf(4) \div 2)..(-1) -> "dword"
    [] v \in 1..(Base - 1) -> "byte"
    [] v \in Base..(ValuesOf(2) - 1) -> "word"
    [] OTHER -> "dword"

WbInteger(b, v) ==
  WbPush(b, <<Head8("number", IntegerCookie(v))>> \o Digits(v, WidthOf(IntegerCookie(v))))

Raw(type, x) == [i \in 1..RawSize |-> <<type, x, i>>]
Chars(n) == [i \in 1..n |-> <<"char", n, i>>]

IsShort(len) == len < MAX_COOKIE

WbString(b, len) ==
  IF IsShort(len) THEN WbPush(b, <<Head8("short", len)>> \o Chars(len))
  ELSE LET width == IF len < ValuesOf(2) THEN 2 ELSE 4
       IN WbPush(b, <<Head8("long", width)>> \o Digits(len, width) \o Chars(len))

RECURSIVE PackOne(_, _, _)

PackAll(b, heap, values) == FoldLeft(LAMBDA c, v : PackOne(c, heap, v), b, values)

(* wb_table: the array part and the rest, or what __pairs yields *)
WbTable(b, heap, t) ==
  LET size == Len(heap[t].array)
      header == IF size >= MAX_COOKIE - 1
                THEN WbInteger(WbPush(b, <<Head8("table", MAX_COOKIE - 1)>>), size)
                ELSE WbPush(b, <<Head8("table", size)>>)
      array == PackAll(header, heap, heap[t].array)
      hash == FoldLeft(LAMBDA c, e : PackAll(c, heap, e), array, heap[t].hash)
  IN IF hash.err # "none" THEN hash ELSE WbPush(hash, <<Head8("nil", 0)>>)

(* mutant: the search begins at the parent's parent *)
AncestorsGrand(b) == IF b.stack = <<>> THEN <<>> ELSE Front(b.stack)

(* ref_ancestor *)
Ancestors(b) == b.stack

TooDeep(b) == Len(b.stack) >= MAX_DEPTH

(* pack_one: a table that is being packed becomes a reference. *)
PackOne(b, heap, v) ==
  IF b.err # "none" THEN b
  ELSE IF TooDeep(b) THEN [b EXCEPT !.err = "too depth"]
  ELSE CASE v[1] = "nil" -> WbPush(b, <<Head8("nil", 0)>>)
         [] v[1] = "boolean" -> WbPush(b, <<Head8("boolean", v[2])>>)
         [] v[1] = "integer" -> WbInteger(b, v[2])
         [] v[1] = "real" -> WbPush(b, <<Head8("number", "real")>> \o Raw("real", v[2]))
         [] v[1] = "userdata" -> WbPush(b, <<Head8("userdata", 0)>> \o Raw("userdata", v[2]))
         [] v[1] = "string" -> WbString(b, v[2])
         [] v[1] = "table" ->
              IF \E i \in DOMAIN Ancestors(b) : Ancestors(b)[i] = v[2]
              THEN WbPush(b, <<Head8("ref", SelectLastInSeq(b.stack, LAMBDA x : x = v[2]) - 1)>>)
              ELSE LET packed == WbTable([b EXCEPT !.stack = Append(@, v[2])], heap, v[2])
                   IN IF packed.err # "none" THEN packed
                      ELSE [packed EXCEPT !.stack = Front(@)]
         [] OTHER -> [b EXCEPT !.err = "unsupport type"]

(* seri: len bytes of the blocks *)
Seri(b) == [i \in 1..WbLen(b) |->
              b.blocks[((i - 1) \div BLOCK_SIZE) + 1][((i - 1) % BLOCK_SIZE) + 1]]

SeriPack(s) == LET b == PackAll(EmptyBlock, s.heap, s.args)
               IN IF b.err # "none" THEN [err |-> b.err, bytes |-> <<>>]
                  ELSE [err |-> "none", bytes |-> Seri(b)]

-----------------------------------------------------------------------------
(* Unpacking: r is a struct read_block, with the Lua stack and the tables
   made.  ancestor holds slots of the Lua stack, whatever is there now. *)

Reader(bytes) == [bytes |-> bytes, depth |-> 0, ancestor |-> [d \in 0..(MAX_DEPTH - 1) |-> 0],
                  lua |-> <<>>, heap |-> <<>>, err |-> "none"]
Bad(r) == r.err # "none"
Error(r, e) == [r EXCEPT !.err = e]
Push(r, v) == [r EXCEPT !.lua = Append(@, v)]
Pop(r) == [r EXCEPT !.lua = Front(@)]
Top(r) == Last(r.lua)

(* rb_read *)
CanRead(r, n) == Len(r.bytes) >= n
Skip(r, n) == [r EXCEPT !.bytes = SubSeq(@, n + 1, Len(@))]

Number(bytes) ==
  FoldLeft(LAMBDA n, i : n + bytes[i][2] * ValuesOf(i - 1), 0, [i \in DOMAIN bytes |-> i])

(* get_integer; words and bytes have no sign *)
IntegerAt(r, width, signed) ==
  LET n == Number(SubSeq(r.bytes, 1, width))
  IN IF signed /\ n >= ValuesOf(width) \div 2 THEN n - ValuesOf(width) ELSE n

(* get_buffer *)
GetBuffer(r, n) ==
  IF ~CanRead(r, n) THEN Error(r, "invalid stream")
  ELSE Push(Skip(r, n), IF SubSeq(r.bytes, 1, n) = Chars(n) THEN <<"string", n>>
                        ELSE <<"garbled", n>>)

(* get_real, get_pointer *)
GetRaw(r, type) ==
  IF ~CanRead(r, RawSize) THEN Error(r, "invalid stream")
  ELSE Push(Skip(r, RawSize),
            LET x == r.bytes[1][2]
            IN IF SubSeq(r.bytes, 1, RawSize) = Raw(type, x) THEN <<type, x>> ELSE <<"garbled", 0>>)

(* lua_rawset, lua_rawseti: the table at the slot gets a value at a key *)
RawSet(r, slot, key, value) ==
  LET t == r.lua[slot][2]
  IN [r EXCEPT !.heap[t] = {e \in @ : e[1] # key}
                             \cup (IF value = LuaNil THEN {} ELSE {<<key, value>>})]

RECURSIVE UnpackOne(_), UnpackArray(_, _, _), UnpackHash(_)

UnpackArray(r, i, size) ==
  IF i > size \/ Bad(r) THEN r
  ELSE LET s == UnpackOne(r)
       IN IF Bad(s) THEN s
          ELSE UnpackArray(Pop(RawSet(s, Len(s.lua) - 1, <<"integer", i>>, Top(s))), i + 1, size)

(* ++s->depth *)
AtValue(r) == [r EXCEPT !.depth = @ + 1]

(* The rest of the table at the top of the stack: a key is unpacked in the
   depth of the table itself, a value below it. *)
UnpackHash(r) ==
  LET k == UnpackOne(r)
      v == UnpackOne(AtValue(k))
      top == Len(v.lua)
  IN IF Bad(k) THEN k
     ELSE IF Top(k) = LuaNil THEN Pop(k)
     ELSE IF Bad(v) THEN v
     ELSE UnpackHash([Pop(Pop(RawSet(v, top - 2, v.lua[top - 1], Top(v)))) EXCEPT !.depth = r.depth])

UnpackTable(r, cookie) ==
  LET more == cookie = MAX_COOKIE - 1
      kind == IF more /\ CanRead(r, 1) THEN r.bytes[1] ELSE Head8("nil", 0)
      width == IF kind[2] = "number" /\ kind[3] # "real" THEN WidthOf(kind[3]) ELSE 0
      r1 == IF more THEN Skip(r, 1 + width) ELSE r
      size == IF more THEN IntegerAt(Skip(r, 1), width, width > 2) ELSE cookie
      slot == Len(r.lua) + 1
      r2 == [Push(r1, <<"table", Len(r.heap) + 1>>) EXCEPT
               !.heap = Append(@, {}), !.ancestor[r.depth] = slot, !.depth = @ + 1]
      array == UnpackArray(r2, 1, size)
  IN IF more /\ (kind[2] # "number" \/ kind[3] = "real" \/ ~CanRead(r, 1 + width))
     THEN Error(r, "invalid stream")
     ELSE IF r.depth >= MAX_DEPTH THEN Error(r, "invalid layer")
     ELSE IF Bad(array) THEN array
     ELSE UnpackHash([array EXCEPT !.depth = @ - 1])

UnpackRef(r, ref) ==
  IF ref >= r.depth THEN Error(r, "invalid ref") ELSE Push(r, r.lua[r.ancestor[ref]])

GetInteger(r, cookie) ==
  LET width == WidthOf(cookie)
  IN IF ~CanRead(r, width) THEN Error(r, "invalid stream")
     ELSE Push(Skip(r, width), <<"integer", IntegerAt(r, width, width > 2)>>)

LongString(r, width) ==
  IF width \notin {2, 4} \/ ~CanRead(r, width) THEN Error(r, "invalid stream")
  ELSE GetBuffer(Skip(r, width), IntegerAt(r, width, FALSE))

PushValue(r, type, cookie) ==
  CASE type = "nil" -> Push(r, LuaNil)
    [] type = "boolean" -> Push(r, <<"boolean", cookie>>)
    [] type = "number" -> IF cookie = "real" THEN GetRaw(r, "real") ELSE GetInteger(r, cookie)
    [] type = "userdata" -> GetRaw(r, "userdata")
    [] type = "short" -> GetBuffer(r, cookie)
    [] type = "long" -> LongString(r, cookie)
    [] type = "table" -> UnpackTable(r, cookie)
    [] type = "ref" -> UnpackRef(r, cookie)
    [] OTHER -> Error(r, "invalid stream")

UnpackOne(r) ==
  IF Bad(r) THEN r
  ELSE IF ~CanRead(r, 1) \/ r.bytes[1][1] # "header" THEN Error(r, "invalid stream")
  ELSE PushValue(Skip(r, 1), r.bytes[1][2], r.bytes[1][3])

(* seri_unpack_ *)
RECURSIVE SeriUnpack(_)
SeriUnpack(r) == IF Bad(r) \/ r.bytes = <<>> THEN r ELSE SeriUnpack(UnpackOne(r))

-----------------------------------------------------------------------------
Unset == [err |-> "unset"]
Init == sample \in Samples /\ buffer = Unset /\ got = Unset

(* ltask.pack *)
Pack == buffer = Unset /\ buffer' = SeriPack(sample) /\ UNCHANGED <<sample, got>>

(* ltask.unpack_remove *)
Unpack == /\ buffer.err = "none" /\ got = Unset
          /\ got' = SeriUnpack(Reader(buffer.bytes)) /\ UNCHANGED <<sample, buffer>>

(* The buffer is freed with what was unpacked, or by wb_free at an error. *)
Free == /\ buffer # Unset /\ (buffer.err = "none" => got # Unset)
        /\ buffer' = Unset /\ got' = Unset /\ UNCHANGED sample

Next == Pack \/ Unpack \/ Free
Spec == Init /\ [][Next]_vars

-----------------------------------------------------------------------------
(* The bytes of a message are bytes: a cookie, that is a length, a size or a
   depth, fits into the high bits of its header, and a digit into a byte. *)
TypeOK ==
  buffer.err = "none" =>
    \A i \in DOMAIN buffer.bytes :
      LET x == buffer.bytes[i]
      IN CASE x[1] = "digit" -> x[2] \in 0..(Base - 1)
           [] x[1] = "header" /\ x[2] \in {"short", "table", "ref"} -> x[3] \in 0..(MAX_COOKIE - 1)
           [] OTHER -> TRUE

(* What a table means: the values of its keys *)
Entries(t) == {e \in {<< <<"integer", i>>, t.array[i]>> : i \in DOMAIN t.array}
                      \cup {t.hash[i] : i \in DOMAIN t.hash} : e[2] # LuaNil}

(* v and w mean the same: tables of the same content, where one that contains
   itself is copied to one that contains itself at the same place. *)
RECURSIVE Same(_, _, _, _, _, _)
Same(v, heap, above, w, copies, aboveCopy) ==
  IF v[1] # "table" THEN v = w
  ELSE /\ w[1] = "table"
       /\ IF \E i \in DOMAIN above : above[i] = v[2]
          THEN \A i \in DOMAIN above : above[i] = v[2] => aboveCopy[i] = w[2]
          ELSE LET old == Entries(heap[v[2]])
                   new == copies[w[2]]
               IN /\ {e[1] : e \in old} = {e[1] : e \in new}
                  /\ Cardinality(old) = Cardinality(new)
                  /\ \A e \in old, f \in new :
                       e[1] = f[1] => Same(e[2], heap, Append(above, v[2]),
                                           f[2], copies, Append(aboveCopy, w[2]))

(* What is unpacked means what was packed, for every value that is not
   refused: integers of every width, strings and arrays of every size, wherever
   in a block they begin, and tables that contain each other or themselves.  (A
   table with a table for a key is not always copied right, and is not among
   the values of the runs: README.) *)
RoundTrip ==
  got # Unset =>
    /\ got.err = "none" /\ Len(got.lua) = Len(sample.args)
    /\ \A i \in DOMAIN sample.args :
         Same(sample.args[i], sample.heap, <<>>, got.lua[i], got.heap, <<>>)

(* Nested tables a value leads to before it comes back to one of them *)
RECURSIVE DepthOf(_, _, _)
DepthOf(s, v, above) ==
  IF v[1] # "table" \/ v[2] \in above THEN 0
  ELSE LET below == {DepthOf(s, e[2], above \cup {v[2]}) : e \in Entries(s.heap[v[2]])}
       IN IF below = {} THEN 1 ELSE 1 + (CHOOSE d \in below : \A x \in below : x <= d)

(* Only a function, or a value that nests too deep, is refused.  (Depth counts
   a value inside the deepest table, which may therefore be empty.) *)
RefusedOnly ==
  buffer.err \notin {"unset", "none"} =>
    \E v \in ToSet(sample.args) :
      v[1] = "function" \/ DepthOf(sample, v, {}) >= MAX_DEPTH
=============================================================================
