---------------------------- MODULE Parts_proof -----------------------------
(***************************************************************************)
(* Proofs about two parts that share nothing.  Memory, for every number of *)
(* services, every size of the queues and any heap: no message and no      *)
(* payload is freed twice, used after it was freed or forgotten.  Queue,   *)
(* for every size and set of values: the ring buffer is free of races and  *)
(* implements the queue of module Fifo.                                    *)
(***************************************************************************)
EXTENDS Memory, Queue, SequenceTheorems, TLAPS

-----------------------------------------------------------------------------
(* Where a pointer to a message may be.                                    *)

InQ(q, a) == \E i \in DOMAIN q : q[i] = a
OnceQ(q, a) == \A i, j \in DOMAIN q : q[i] = a /\ q[j] = a => i = j

Spots == ({"out", "bounce", "queue"} \X Service) \cup ({"sending"} \X Exclusive)
In(k, a) ==
  \/ k[1] = "out" /\ slot[k[2]].out = a
  \/ k[1] = "bounce" /\ slot[k[2]].bounce = a
  \/ k[1] = "queue" /\ InQ(slot[k[2]].queue, a)
  \/ k[1] = "sending" /\ InQ(sending[k[2]], a)

(* A message that is allocated and not lost has one pointer to it, and there
   is none to another. *)
Due(a) == heap[a] # Unallocated /\ a \notin lost
StructKept(a) ==
  /\ \A k, l \in Spots : In(k, a) /\ In(l, a) => k = l
  /\ \A s \in Service : OnceQ(slot[s].queue, a)
  /\ \A x \in Exclusive : OnceQ(sending[x], a)
  /\ Due(a) <=> \E k \in Spots : In(k, a)

(* A payload that is allocated and not lost has one message or one VM. *)
Carries(a, b) == heap[a] # Unallocated /\ heap[a].msg = b
BlockKept(b) ==
  /\ \A s, u \in VM : b \in vm[s] /\ b \in vm[u] => s = u
  /\ \A a, c \in Struct : Carries(a, b) /\ Carries(c, b) => a = c
  /\ \A s \in VM, a \in Struct : ~ (b \in vm[s] /\ Carries(a, b))
  /\ b \in block \ lost <=> (\E s \in VM : b \in vm[s]) \/ (\E a \in Struct : Carries(a, b))
  /\ b \in lost => b \in block

(* A slot without a VM is empty; a message that was handed back comes with a
   receipt; the last message of a service that is dead is its signal. *)
SlotKept(s) ==
  /\ slot[s].status \in {"none", "new"} => slot[s] = EmptySlot(slot[s].status)
  /\ slot[s].receipt = "none" => slot[s].bounce = NULL
  /\ slot[s].status = "dead" /\ s # Root /\ slot[s].out # NULL
       => heap[slot[s].out].type = "signal"
SendingKept(x) ==
  /\ Len(sending[x]) <= LengthSending
  /\ \A i \in DOMAIN sending[x] : heap[sending[x][i]].to \in Service

LostOK == \A a \in lost \cap Struct : heap[a] # Unallocated /\ heap[a].type \in {"hang", "signal"}
Ended == phase = "end" => \A a \in Struct : heap[a] = Unallocated \/ a \in lost

MemInv ==
  /\ MemoryAssumption
  /\ MemoryTypeOK
  /\ \A a \in Struct : StructKept(a)
  /\ \A b \in Block : BlockKept(b)
  /\ \A s \in Service : SlotKept(s)
  /\ \A x \in Exclusive : SendingKept(x)
  /\ LostOK /\ Ended

-----------------------------------------------------------------------------
(* Sequences.                                                              *)

LEMMA Appended ==
  ASSUME NEW S, NEW q \in Seq(S), NEW e \in S, NEW a
  PROVE  /\ Append(q, e) \in Seq(S) /\ Len(Append(q, e)) = Len(q) + 1
         /\ InQ(Append(q, e), a) <=> InQ(q, a) \/ a = e
         /\ OnceQ(q, a) /\ (a # e \/ ~InQ(q, a)) => OnceQ(Append(q, e), a)
<1>1. /\ Append(q, e) \in Seq(S) /\ Len(Append(q, e)) = Len(q) + 1
      /\ \A i \in 1..Len(q) : Append(q, e)[i] = q[i]
      /\ Append(q, e)[Len(q) + 1] = e
  BY AppendProperties
<1>2. DOMAIN q = 1..Len(q) /\ Len(q) \in Nat /\ DOMAIN Append(q, e) = 1..(Len(q) + 1)
  BY <1>1
<1>3. \A i : i \in DOMAIN Append(q, e) <=> i \in DOMAIN q \/ i = Len(q) + 1
  BY <1>2
<1>4. InQ(Append(q, e), a) <=> InQ(q, a) \/ a = e
  BY <1>1, <1>2, <1>3 DEF InQ
<1>5. OnceQ(q, a) /\ (a # e \/ ~InQ(q, a)) => OnceQ(Append(q, e), a)
  BY <1>1, <1>2, <1>3 DEF InQ, OnceQ
<1> QED BY <1>1, <1>4, <1>5

LEMMA Dropped ==
  ASSUME NEW S, NEW q \in Seq(S), q # <<>>, NEW a
  PROVE  /\ Head(q) \in S /\ Tail(q) \in Seq(S) /\ Len(Tail(q)) = Len(q) - 1
         /\ InQ(q, a) <=> InQ(Tail(q), a) \/ a = Head(q)
         /\ InQ(q, Head(q))
         /\ OnceQ(q, a) => OnceQ(Tail(q), a) /\ (a = Head(q) => ~InQ(Tail(q), a))
<1>1. /\ Head(q) \in S /\ Tail(q) \in Seq(S) /\ Len(Tail(q)) = Len(q) - 1
      /\ Len(q) \in Nat /\ Len(q) > 0 /\ DOMAIN q = 1..Len(q)
      /\ DOMAIN Tail(q) = 1..(Len(q) - 1)
      /\ \A i \in 1..(Len(q) - 1) : Tail(q)[i] = q[i + 1]
      /\ Head(q) = q[1]
  BY HeadTailProperties, EmptySeq
<1>2. \A i \in DOMAIN q : i = 1 \/ (i - 1 \in DOMAIN Tail(q) /\ Tail(q)[i - 1] = q[i])
  <2> SUFFICES ASSUME NEW i \in DOMAIN q, i # 1
               PROVE  i - 1 \in DOMAIN Tail(q) /\ Tail(q)[i - 1] = q[i]
    OBVIOUS
  <2>1. i - 1 \in 1..(Len(q) - 1) /\ (i - 1) + 1 = i
    BY <1>1
  <2> QED BY <1>1, <2>1
<1>3. \A i \in DOMAIN Tail(q) : i + 1 \in DOMAIN q /\ i + 1 # 1 /\ Tail(q)[i] = q[i + 1]
  BY <1>1
<1>4. 1 \in DOMAIN q
  BY <1>1
<1>5. InQ(q, a) <=> InQ(Tail(q), a) \/ a = Head(q)
  BY <1>1, <1>2, <1>3, <1>4, ZenonT(60) DEF InQ
<1>6. ASSUME OnceQ(q, a)
      PROVE  OnceQ(Tail(q), a) /\ (a = Head(q) => ~InQ(Tail(q), a))
  <2>1. ASSUME NEW i \in DOMAIN Tail(q), NEW j \in DOMAIN Tail(q),
               Tail(q)[i] = a, Tail(q)[j] = a
        PROVE  i = j
    <3>1. i + 1 = j + 1
      BY <1>3, <1>6, <2>1 DEF OnceQ
    <3> QED BY <1>1, <3>1
  <2>2. a = Head(q) => ~InQ(Tail(q), a)
    BY <1>1, <1>3, <1>4, <1>6 DEF OnceQ, InQ
  <2> QED BY <2>1, <2>2 DEF OnceQ
<1> QED BY <1>1, <1>4, <1>5, <1>6 DEF InQ

LEMMA EmptyQueue ==
  ASSUME NEW a
  PROVE  ~InQ(<<>>, a) /\ OnceQ(<<>>, a)
BY DEF InQ, OnceQ

-----------------------------------------------------------------------------
(* A message is at one spot or at none, and is due if it is at one.        *)

Nowhere == <<"nowhere", Root>>
At(a, here) ==
  /\ \A s \in Service : /\ slot[s].out = a <=> here = <<"out", s>>
                        /\ slot[s].bounce = a <=> here = <<"bounce", s>>
                        /\ InQ(slot[s].queue, a) <=> here = <<"queue", s>>
  /\ \A x \in Exclusive : InQ(sending[x], a) <=> here = <<"sending", x>>
Once(a) == (\A s \in Service : OnceQ(slot[s].queue, a)) /\ (\A x \in Exclusive : OnceQ(sending[x], a))

LEMMA SpotKinds ==
  ASSUME NEW k \in Spots
  PROVE  /\ \/ k = <<"out", k[2]>> /\ k[2] \in Service
            \/ k = <<"bounce", k[2]>> /\ k[2] \in Service
            \/ k = <<"queue", k[2]>> /\ k[2] \in Service
            \/ k = <<"sending", k[2]>> /\ k[2] \in Exclusive
         /\ k # Nowhere
BY DEF Spots, Nowhere

LEMMA SpotIn ==
  ASSUME NEW a
  PROVE  /\ \A s \in Service :
              /\ <<"out", s>> \in Spots /\ (In(<<"out", s>>, a) <=> slot[s].out = a)
              /\ <<"bounce", s>> \in Spots /\ (In(<<"bounce", s>>, a) <=> slot[s].bounce = a)
              /\ <<"queue", s>> \in Spots /\ (In(<<"queue", s>>, a) <=> InQ(slot[s].queue, a))
         /\ \A x \in Exclusive :
              <<"sending", x>> \in Spots /\ (In(<<"sending", x>>, a) <=> InQ(sending[x], a))
BY DEF Spots, In

LEMMA AtIn ==
  ASSUME NEW a, NEW here
  PROVE  At(a, here) <=> \A k \in Spots : In(k, a) <=> k = here
<1>1. ASSUME At(a, here), NEW k \in Spots
      PROVE  In(k, a) <=> k = here
  <2>1. \/ k = <<"out", k[2]>> /\ k[2] \in Service
        \/ k = <<"bounce", k[2]>> /\ k[2] \in Service
        \/ k = <<"queue", k[2]>> /\ k[2] \in Service
        \/ k = <<"sending", k[2]>> /\ k[2] \in Exclusive
    BY SpotKinds
  <2>2. CASE k = <<"out", k[2]>> /\ k[2] \in Service
    BY <1>1, <2>2 DEF At, In
  <2>3. CASE k = <<"bounce", k[2]>> /\ k[2] \in Service
    BY <1>1, <2>3 DEF At, In
  <2>4. CASE k = <<"queue", k[2]>> /\ k[2] \in Service
    BY <1>1, <2>4 DEF At, In
  <2>5. CASE k = <<"sending", k[2]>> /\ k[2] \in Exclusive
    BY <1>1, <2>5 DEF At, In
  <2> QED BY <2>1, <2>2, <2>3, <2>4, <2>5
<1>2. ASSUME \A k \in Spots : In(k, a) <=> k = here
      PROVE  At(a, here)
  BY <1>2, SpotIn DEF At
<1> QED BY <1>1, <1>2

LEMMA Kept ==
  ASSUME NEW a
  PROVE  StructKept(a) <=> /\ Once(a)
                           /\ \E here \in Spots \cup {Nowhere} :
                                At(a, here) /\ (Due(a) <=> here # Nowhere)
<1>1. ASSUME StructKept(a)
      PROVE  \E here \in Spots \cup {Nowhere} : At(a, here) /\ (Due(a) <=> here # Nowhere)
  <2>1. CASE Due(a)
    <3>1. PICK here \in Spots : In(here, a)
      BY <1>1, <2>1 DEF StructKept
    <3>2. \A k \in Spots : In(k, a) <=> k = here
      BY <1>1, <3>1 DEF StructKept
    <3>3. At(a, here) /\ here # Nowhere
      BY <3>2, AtIn, SpotKinds
    <3> QED BY <2>1, <3>3
  <2>2. CASE ~Due(a)
    <3>1. \A k \in Spots : ~In(k, a)
      BY <1>1, <2>2 DEF StructKept
    <3>2. \A k \in Spots : In(k, a) <=> k = Nowhere
      BY <3>1, SpotKinds
    <3> QED BY <2>2, <3>2, AtIn
  <2> QED BY <2>1, <2>2
<1>2. ASSUME Once(a), NEW here \in Spots \cup {Nowhere}, At(a, here), Due(a) <=> here # Nowhere
      PROVE  StructKept(a)
  <2>1. \A k \in Spots : In(k, a) <=> k = here
    BY <1>2, AtIn
  <2>2. Due(a) <=> \E k \in Spots : In(k, a)
    BY <1>2, <2>1, SpotKinds
  <2> QED BY <1>2, <2>1, <2>2 DEF StructKept, Once
<1> QED BY <1>1, <1>2 DEF StructKept, Once

(* The same in the next state. *)
KeptOf(a) == StructKept(a) <=> /\ Once(a)
                               /\ \E here \in Spots \cup {Nowhere} :
                                    At(a, here) /\ (Due(a) <=> here # Nowhere)

LEMMA KeptNext ==
  ASSUME NEW CONSTANT a
  PROVE  KeptOf(a)'
<1>1. KeptOf(a)
  BY Kept DEF KeptOf
<1> QED BY <1>1, PTL

LEMMA KeptAt ==
  ASSUME NEW CONSTANT a, NEW CONSTANT here \in Spots \cup {Nowhere}, At(a, here)',
         Due(a)' <=> here # Nowhere, Once(a)'
  PROVE  StructKept(a)'
BY KeptNext DEF KeptOf, Spots, Nowhere

LEMMA Whereabouts ==
  ASSUME MemInv, NEW a \in Struct
  PROVE  /\ Once(a)
         /\ \E here \in Spots \cup {Nowhere} : At(a, here) /\ (Due(a) <=> here # Nowhere)
BY Kept DEF MemInv

-----------------------------------------------------------------------------
(* A payload stays, is with a VM, is with a message, or is with none.      *)

LEMMA BlockSame ==
  ASSUME NEW b, BlockKept(b), \A s \in VM : b \in vm'[s] <=> b \in vm[s],
         b \in block' <=> b \in block, b \in lost' <=> b \in lost,
         \A a \in Struct : Carries(a, b)' <=> Carries(a, b)
  PROVE  BlockKept(b)'
BY DEF BlockKept

LEMMA BlockGone ==
  ASSUME NEW b, \A s \in VM : b \notin vm'[s], \A a \in Struct : ~Carries(a, b)',
         b \in block' <=> b \in lost'
  PROVE  BlockKept(b)'
BY DEF BlockKept

LEMMA BlockWithVM ==
  ASSUME NEW b, NEW v \in VM, \A s \in VM : b \in vm'[s] <=> s = v,
         \A a \in Struct : ~Carries(a, b)', b \in block', b \notin lost'
  PROVE  BlockKept(b)'
BY DEF BlockKept

LEMMA BlockWithMessage ==
  ASSUME NEW b, NEW m \in Struct, \A s \in VM : b \notin vm'[s],
         \A a \in Struct : Carries(a, b)' <=> a = m, b \in block', b \notin lost'
  PROVE  BlockKept(b)'
BY DEF BlockKept

(* Who has a payload has it alone. *)
LEMMA VMAlone ==
  ASSUME MemInv, NEW b \in Block, NEW v \in VM, b \in vm[v]
  PROVE  /\ \A s \in VM : b \in vm[s] <=> s = v
         /\ \A a \in Struct : ~Carries(a, b)
         /\ b \in block /\ b \notin lost
<1>1. BlockKept(b)
  BY DEF MemInv
<1> QED BY <1>1 DEF BlockKept

LEMMA MessageAlone ==
  ASSUME MemInv, NEW b \in Block, NEW m \in Struct, Carries(m, b)
  PROVE  /\ \A s \in VM : b \notin vm[s]
         /\ \A a \in Struct : Carries(a, b) <=> a = m
         /\ b \in block /\ b \notin lost
<1>1. BlockKept(b)
  BY DEF MemInv
<1> QED BY <1>1 DEF BlockKept

LEMMA Nobodys ==
  ASSUME MemInv, NEW b \in Block, b \notin block \/ b \in lost
  PROVE  /\ \A s \in VM : b \notin vm[s]
         /\ \A a \in Struct : ~Carries(a, b)
         /\ b \in lost => b \in block
<1>1. BlockKept(b)
  BY DEF MemInv
<1> QED BY <1>1 DEF BlockKept

LEMMA NullApart ==
  ASSUME MemInv
  PROVE  NULL \notin Block /\ NULL \notin Struct /\ Unallocated \notin Message
BY DEF MemInv, MemoryAssumption

(* The payloads of messages. *)
LEMMA PayloadCarried ==
  ASSUME MemInv, NEW A \in SUBSET Struct, NEW b \in Block
  PROVE  b \in Payload(A) <=> \E a \in A : Carries(a, b)
<1>1. b # NULL
  BY NullApart
<1>2. b \in Payload(A) <=> \E a \in {c \in A : heap[c] # Unallocated} : heap[a].msg = b
  BY <1>1 DEF Payload
<1> QED BY <1>2 DEF Carries

LEMMA PayloadType ==
  ASSUME MemoryTypeOK, NEW A \in SUBSET Struct
  PROVE  Payload(A) \subseteq Block
BY DEF Payload, MemoryTypeOK, Message

(* Messages are deleted with their payloads, and VMs are closed, which loses
   what they have. *)
LEMMA Deletes ==
  ASSUME MemInv, NEW A \in SUBSET Struct, NEW V \in SUBSET VM, NEW b \in Block,
         \A a \in Struct : Carries(a, b)' <=> Carries(a, b) /\ a \notin A,
         block' = block \ Payload(A),
         \A s \in VM : vm'[s] = IF s \in V THEN {} ELSE vm[s],
         b \in lost' <=> b \in lost \/ \E s \in V : b \in vm[s]
  PROVE  BlockKept(b)'
<1>1. CASE \E s \in V : b \in vm[s]
  <2>1. PICK s \in V : b \in vm[s]
    BY <1>1
  <2>2. /\ \A u \in VM : b \in vm[u] <=> u = s
        /\ \A a \in Struct : ~Carries(a, b)
        /\ b \in block
    BY <2>1, VMAlone
  <2>3. b \in block' /\ b \in lost'
    BY <2>1, <2>2, PayloadCarried
  <2>4. \A u \in VM : b \notin vm'[u]
    BY <2>1, <2>2
  <2> QED BY <2>2, <2>3, <2>4, BlockGone
<1>2. CASE \E a \in A : Carries(a, b)
  <2>1. PICK a \in A : Carries(a, b)
    BY <1>2
  <2>2. /\ \A s \in VM : b \notin vm[s]
        /\ \A c \in Struct : Carries(c, b) <=> c = a
        /\ b \in block /\ b \notin lost
    BY <2>1, MessageAlone
  <2>3. b \notin block' /\ b \notin lost'
    BY <1>2, <2>2, PayloadCarried
  <2>4. \A u \in VM : b \notin vm'[u]
    BY <2>2
  <2>5. \A c \in Struct : ~Carries(c, b)'
    BY <2>1, <2>2
  <2> QED BY <2>3, <2>4, <2>5, BlockGone
<1>3. CASE ~(\E s \in V : b \in vm[s]) /\ ~(\E a \in A : Carries(a, b))
  <2>1. BlockKept(b)
    BY DEF MemInv
  <2>2. b \in block' <=> b \in block
    BY <1>3, PayloadCarried
  <2>3. \A s \in VM : b \in vm'[s] <=> b \in vm[s]
    BY <1>3
  <2>4. \A a \in Struct : Carries(a, b)' <=> Carries(a, b)
    BY <1>3
  <2> QED BY <1>3, <2>1, <2>2, <2>3, <2>4, BlockSame
<1> QED BY <1>1, <1>2, <1>3

(* A VM frees a payload. *)
LEMMA Frees ==
  ASSUME MemInv, NEW v \in VM, NEW p \in vm[v] \cup {NULL}, NEW b \in Block,
         heap' = heap, block' = block \ {p}, vm' = [vm EXCEPT ![v] = @ \ {p}],
         lost' = lost
  PROVE  BlockKept(b)'
<1>1. \A a \in Struct : Carries(a, b)' <=> Carries(a, b)
  BY DEF Carries
<1>2. vm \in [VM -> SUBSET Block]
  BY DEF MemInv, MemoryTypeOK
<1>3. CASE b = p
  <2>1. p \in vm[v]
    BY <1>3, NullApart
  <2>2. /\ \A s \in VM : b \in vm[s] <=> s = v
        /\ \A a \in Struct : ~Carries(a, b)
        /\ b \in block /\ b \notin lost
    BY <1>3, <2>1, VMAlone
  <2> QED BY <1>1, <1>2, <1>3, <2>2, BlockGone
<1>4. CASE b # p
  <2>1. BlockKept(b)
    BY DEF MemInv
  <2> QED BY <1>1, <1>2, <1>4, <2>1, BlockSame
<1> QED BY <1>3, <1>4

(* A VM gives a payload to a new message. *)
LEMMA Gives ==
  ASSUME MemInv, NEW v \in VM, NEW p \in vm[v] \cup {NULL}, NEW b \in Block,
         NEW m \in Struct, heap[m] = Unallocated,
         \A a \in Struct \ {m} : heap'[a] = heap[a],
         heap'[m] \in Message, heap'[m].msg = p,
         block' = block, vm' = [vm EXCEPT ![v] = @ \ {p}], lost' = lost
  PROVE  BlockKept(b)'
<1>1. \A a \in Struct \ {m} : Carries(a, b)' <=> Carries(a, b)
  BY DEF Carries
<1>2. vm \in [VM -> SUBSET Block]
  BY DEF MemInv, MemoryTypeOK
<1>3. ~Carries(m, b) /\ (Carries(m, b)' <=> b = p)
  BY NullApart DEF Carries
<1>4. CASE b = p
  <2>1. p \in vm[v]
    BY <1>4, NullApart
  <2>2. /\ \A s \in VM : b \in vm[s] <=> s = v
        /\ \A a \in Struct : ~Carries(a, b)
        /\ b \in block /\ b \notin lost
    BY <1>4, <2>1, VMAlone
  <2>3. \A a \in Struct : Carries(a, b)' <=> a = m
    BY <1>1, <1>3, <1>4, <2>2
  <2>4. \A s \in VM : b \notin vm'[s]
    BY <1>2, <1>4, <2>2
  <2> QED BY <2>2, <2>3, <2>4, BlockWithMessage
<1>5. CASE b # p
  <2>1. BlockKept(b)
    BY DEF MemInv
  <2>2. \A a \in Struct : Carries(a, b)' <=> Carries(a, b)
    BY <1>1, <1>3, <1>5
  <2> QED BY <1>2, <1>5, <2>1, <2>2, BlockSame
<1> QED BY <1>4, <1>5

(* A VM takes the payload out of a message. *)
LEMMA Takes ==
  ASSUME MemInv, NEW v \in VM, NEW b \in Block, NEW m \in Struct, heap[m] \in Message,
         heap' = [a \in Struct |-> IF a \in {m} THEN Unallocated ELSE heap[a]],
         block' = block, vm' = [vm EXCEPT ![v] = @ \cup Payload({m})], lost' = lost
  PROVE  BlockKept(b)'
<1>1. \A a \in Struct : Carries(a, b)' <=> Carries(a, b) /\ a # m
  BY DEF Carries
<1>2. vm \in [VM -> SUBSET Block]
  BY DEF MemInv, MemoryTypeOK
<1>3. b \in Payload({m}) <=> Carries(m, b)
  BY PayloadCarried
<1>4. CASE Carries(m, b)
  <2>2. /\ \A s \in VM : b \notin vm[s]
        /\ \A c \in Struct : Carries(c, b) <=> c = m
        /\ b \in block /\ b \notin lost
    BY <1>4, MessageAlone
  <2>3. \A s \in VM : b \in vm'[s] <=> s = v
    BY <1>2, <1>3, <1>4, <2>2
  <2> QED BY <1>1, <2>2, <2>3, BlockWithVM
<1>5. CASE ~Carries(m, b)
  <2>1. BlockKept(b)
    BY DEF MemInv
  <2>2. \A a \in Struct : Carries(a, b)' <=> Carries(a, b)
    BY <1>1, <1>5
  <2> QED BY <1>2, <1>3, <1>5, <2>1, <2>2, BlockSame
<1> QED BY <1>4, <1>5
-----------------------------------------------------------------------------
(* One message moves or is freed, or a new one comes; the services of `drop'
   lose the message that was handed back before, those of `gone' the one that
   is out.                                                                  *)

LEMMA SlotTypes ==
  ASSUME MemoryTypeOK, NEW s \in Service
  PROVE  /\ slot[s].status \in {"none", "new", "alive", "dead"}
         /\ slot[s].queue \in Seq(Struct)
         /\ slot[s].out \in Struct \cup {NULL} /\ slot[s].bounce \in Struct \cup {NULL}
         /\ slot[s].receipt \in {"none", "done", "error", "block", "response"}
BY DEF MemoryTypeOK, ServiceSlot

LEMMA StructsSame ==
  ASSUME MemInv,
         \A s \in Service : /\ slot'[s].out = slot[s].out /\ slot'[s].bounce = slot[s].bounce
                            /\ slot'[s].queue = slot[s].queue,
         sending' = sending, \A a \in Struct : Due(a)' <=> Due(a)
  PROVE  \A a \in Struct : StructKept(a)'
<1> SUFFICES ASSUME NEW a \in Struct
             PROVE  StructKept(a)'
  OBVIOUS
<1>1. PICK here \in Spots \cup {Nowhere} : At(a, here) /\ (Due(a) <=> here # Nowhere)
  BY Whereabouts
<1>2. Once(a)
  BY Whereabouts
<1>3. Once(a)'
  BY <1>2 DEF Once
<1>4. At(a, here)'
  BY <1>1 DEF At
<1> QED BY <1>1, <1>3, <1>4, KeptAt

Moves(m, from, to, drop, gone) ==
  /\ At(m, from)
  /\ \A s \in Service :
       /\ slot'[s].out = IF to = <<"out", s>> THEN m
                         ELSE IF from = <<"out", s>> \/ s \in gone THEN NULL
                         ELSE slot[s].out
       /\ slot'[s].bounce = IF to = <<"bounce", s>> THEN m
                            ELSE IF from = <<"bounce", s>> \/ s \in drop THEN NULL
                            ELSE slot[s].bounce
       /\ slot'[s].queue = IF to = <<"queue", s>> THEN Append(slot[s].queue, m)
                           ELSE IF from = <<"queue", s>> THEN Tail(slot[s].queue)
                           ELSE slot[s].queue
       /\ to = <<"out", s>> => s \in gone \/ slot[s].out = NULL
       /\ to = <<"bounce", s>> => s \in drop \/ slot[s].bounce = NULL
       /\ from = <<"queue", s>> => slot[s].queue # <<>> /\ Head(slot[s].queue) = m
                                     /\ to # from
  /\ \A x \in Exclusive :
       /\ sending'[x] = IF from = <<"sending", x>>
                        THEN IF to = from THEN Append(Tail(sending[x]), m) ELSE Tail(sending[x])
                        ELSE IF to = <<"sending", x>> THEN Append(sending[x], m)
                        ELSE sending[x]
       /\ from = <<"sending", x>> => sending[x] # <<>> /\ Head(sending[x]) = m
  /\ \A a \in Struct \ {m} :
       Due(a)' <=> /\ Due(a)
                   /\ \A s \in drop : slot[s].bounce # a
                   /\ \A s \in gone : slot[s].out # a
  /\ Due(m)' <=> to # Nowhere

LEMMA StructMoves ==
  ASSUME MemInv, NEW m \in Struct,
         NEW from \in Spots \cup {Nowhere}, NEW to \in Spots \cup {Nowhere},
         NEW drop \in SUBSET Service, NEW gone \in SUBSET Service,
         Moves(m, from, to, drop, gone)
  PROVE  \A a \in Struct : StructKept(a)'
<1> USE DEF Moves
<1>t. MemoryTypeOK /\ NULL \notin Struct
  BY NullApart DEF MemInv
<1>m. Once(m)
  BY Whereabouts
<1>1. StructKept(m)'
  <2>1. ASSUME NEW s \in Service
        PROVE  /\ slot'[s].out = m <=> to = <<"out", s>>
               /\ slot'[s].bounce = m <=> to = <<"bounce", s>>
    BY <1>t DEF At
  <2>2. ASSUME NEW s \in Service
        PROVE  (InQ(slot'[s].queue, m) <=> to = <<"queue", s>>) /\ OnceQ(slot'[s].queue, m)
    <3>1. slot[s].queue \in Seq(Struct) /\ OnceQ(slot[s].queue, m)
      BY <1>t, <1>m, SlotTypes DEF Once
    <3>2. InQ(slot[s].queue, m) <=> from = <<"queue", s>>
      BY DEF At
    <3>3. CASE to = <<"queue", s>>
      BY <3>1, <3>2, <3>3, Appended
    <3>4. CASE to # <<"queue", s>> /\ from = <<"queue", s>>
      BY <3>1, <3>2, <3>4, Dropped
    <3>5. CASE to # <<"queue", s>> /\ from # <<"queue", s>>
      BY <3>1, <3>2, <3>5
    <3> QED BY <3>3, <3>4, <3>5
  <2>3. ASSUME NEW x \in Exclusive
        PROVE  (InQ(sending'[x], m) <=> to = <<"sending", x>>) /\ OnceQ(sending'[x], m)
    <3>1. sending[x] \in Seq(Struct) /\ OnceQ(sending[x], m)
      BY <1>t, <1>m DEF Once, MemoryTypeOK
    <3>2. InQ(sending[x], m) <=> from = <<"sending", x>>
      BY DEF At
    <3>3. CASE to = <<"sending", x>> /\ from # <<"sending", x>>
      BY <3>1, <3>2, <3>3, Appended
    <3>4. CASE from = <<"sending", x>>
      <4>1. /\ Tail(sending[x]) \in Seq(Struct) /\ ~InQ(Tail(sending[x]), m)
            /\ OnceQ(Tail(sending[x]), m)
        BY <3>1, <3>4, Dropped
      <4>2. /\ InQ(Append(Tail(sending[x]), m), m)
            /\ OnceQ(Append(Tail(sending[x]), m), m)
        BY <4>1, Appended
      <4> QED BY <3>4, <4>1, <4>2
    <3>5. CASE to # <<"sending", x>> /\ from # <<"sending", x>>
      BY <3>1, <3>2, <3>5
    <3> QED BY <3>3, <3>4, <3>5
  <2>4. At(m, to)'
    BY <2>1, <2>2, <2>3 DEF At
  <2>5. Once(m)'
    BY <2>2, <2>3 DEF Once
  <2> QED BY <2>4, <2>5, KeptAt
<1>2. ASSUME NEW a \in Struct, a # m
      PROVE  StructKept(a)'
  <2>a. Once(a)
    BY Whereabouts
  <2>1. PICK here \in Spots \cup {Nowhere} : At(a, here) /\ (Due(a) <=> here # Nowhere)
    BY Whereabouts
  <2>2. ASSUME NEW s \in Service
        PROVE  (InQ(slot'[s].queue, a) <=> InQ(slot[s].queue, a)) /\ OnceQ(slot'[s].queue, a)
    <3>1. slot[s].queue \in Seq(Struct) /\ OnceQ(slot[s].queue, a)
      BY <1>t, <2>a, SlotTypes DEF Once
    <3>3. CASE to = <<"queue", s>>
      BY <1>2, <3>1, <3>3, Appended
    <3>4. CASE to # <<"queue", s>> /\ from = <<"queue", s>>
      BY <1>2, <3>1, <3>4, Dropped
    <3>5. CASE to # <<"queue", s>> /\ from # <<"queue", s>>
      BY <3>1, <3>5
    <3> QED BY <3>3, <3>4, <3>5
  <2>3. ASSUME NEW x \in Exclusive
        PROVE  (InQ(sending'[x], a) <=> InQ(sending[x], a)) /\ OnceQ(sending'[x], a)
    <3>1. sending[x] \in Seq(Struct) /\ OnceQ(sending[x], a)
      BY <1>t, <2>a DEF Once, MemoryTypeOK
    <3>3. CASE to = <<"sending", x>> /\ from # <<"sending", x>>
      BY <1>2, <3>1, <3>3, Appended
    <3>4. CASE from = <<"sending", x>>
      <4>1. /\ Tail(sending[x]) \in Seq(Struct)
            /\ InQ(Tail(sending[x]), a) <=> InQ(sending[x], a)
            /\ OnceQ(Tail(sending[x]), a)
        BY <1>2, <3>1, <3>4, Dropped
      <4>2. /\ InQ(Append(Tail(sending[x]), m), a) <=> InQ(Tail(sending[x]), a) \/ a = m
            /\ OnceQ(Tail(sending[x]), a) /\ (a # m \/ ~InQ(Tail(sending[x]), a))
                 => OnceQ(Append(Tail(sending[x]), m), a)
        BY <4>1, Appended
      <4>3. /\ InQ(Append(Tail(sending[x]), m), a) <=> InQ(sending[x], a)
            /\ OnceQ(Append(Tail(sending[x]), m), a)
        BY <1>2, <4>1, <4>2
      <4> QED BY <3>4, <4>1, <4>3
    <3>5. CASE to # <<"sending", x>> /\ from # <<"sending", x>>
      BY <3>1, <3>5
    <3> QED BY <3>3, <3>4, <3>5
  <2>4. Once(a)'
    BY <2>2, <2>3 DEF Once
  <2>5. CASE \E s \in drop : slot[s].bounce = a
    <3>1. PICK s \in drop : slot[s].bounce = a
      BY <2>5
    <3>2. here = <<"bounce", s>>
      BY <2>1, <3>1 DEF At
    <3>3. At(a, Nowhere)'
      BY <1>t, <1>2, <2>1, <2>2, <2>3, <3>1, <3>2 DEF At, Nowhere
    <3> QED BY <1>2, <2>4, <2>5, <3>3, KeptAt
  <2>6. CASE \E s \in gone : slot[s].out = a
    <3>1. PICK s \in gone : slot[s].out = a
      BY <2>6
    <3>2. here = <<"out", s>>
      BY <2>1, <3>1 DEF At
    <3>3. At(a, Nowhere)'
      BY <1>t, <1>2, <2>1, <2>2, <2>3, <3>1, <3>2 DEF At, Nowhere
    <3> QED BY <1>2, <2>4, <2>6, <3>3, KeptAt
  <2>7. CASE (\A s \in drop : slot[s].bounce # a) /\ (\A s \in gone : slot[s].out # a)
    <3>1. ASSUME NEW s \in Service
          PROVE  /\ slot'[s].out = a <=> slot[s].out = a
                 /\ slot'[s].bounce = a <=> slot[s].bounce = a
      BY <1>t, <1>2, <2>7 DEF At
    <3>2. At(a, here)'
      BY <2>1, <2>2, <2>3, <3>1 DEF At
    <3>3. Due(a)' <=> Due(a)
      BY <1>2, <2>7
    <3> QED BY <2>1, <2>4, <3>2, <3>3, KeptAt
  <2> QED BY <2>5, <2>6, <2>7
<1> QED BY <1>1, <1>2
-----------------------------------------------------------------------------
(* The steps that neither make, hand over nor free a message.              *)

LEMMA BlocksSame ==
  ASSUME MemInv, heap' = heap, block' = block, vm' = vm, lost' = lost
  PROVE  \A b \in Block : BlockKept(b)'
<1> SUFFICES ASSUME NEW b \in Block
             PROVE  BlockKept(b)'
  OBVIOUS
<1>1. BlockKept(b)
  BY DEF MemInv
<1>2. \A a \in Struct : Carries(a, b)' <=> Carries(a, b)
  BY DEF Carries
<1> QED BY <1>1, <1>2, BlockSame

LEMMA HeapSame ==
  ASSUME MemInv, heap' = heap, lost' = lost
  PROVE  /\ \A a \in Struct : Due(a)' <=> Due(a)
         /\ LostOK'
         /\ sending' = sending => \A x \in Exclusive : SendingKept(x)'
         /\ phase' # "end" => Ended'
<1>1. \A a \in Struct : Due(a)' <=> Due(a)
  BY DEF Due
<1>2. LostOK'
  BY DEF LostOK, MemInv
<1>3. sending' = sending => \A x \in Exclusive : SendingKept(x)'
  BY DEF SendingKept, MemInv
<1>4. phase' # "end" => Ended'
  BY DEF Ended
<1> QED BY <1>1, <1>2, <1>3, <1>4

LEMMA PackKept ==
  ASSUME MemInv, NEW s \in VM, NEW b \in Block, Pack(s, b)
  PROVE  MemInv'
<1>p. phase' # "end"
  BY DEF Pack, Runs
<1>t. MemoryTypeOK'
  BY DEF Pack, MemInv, MemoryTypeOK
<1>1. \A a \in Struct : StructKept(a)'
  BY HeapSame, StructsSame DEF Pack
<1>2. ASSUME NEW c \in Block
      PROVE  BlockKept(c)'
  <2>1. \A a \in Struct : Carries(a, c)' <=> Carries(a, c)
    BY DEF Pack, Carries
  <2>2. vm \in [VM -> SUBSET Block]
    BY DEF MemInv, MemoryTypeOK
  <2>3. CASE c = b
    <3>1. /\ \A u \in VM : c \notin vm[u]
          /\ \A a \in Struct : ~Carries(a, c)
          /\ c \notin lost
      BY <2>3, Nobodys DEF Pack
    <3>2. \A u \in VM : c \in vm'[u] <=> u = s
      BY <2>2, <2>3, <3>1 DEF Pack
    <3>3. c \in block' /\ c \notin lost'
      BY <2>3, <3>1 DEF Pack
    <3> QED BY <2>1, <3>1, <3>2, <3>3, BlockWithVM
  <2>4. CASE c # b
    <3>1. BlockKept(c)
      BY DEF MemInv
    <3>2. \A u \in VM : c \in vm'[u] <=> c \in vm[u]
      BY <2>2, <2>4 DEF Pack
    <3> QED BY <2>1, <2>4, <3>1, <3>2, BlockSame DEF Pack
  <2> QED BY <2>3, <2>4
<1>3. ASSUME NEW u \in Service
      PROVE  SlotKept(u)'
  BY DEF Pack, MemInv, SlotKept
<1>4. LostOK' /\ Ended' /\ \A x \in Exclusive : SendingKept(x)'
  BY <1>p, HeapSame DEF Pack
<1> QED BY <1>t, <1>1, <1>2, <1>3, <1>4 DEF MemInv

LEMMA RemoveKept ==
  ASSUME MemInv, NEW s \in Service, NEW b \in Block, Remove(s, b)
  PROVE  MemInv'
<1>p. phase' # "end" /\ s \in VM
  BY DEF Remove, Runs, VM
<1>t. MemoryTypeOK'
  BY DEF Remove, MemInv, MemoryTypeOK
<1>1. \A a \in Struct : StructKept(a)'
  BY HeapSame, StructsSame DEF Remove
<1>2. ASSUME NEW c \in Block
      PROVE  BlockKept(c)'
  <2>1. /\ b \in vm[s] \cup {NULL} /\ heap' = heap /\ block' = block \ {b}
        /\ vm' = [vm EXCEPT ![s] = @ \ {b}] /\ lost' = lost
    BY DEF Remove
  <2> QED BY <1>p, <2>1, Frees
<1>3. ASSUME NEW u \in Service
      PROVE  SlotKept(u)'
  BY DEF Remove, MemInv, SlotKept
<1>4. LostOK' /\ Ended' /\ \A x \in Exclusive : SendingKept(x)'
  BY <1>p, HeapSame DEF Remove
<1> QED BY <1>t, <1>1, <1>2, <1>3, <1>4 DEF MemInv

LEMMA QuitRootKept ==
  ASSUME MemInv, QuitRoot
  PROVE  MemInv'
<1>r. Root \in Service /\ phase' # "end"
  BY DEF MemInv, MemoryAssumption, QuitRoot, Runs
<1>s. MemoryTypeOK /\ slot \in [Service -> ServiceSlot] /\ \A u \in Service : SlotKept(u)
  BY DEF MemInv, MemoryTypeOK
<1>t. MemoryTypeOK'
  BY <1>s DEF QuitRoot, MemoryTypeOK, ServiceSlot
<1>f. \A u \in Service : /\ slot'[u].out = slot[u].out /\ slot'[u].bounce = slot[u].bounce
                         /\ slot'[u].queue = slot[u].queue
                         /\ slot'[u].receipt = slot[u].receipt
                         /\ slot'[u].status = IF u = Root THEN "dead" ELSE slot[u].status
                         /\ u # Root => slot'[u] = slot[u]
  BY <1>s DEF QuitRoot, ServiceSlot
<1>1. \A a \in Struct : StructKept(a)'
  BY <1>f, HeapSame, StructsSame DEF QuitRoot
<1>2. \A b \in Block : BlockKept(b)'
  BY BlocksSame DEF QuitRoot
<1>3. ASSUME NEW u \in Service
      PROVE  SlotKept(u)'
  BY <1>s, <1>f DEF QuitRoot, SlotKept
<1>4. LostOK' /\ Ended' /\ \A x \in Exclusive : SendingKept(x)'
  BY <1>r, HeapSame DEF QuitRoot
<1> QED BY <1>t, <1>1, <1>2, <1>3, <1>4 DEF MemInv

LEMMA InitServiceKept ==
  ASSUME MemInv, NEW s \in Service, InitService(s)
  PROVE  MemInv'
<1>r. phase' # "end"
  BY DEF InitService, Runs
<1>s. MemoryTypeOK /\ slot \in [Service -> ServiceSlot] /\ \A u \in Service : SlotKept(u)
  BY DEF MemInv, MemoryTypeOK
<1>d. PICK st \in {"alive", "none"} : slot' = [slot EXCEPT ![s].status = st]
  BY DEF InitService
<1>e. slot[s] = EmptySlot("new")
  BY <1>s DEF InitService, SlotKept
<1>t. MemoryTypeOK'
  <2>1. slot' \in [Service -> ServiceSlot]
    BY <1>s, <1>d DEF ServiceSlot
  <2> QED BY <1>s, <2>1 DEF InitService, MemoryTypeOK
<1>f. \A u \in Service : /\ slot'[u].out = slot[u].out /\ slot'[u].bounce = slot[u].bounce
                         /\ slot'[u].queue = slot[u].queue
                         /\ slot'[u].receipt = slot[u].receipt
                         /\ slot'[u].status = IF u = s THEN st ELSE slot[u].status
                         /\ u # s => slot'[u] = slot[u]
  BY <1>s, <1>d DEF ServiceSlot
<1>1. \A a \in Struct : StructKept(a)'
  BY <1>f, HeapSame, StructsSame DEF InitService
<1>2. \A b \in Block : BlockKept(b)'
  BY BlocksSame DEF InitService
<1>3. ASSUME NEW u \in Service
      PROVE  SlotKept(u)'
  <2>1. CASE u # s
    BY <1>s, <1>f, <2>1 DEF InitService, SlotKept
  <2>2. CASE u = s
    <3>1. slot'[s] = EmptySlot(st)
      BY <1>s, <1>d, <1>e DEF EmptySlot, ServiceSlot
    <3> QED BY <2>2, <3>1 DEF SlotKept, EmptySlot
  <2> QED BY <2>1, <2>2
<1>4. LostOK' /\ Ended' /\ \A x \in Exclusive : SendingKept(x)'
  BY <1>r, HeapSame DEF InitService
<1> QED BY <1>t, <1>1, <1>2, <1>3, <1>4 DEF MemInv

LEMMA NewServiceKept ==
  ASSUME MemInv, NEW s \in Service, NewService(s)
  PROVE  MemInv'
<1>r. phase' # "end"
  BY DEF NewService
<1>s. MemoryTypeOK /\ slot \in [Service -> ServiceSlot] /\ \A u \in Service : SlotKept(u)
  BY DEF MemInv, MemoryTypeOK
<1>e. slot[s] = EmptySlot("none")
  BY <1>s DEF NewService, SlotKept, Exists
<1>t. MemoryTypeOK'
  BY <1>s DEF NewService, MemoryTypeOK, ServiceSlot
<1>f. \A u \in Service : /\ slot'[u].out = slot[u].out /\ slot'[u].bounce = slot[u].bounce
                         /\ slot'[u].queue = slot[u].queue
                         /\ slot'[u].receipt = slot[u].receipt
                         /\ slot'[u].status = IF u = s THEN "alive" ELSE slot[u].status
                         /\ u # s => slot'[u] = slot[u]
  BY <1>s DEF NewService, ServiceSlot
<1>1. \A a \in Struct : StructKept(a)'
  BY <1>f, HeapSame, StructsSame DEF NewService
<1>2. \A b \in Block : BlockKept(b)'
  BY BlocksSame DEF NewService
<1>3. ASSUME NEW u \in Service
      PROVE  SlotKept(u)'
  <2>1. CASE u # s
    BY <1>s, <1>f, <2>1 DEF NewService, SlotKept
  <2>2. CASE u = s
    BY <1>e, <1>f, <2>2 DEF SlotKept, EmptySlot
  <2> QED BY <2>1, <2>2
<1>4. LostOK' /\ Ended' /\ \A x \in Exclusive : SendingKept(x)'
  BY <1>r, HeapSame DEF NewService
<1> QED BY <1>t, <1>1, <1>2, <1>3, <1>4 DEF MemInv

LEMMA NewThreadKept ==
  ASSUME MemInv, NEW x \in Exclusive, NewThread(x)
  PROVE  MemInv'
<1>r. phase' # "end"
  BY DEF NewThread
<1>t. MemoryTypeOK'
  BY DEF NewThread, MemInv, MemoryTypeOK
<1>1. \A a \in Struct : StructKept(a)'
  BY HeapSame, StructsSame DEF NewThread
<1>2. \A b \in Block : BlockKept(b)'
  BY BlocksSame DEF NewThread
<1>3. ASSUME NEW u \in Service
      PROVE  SlotKept(u)'
  BY DEF NewThread, MemInv, SlotKept
<1>4. LostOK' /\ Ended' /\ \A y \in Exclusive : SendingKept(y)'
  BY <1>r, HeapSame DEF NewThread
<1> QED BY <1>t, <1>1, <1>2, <1>3, <1>4 DEF MemInv

LEMMA RunKept ==
  ASSUME MemInv, Run
  PROVE  MemInv'
<1>r. phase' # "end"
  BY DEF Run
<1>t. MemoryTypeOK'
  BY DEF Run, MemInv, MemoryTypeOK
<1>1. \A a \in Struct : StructKept(a)'
  BY HeapSame, StructsSame DEF Run
<1>2. \A b \in Block : BlockKept(b)'
  BY BlocksSame DEF Run
<1>3. ASSUME NEW u \in Service
      PROVE  SlotKept(u)'
  BY DEF Run, MemInv, SlotKept
<1>4. LostOK' /\ Ended' /\ \A y \in Exclusive : SendingKept(y)'
  BY <1>r, HeapSame DEF Run
<1> QED BY <1>t, <1>1, <1>2, <1>3, <1>4 DEF MemInv
-----------------------------------------------------------------------------
(* The steps that make a message.                                          *)

(* What lasts of the heap. *)
LEMMA FreeAddress ==
  ASSUME MemInv, NEW m \in Struct, heap[m] = Unallocated
  PROVE  /\ m \notin lost /\ At(m, Nowhere)
         /\ \A s \in Service : slot[s].out # m /\ slot[s].bounce # m
<1>1. ~Due(m)
  BY DEF Due
<1>2. At(m, Nowhere)
  BY <1>1, Whereabouts
<1>3. m \notin lost
  BY DEF MemInv, LostOK
<1> QED BY <1>2, <1>3 DEF At, Nowhere

LEMMA PointedDue ==
  ASSUME MemInv, NEW a \in Struct
  PROVE  /\ \A s \in Service : slot[s].out = a \/ slot[s].bounce = a \/ InQ(slot[s].queue, a)
                                 => Due(a)
         /\ \A x \in Exclusive : InQ(sending[x], a) => Due(a)
<1>1. PICK here \in Spots \cup {Nowhere} : At(a, here) /\ (Due(a) <=> here # Nowhere)
  BY Whereabouts
<1> QED BY <1>1 DEF At, Nowhere

LEMMA SlotStays ==
  ASSUME MemInv, NEW s \in Service, slot'[s].status = slot[s].status,
         slot'[s].out = slot[s].out,
         slot'[s].receipt = "none" => slot'[s].bounce = NULL,
         slot[s].status \in {"none", "new"} => slot'[s] = slot[s],
         slot[s].out # NULL /\ Due(slot[s].out) => heap'[slot[s].out].type = heap[slot[s].out].type
  PROVE  SlotKept(s)'
<1>1. SlotKept(s) /\ MemoryTypeOK
  BY DEF MemInv
<1>2. slot[s].out # NULL => Due(slot[s].out)
  BY <1>1, SlotTypes, PointedDue
<1> QED BY <1>1, <1>2 DEF SlotKept

LEMMA SendingStays ==
  ASSUME MemInv, NEW x \in Exclusive, sending'[x] = sending[x],
         \A a \in Struct : InQ(sending[x], a) => heap'[a] = heap[a]
  PROVE  SendingKept(x)'
<1>1. SendingKept(x) /\ sending[x] \in Seq(Struct)
  BY DEF MemInv, MemoryTypeOK
<1>2. \A i \in DOMAIN sending[x] : sending[x][i] \in Struct /\ InQ(sending[x], sending[x][i])
  BY <1>1 DEF InQ
<1> QED BY <1>1, <1>2 DEF SendingKept

LEMMA SendMessageKept ==
  ASSUME MemInv, NEW s \in Service, NEW m \in Struct, NEW to \in Service \cup {System},
         NEW type \in {"mail", "signal", "new", "del", "hang"}, NEW p \in Block \cup {NULL},
         SendMessage(s, m, to, type, p)
  PROVE  MemInv'
<1>p. phase' # "end" /\ s \in VM /\ p \in vm[s] \cup {NULL} /\ heap[m] = Unallocated
      /\ slot[s].status = "alive" /\ lost' = lost /\ vm' = [vm EXCEPT ![s] = @ \ {p}]
  BY DEF SendMessage, Runs, VM, Alive
<1>s. MemoryTypeOK /\ slot \in [Service -> ServiceSlot] /\ heap \in [Struct -> Message \cup {Unallocated}]
      /\ \A u \in Service : SlotKept(u)
  BY DEF MemInv, MemoryTypeOK
<1>n. NULL \notin Struct /\ Unallocated \notin Message
  BY NullApart
<1>a. CASE slot[s].out = NULL
  <2>h. /\ heap' = [heap EXCEPT ![m] = [to |-> to, type |-> type, msg |-> p]]
        /\ slot' = [slot EXCEPT ![s].out = m] /\ block' = block /\ sending' = sending
    BY <1>a DEF SendMessage, New
  <2>m. heap'[m] = [to |-> to, type |-> type, msg |-> p] /\ heap'[m] \in Message
        /\ \A a \in Struct \ {m} : heap'[a] = heap[a]
    BY <1>s, <2>h DEF Message
  <2>t. MemoryTypeOK'
    <3>1. heap' \in [Struct -> Message \cup {Unallocated}]
      BY <1>s, <2>h, <2>m
    <3>2. slot' \in [Service -> ServiceSlot]
      BY <1>s, <2>h DEF ServiceSlot
    <3>3. vm' \in [VM -> SUBSET Block]
      BY <1>s, <1>p DEF MemoryTypeOK
    <3> QED BY <1>s, <1>p, <2>h, <3>1, <3>2, <3>3 DEF SendMessage, MemoryTypeOK
  <2>f. \A u \in Service : /\ slot'[u].out = IF u = s THEN m ELSE slot[u].out
                           /\ slot'[u].bounce = slot[u].bounce
                           /\ slot'[u].queue = slot[u].queue
                           /\ slot'[u].receipt = slot[u].receipt
                           /\ slot'[u].status = slot[u].status
                           /\ u # s => slot'[u] = slot[u]
    BY <1>s, <2>h DEF ServiceSlot
  <2>w. m \notin lost /\ At(m, Nowhere) /\ \A u \in Service : slot[u].out # m
    BY <1>p, FreeAddress
  <2>u. \A a \in Struct : Due(a)' <=> (Due(a) \/ a = m)
    BY <1>p, <1>n, <2>m, <2>w DEF Due
  <2>1. \A a \in Struct : StructKept(a)'
    <3>1. <<"out", s>> \in Spots /\ <<"out", s>> # Nowhere
      BY DEF Spots, Nowhere
    <3>2. Moves(m, Nowhere, <<"out", s>>, {}, {})
      BY <1>a, <2>w, <2>f, <2>h, <2>u, <3>1 DEF Moves, Nowhere
    <3>3. /\ <<"out", s>> \in Spots \cup {Nowhere} /\ Nowhere \in Spots \cup {Nowhere}
          /\ {} \in SUBSET Service
      BY <3>1
    <3> QED BY <3>2, <3>3, StructMoves
  <2>2. ASSUME NEW b \in Block
        PROVE  BlockKept(b)'
    <3>1. heap'[m].msg = p
      BY <2>m
    <3> QED BY <1>p, <2>h, <2>m, <3>1, Gives
  <2>3. ASSUME NEW u \in Service
        PROVE  SlotKept(u)'
    <3>1. CASE u = s
      BY <1>p, <1>s, <2>f, <3>1 DEF SlotKept
    <3>2. CASE u # s
      <4>1. slot'[u] = slot[u] /\ SlotKept(u)
        BY <1>s, <2>f, <3>2
      <4>2. slot[u].out # NULL => heap'[slot[u].out] = heap[slot[u].out]
        BY <1>s, <2>m, <2>w, SlotTypes
      <4> QED BY <4>1, <4>2 DEF SlotKept
    <3> QED BY <3>1, <3>2
  <2>4. \A x \in Exclusive : SendingKept(x)'
    <3>1. \A x \in Exclusive, a \in Struct : InQ(sending[x], a) => heap'[a] = heap[a]
      BY <2>m, <2>w DEF At, Nowhere
    <3> QED BY <2>h, <3>1, SendingStays
  <2>5. LostOK' /\ Ended'
    BY <1>p, <2>m, <2>w DEF MemInv, LostOK, Ended
  <2> QED BY <2>t, <2>1, <2>2, <2>3, <2>4, <2>5 DEF MemInv
<1>b. CASE slot[s].out # NULL
  <2>h. heap' = heap /\ slot' = slot /\ block' = block \ {p} /\ sending' = sending
    BY <1>b DEF SendMessage
  <2>t. MemoryTypeOK'
    BY <1>s, <1>p, <2>h DEF SendMessage, MemoryTypeOK
  <2>1. \A a \in Struct : StructKept(a)'
    BY <1>p, <2>h, HeapSame, StructsSame
  <2>2. ASSUME NEW b \in Block
        PROVE  BlockKept(b)'
    BY <1>p, <2>h, Frees
  <2>3. ASSUME NEW u \in Service
        PROVE  SlotKept(u)'
    BY <1>s, <2>h DEF SlotKept
  <2>4. LostOK' /\ Ended' /\ \A x \in Exclusive : SendingKept(x)'
    BY <1>p, <2>h, HeapSame
  <2> QED BY <2>t, <2>1, <2>2, <2>3, <2>4 DEF MemInv
<1> QED BY <1>a, <1>b
LEMMA ExclusiveSendMessageKept ==
  ASSUME MemInv, NEW x \in Exclusive, NEW m \in Struct, NEW to \in Service,
         NEW p \in Block \cup {NULL}, ExclusiveSendMessage(x, m, to, p)
  PROVE  MemInv'
<1>p. phase' # "end" /\ x \in VM /\ p \in vm[x] \cup {NULL} /\ heap[m] = Unallocated
      /\ lost' = lost /\ slot' = slot /\ block' = block
  BY DEF ExclusiveSendMessage, Runs, VM
<1>s. MemoryTypeOK /\ slot \in [Service -> ServiceSlot] /\ heap \in [Struct -> Message \cup {Unallocated}]
      /\ sending \in [Exclusive -> Seq(Struct)] /\ \A u \in Service : SlotKept(u)
      /\ \A y \in Exclusive : SendingKept(y)
  BY DEF MemInv, MemoryTypeOK
<1>n. NULL \notin Struct /\ Unallocated \notin Message
  BY NullApart
<1>l. Len(sending[x]) \in Nat /\ LengthSending \in Nat
  BY <1>s DEF MemInv, MemoryAssumption
<1>a. CASE Len(sending[x]) < LengthSending
  <2>h. /\ heap' = [heap EXCEPT ![m] = [to |-> to, type |-> "mail", msg |-> p]]
        /\ sending' = [sending EXCEPT ![x] = Append(@, m)]
        /\ vm' = [vm EXCEPT ![x] = @ \ {p}]
    BY <1>a DEF ExclusiveSendMessage, New
  <2>m. heap'[m] = [to |-> to, type |-> "mail", msg |-> p] /\ heap'[m] \in Message
        /\ \A a \in Struct \ {m} : heap'[a] = heap[a]
    BY <1>s, <2>h DEF Message
  <2>t. MemoryTypeOK'
    <3>1. heap' \in [Struct -> Message \cup {Unallocated}]
      BY <1>s, <2>h, <2>m
    <3>2. sending' \in [Exclusive -> Seq(Struct)]
      BY <1>s, <2>h
    <3>3. vm' \in [VM -> SUBSET Block]
      BY <1>s, <1>p, <2>h DEF MemoryTypeOK
    <3> QED BY <1>s, <1>p, <2>h, <3>1, <3>2, <3>3 DEF ExclusiveSendMessage, MemoryTypeOK
  <2>w. m \notin lost /\ At(m, Nowhere) /\ \A u \in Service : slot[u].out # m
    BY <1>p, FreeAddress
  <2>u. \A a \in Struct : Due(a)' <=> (Due(a) \/ a = m)
    BY <1>p, <1>n, <2>m, <2>w DEF Due
  <2>1. \A a \in Struct : StructKept(a)'
    <3>1. <<"sending", x>> \in Spots /\ <<"sending", x>> # Nowhere
      BY DEF Spots, Nowhere
    <3>2. Moves(m, Nowhere, <<"sending", x>>, {}, {})
      BY <1>s, <1>p, <2>w, <2>h, <2>u, <3>1 DEF Moves, Nowhere
    <3>3. /\ <<"sending", x>> \in Spots \cup {Nowhere} /\ Nowhere \in Spots \cup {Nowhere}
          /\ {} \in SUBSET Service
      BY <3>1
    <3> QED BY <3>2, <3>3, StructMoves
  <2>2. ASSUME NEW b \in Block
        PROVE  BlockKept(b)'
    <3>1. heap'[m].msg = p
      BY <2>m
    <3> QED BY <1>p, <2>h, <2>m, <3>1, Gives
  <2>3. ASSUME NEW u \in Service
        PROVE  SlotKept(u)'
    <3>1. slot[u].out # NULL => heap'[slot[u].out] = heap[slot[u].out]
      BY <1>s, <2>m, <2>w, SlotTypes
    <3> QED BY <1>s, <1>p, <3>1 DEF SlotKept
  <2>4. ASSUME NEW y \in Exclusive
        PROVE  SendingKept(y)'
    <3>1. \A a \in Struct : InQ(sending[y], a) => heap'[a] = heap[a]
      BY <2>m, <2>w DEF At, Nowhere
    <3>2. CASE y # x
      BY <1>s, <2>h, <3>1, <3>2, SendingStays
    <3>3. CASE y = x
      <4>1. /\ sending'[x] = Append(sending[x], m) /\ sending[x] \in Seq(Struct)
            /\ SendingKept(x)
        BY <1>s, <2>h
      <4>2. /\ Len(sending'[x]) = Len(sending[x]) + 1
            /\ \A i \in 1..Len(sending[x]) : sending'[x][i] = sending[x][i]
            /\ sending'[x][Len(sending[x]) + 1] = m
            /\ DOMAIN sending'[x] = 1..(Len(sending[x]) + 1)
        BY <4>1, AppendProperties
      <4>3. \A i \in DOMAIN sending[x] : heap'[sending[x][i]].to \in Service
        <5>1. \A i \in DOMAIN sending[x] : sending[x][i] \in Struct /\ InQ(sending[x], sending[x][i])
          BY <4>1 DEF InQ
        <5> QED BY <3>1, <3>3, <4>1, <5>1 DEF SendingKept
      <4>4. ASSUME NEW i \in DOMAIN sending'[x]
            PROVE  heap'[sending'[x][i]].to \in Service
        <5>1. CASE i = Len(sending[x]) + 1
          BY <2>m, <4>2, <5>1
        <5>2. CASE i \in 1..Len(sending[x])
          BY <4>1, <4>2, <4>3, <5>2
        <5> QED BY <1>l, <4>2, <5>1, <5>2
      <4> QED BY <1>a, <1>l, <3>3, <4>2, <4>4 DEF SendingKept
    <3> QED BY <3>2, <3>3
  <2>5. LostOK' /\ Ended'
    BY <1>p, <2>m, <2>w DEF MemInv, LostOK, Ended
  <2> QED BY <2>t, <2>1, <2>2, <2>3, <2>4, <2>5 DEF MemInv
<1>b. CASE ~(Len(sending[x]) < LengthSending)
  <2>h. heap' = heap /\ sending' = sending /\ vm' = vm
    BY <1>b DEF ExclusiveSendMessage
  <2>t. MemoryTypeOK'
    BY <1>s, <1>p, <2>h DEF ExclusiveSendMessage, MemoryTypeOK
  <2>1. \A a \in Struct : StructKept(a)'
    BY <1>p, <2>h, HeapSame, StructsSame
  <2>2. \A b \in Block : BlockKept(b)'
    BY <1>p, <2>h, BlocksSame
  <2>3. ASSUME NEW u \in Service
        PROVE  SlotKept(u)'
    BY <1>s, <1>p, <2>h DEF SlotKept
  <2>4. LostOK' /\ Ended' /\ \A y \in Exclusive : SendingKept(y)'
    BY <1>p, <2>h, HeapSame
  <2> QED BY <2>t, <2>1, <2>2, <2>3, <2>4 DEF MemInv
<1> QED BY <1>a, <1>b

LEMMA PostMessageKept ==
  ASSUME MemInv, NEW m \in Struct, NEW p \in Block, PostMessage(m, p)
  PROVE  MemInv'
<1>p. phase' # "end" /\ Main \in VM /\ p \in vm[Main] \cup {NULL} /\ heap[m] = Unallocated
      /\ lost' = lost /\ sending' = sending /\ vm' = [vm EXCEPT ![Main] = @ \ {p}]
  BY DEF PostMessage, VM
<1>r. Root \in Service
  BY DEF MemInv, MemoryAssumption
<1>s. MemoryTypeOK /\ slot \in [Service -> ServiceSlot] /\ heap \in [Struct -> Message \cup {Unallocated}]
      /\ \A u \in Service : SlotKept(u)
  BY DEF MemInv, MemoryTypeOK
<1>n. NULL \notin Struct /\ Unallocated \notin Message
  BY NullApart
<1>a. CASE Receives(Root)
  <2>h. /\ heap' = [heap EXCEPT ![m] = [to |-> Root, type |-> "mail", msg |-> p]]
        /\ slot' = [slot EXCEPT ![Root].queue = Append(@, m)] /\ block' = block
        /\ slot[Root].status = "alive" /\ slot[Root].queue \in Seq(Struct)
    BY <1>a, <1>r, <1>s, SlotTypes DEF PostMessage, New, Receives, Alive
  <2>m. heap'[m] = [to |-> Root, type |-> "mail", msg |-> p] /\ heap'[m] \in Message
        /\ \A a \in Struct \ {m} : heap'[a] = heap[a]
    BY <1>r, <1>s, <2>h DEF Message
  <2>t. MemoryTypeOK'
    <3>1. heap' \in [Struct -> Message \cup {Unallocated}]
      BY <1>s, <2>h, <2>m
    <3>2. Append(slot[Root].queue, m) \in Seq(Struct)
      BY <2>h
    <3>3. slot' \in [Service -> ServiceSlot]
      BY <1>s, <2>h, <3>2 DEF ServiceSlot
    <3>4. vm' \in [VM -> SUBSET Block]
      BY <1>s, <1>p DEF MemoryTypeOK
    <3> QED BY <1>s, <1>p, <2>h, <3>1, <3>3, <3>4 DEF PostMessage, MemoryTypeOK
  <2>f. \A u \in Service : /\ slot'[u].out = slot[u].out
                           /\ slot'[u].bounce = slot[u].bounce
                           /\ slot'[u].queue = IF u = Root THEN Append(slot[u].queue, m)
                                               ELSE slot[u].queue
                           /\ slot'[u].receipt = slot[u].receipt
                           /\ slot'[u].status = slot[u].status
                           /\ u # Root => slot'[u] = slot[u]
    BY <1>s, <2>h DEF ServiceSlot
  <2>w. m \notin lost /\ At(m, Nowhere) /\ \A u \in Service : slot[u].out # m
    BY <1>p, FreeAddress
  <2>u. \A a \in Struct : Due(a)' <=> (Due(a) \/ a = m)
    BY <1>p, <1>n, <2>m, <2>w DEF Due
  <2>1. \A a \in Struct : StructKept(a)'
    <3>1. <<"queue", Root>> \in Spots /\ <<"queue", Root>> # Nowhere
      BY <1>r DEF Spots, Nowhere
    <3>2. Moves(m, Nowhere, <<"queue", Root>>, {}, {})
      BY <1>p, <2>w, <2>f, <2>h, <2>u, <3>1 DEF Moves, Nowhere
    <3>3. /\ <<"queue", Root>> \in Spots \cup {Nowhere} /\ Nowhere \in Spots \cup {Nowhere}
          /\ {} \in SUBSET Service
      BY <3>1
    <3> QED BY <3>2, <3>3, StructMoves
  <2>2. ASSUME NEW b \in Block
        PROVE  BlockKept(b)'
    <3>1. heap'[m].msg = p
      BY <2>m
    <3> QED BY <1>p, <2>h, <2>m, <3>1, Gives
  <2>3. ASSUME NEW u \in Service
        PROVE  SlotKept(u)'
    <3>1. slot[u].out # NULL => heap'[slot[u].out] = heap[slot[u].out]
      BY <1>s, <2>m, <2>w, SlotTypes
    <3>2. CASE u = Root
      BY <1>s, <2>f, <2>h, <3>2 DEF SlotKept
    <3>3. CASE u # Root
      BY <1>s, <2>f, <3>1, <3>3 DEF SlotKept
    <3> QED BY <3>2, <3>3
  <2>4. \A x \in Exclusive : SendingKept(x)'
    <3>1. \A x \in Exclusive, a \in Struct : InQ(sending[x], a) => heap'[a] = heap[a]
      BY <2>m, <2>w DEF At, Nowhere
    <3> QED BY <1>p, <3>1, SendingStays
  <2>5. LostOK' /\ Ended'
    BY <1>p, <2>m, <2>w DEF MemInv, LostOK, Ended
  <2> QED BY <2>t, <2>1, <2>2, <2>3, <2>4, <2>5 DEF MemInv
<1>b. CASE ~Receives(Root)
  <2>h. heap' = heap /\ slot' = slot /\ block' = block \ {p}
    BY <1>b DEF PostMessage
  <2>t. MemoryTypeOK'
    BY <1>s, <1>p, <2>h DEF PostMessage, MemoryTypeOK
  <2>1. \A a \in Struct : StructKept(a)'
    BY <1>p, <2>h, HeapSame, StructsSame
  <2>2. ASSUME NEW b \in Block
        PROVE  BlockKept(b)'
    BY <1>p, <2>h, Frees
  <2>3. ASSUME NEW u \in Service
        PROVE  SlotKept(u)'
    BY <1>s, <2>h DEF SlotKept
  <2>4. LostOK' /\ Ended' /\ \A x \in Exclusive : SendingKept(x)'
    BY <1>p, <2>h, HeapSame
  <2> QED BY <2>t, <2>1, <2>2, <2>3, <2>4 DEF MemInv
<1> QED BY <1>a, <1>b

-----------------------------------------------------------------------------
(* The steps by which a VM takes or frees a message it was given.          *)
(* The message m leaves the queue of s, or is no longer handed back to it. *)
Leaves(s, m, from) ==
  /\ from = <<"bounce", s>> => slot[s].bounce = m
  /\ from = <<"queue", s>> => slot[s].queue # <<>> /\ Head(slot[s].queue) = m
  /\ slot' \in [Service -> ServiceSlot]
  /\ \A u \in Service :
       /\ slot'[u].out = slot[u].out
       /\ slot'[u].bounce = IF from = <<"bounce", u>> THEN NULL ELSE slot[u].bounce
       /\ slot'[u].queue = IF from = <<"queue", u>> THEN Tail(slot[u].queue) ELSE slot[u].queue
       /\ slot'[u].receipt = "none" => slot'[u].bounce = NULL
       /\ slot'[u].status = slot[u].status
       /\ u # s => slot'[u] = slot[u]

LEMMA PointedAt ==
  ASSUME MemInv, NEW a \in Struct
  PROVE  /\ \A s \in Service :
              /\ slot[s].out = a => At(a, <<"out", s>>) /\ Due(a)
              /\ slot[s].bounce = a => At(a, <<"bounce", s>>) /\ Due(a)
              /\ InQ(slot[s].queue, a) => At(a, <<"queue", s>>) /\ Due(a)
         /\ \A x \in Exclusive : InQ(sending[x], a) => At(a, <<"sending", x>>) /\ Due(a)
<1>1. PICK here \in Spots \cup {Nowhere} : At(a, here) /\ (Due(a) <=> here # Nowhere)
  BY Whereabouts
<1>2. ASSUME NEW s \in Service
      PROVE  /\ slot[s].out = a => At(a, <<"out", s>>) /\ Due(a)
             /\ slot[s].bounce = a => At(a, <<"bounce", s>>) /\ Due(a)
             /\ InQ(slot[s].queue, a) => At(a, <<"queue", s>>) /\ Due(a)
  <2>1. /\ slot[s].out = a => here = <<"out", s>>
        /\ slot[s].bounce = a => here = <<"bounce", s>>
        /\ InQ(slot[s].queue, a) => here = <<"queue", s>>
    BY <1>1 DEF At
  <2> QED BY <1>1, <2>1 DEF Nowhere
<1>3. ASSUME NEW x \in Exclusive
      PROVE  InQ(sending[x], a) => At(a, <<"sending", x>>) /\ Due(a)
  <2>1. InQ(sending[x], a) => here = <<"sending", x>>
    BY <1>1 DEF At
  <2> QED BY <1>1, <2>1 DEF Nowhere
<1> QED BY <1>2, <1>3

LEMMA LeavesKept ==
  ASSUME MemInv, NEW s \in Service, NEW m \in Struct,
         NEW from \in {<<"bounce", s>>, <<"queue", s>>}, Leaves(s, m, from),
         slot[s].status = "alive", phase' = phase, phase # "end", handle' = handle,
         sending' = sending, lost' = lost, block' \subseteq Block, vm' \in [VM -> SUBSET Block],
         heap' = [a \in Struct |-> IF a \in {m} THEN Unallocated ELSE heap[a]],
         \A b \in Block : BlockKept(b)'
  PROVE  MemInv'
<1>s. MemoryTypeOK /\ slot \in [Service -> ServiceSlot] /\ heap \in [Struct -> Message \cup {Unallocated}]
      /\ (\A u \in Service : SlotKept(u)) /\ slot[s].queue \in Seq(Struct)
  BY SlotTypes DEF MemInv, MemoryTypeOK
<1>m. At(m, from) /\ Due(m) /\ from \in Spots /\ from # Nowhere
  <2>1. CASE from = <<"bounce", s>>
    BY <2>1, PointedAt DEF Leaves, Spots, Nowhere
  <2>2. CASE from = <<"queue", s>>
    <3>1. InQ(slot[s].queue, m)
      BY <1>s, <2>2, Dropped DEF Leaves
    <3> QED BY <2>2, <3>1, PointedAt DEF Spots, Nowhere
  <2> QED BY <2>1, <2>2
<1>t. MemoryTypeOK'
  BY <1>s DEF Leaves, MemoryTypeOK
<1>u. \A a \in Struct : /\ Due(a)' <=> Due(a) /\ a # m
                        /\ a # m => heap'[a] = heap[a]
  BY DEF Due
<1>1. \A a \in Struct : StructKept(a)'
  <2>1. Moves(m, from, Nowhere, {}, {})
    <3>1. \A u \in Service :
            /\ slot'[u].out = slot[u].out
            /\ slot'[u].bounce = IF from = <<"bounce", u>> THEN NULL ELSE slot[u].bounce
            /\ slot'[u].queue = IF from = <<"queue", u>> THEN Tail(slot[u].queue)
                                ELSE slot[u].queue
            /\ from # <<"out", u>>
            /\ from = <<"queue", u>> => slot[u].queue # <<>> /\ Head(slot[u].queue) = m
      BY DEF Leaves
    <3>2. \A x \in Exclusive : from # <<"sending", x>>
      OBVIOUS
    <3> QED BY <1>m, <1>u, <3>1, <3>2 DEF Moves, Nowhere
  <2>2. from \in Spots \cup {Nowhere} /\ Nowhere \in Spots \cup {Nowhere} /\ {} \in SUBSET Service
    BY <1>m
  <2> QED BY <2>1, <2>2, StructMoves
<1>3. ASSUME NEW u \in Service
      PROVE  SlotKept(u)'
  <2>1. CASE u = s
    BY <2>1 DEF SlotKept, Leaves
  <2>2. CASE u # s
    <3>1. slot[u].out # m
      BY <1>m DEF At
    <3>2. slot[u].out # NULL => heap'[slot[u].out] = heap[slot[u].out]
      BY <1>s, <1>u, <3>1, SlotTypes
    <3> QED BY <1>s, <2>2, <3>2 DEF SlotKept, Leaves
  <2> QED BY <2>1, <2>2
<1>4. \A x \in Exclusive : SendingKept(x)'
  <2>1. \A x \in Exclusive : ~InQ(sending[x], m)
    BY <1>m DEF At
  <2>2. \A x \in Exclusive, a \in Struct : InQ(sending[x], a) => heap'[a] = heap[a]
    BY <1>u, <2>1
  <2> QED BY <2>2, SendingStays
<1>5. LostOK' /\ Ended'
  BY <1>m, <1>u DEF MemInv, LostOK, Ended, Due
<1> QED BY <1>t, <1>1, <1>3, <1>4, <1>5 DEF MemInv

LEMMA RecvMessageKept ==
  ASSUME MemInv, NEW s \in Service, RecvMessage(s)
  PROVE  MemInv'
<1>p. /\ phase' = phase /\ phase # "end" /\ s \in VM /\ slot[s].status = "alive" /\ lost' = lost
      /\ sending' = sending /\ handle' = handle /\ block' = block
  BY DEF RecvMessage, Runs, VM, Alive, DeleteEmptied
<1>s. MemoryTypeOK /\ slot \in [Service -> ServiceSlot] /\ slot[s].queue \in Seq(Struct) /\ block \subseteq Block
      /\ slot[s].bounce \in Struct \cup {NULL} /\ vm \in [VM -> SUBSET Block]
      /\ heap \in [Struct -> Message \cup {Unallocated}] /\ SlotKept(s)
      /\ \A u \in Service : slot[u].receipt = "none" => slot[u].bounce = NULL
  BY SlotTypes DEF MemInv, MemoryTypeOK, SlotKept
<1>1. ASSUME NEW m \in Struct, NEW from \in {<<"bounce", s>>, <<"queue", s>>}, Leaves(s, m, from),
             heap' = [a \in Struct |-> IF a \in {m} THEN Unallocated ELSE heap[a]],
             vm' = [vm EXCEPT ![s] = @ \cup Payload({m})]
      PROVE  MemInv'
  <2>1. heap[m] \in Message
    <3>1. InQ(slot[s].queue, m) \/ slot[s].bounce = m
      BY <1>1, <1>s, Dropped DEF Leaves
    <3> QED BY <1>s, <3>1, PointedAt DEF Due
  <2>2. \A b \in Block : BlockKept(b)'
    BY <1>1, <1>p, <2>1, Takes
  <2>3. vm' \in [VM -> SUBSET Block]
    BY <1>1, <1>p, <1>s, PayloadType
  <2> QED BY <1>1, <1>p, <1>s, <2>2, <2>3, LeavesKept
<1>2. CASE slot[s].bounce # NULL
  <2>1. /\ slot' = [slot EXCEPT ![s].bounce = NULL]
        /\ heap' = [a \in Struct |-> IF a \in {slot[s].bounce} THEN Unallocated ELSE heap[a]]
        /\ vm' = [vm EXCEPT ![s] = @ \cup Payload({slot[s].bounce})]
    BY <1>2 DEF RecvMessage, DeleteEmptied
  <2>2. Leaves(s, slot[s].bounce, <<"bounce", s>>)
    BY <1>s, <2>1 DEF Leaves, ServiceSlot
  <2> QED BY <1>1, <1>2, <1>s, <2>1, <2>2
<1>3. CASE slot[s].bounce = NULL
  <2>1. /\ slot' = [slot EXCEPT ![s].queue = Tail(@)] /\ slot[s].queue # <<>>
        /\ heap' = [a \in Struct |-> IF a \in {Head(slot[s].queue)} THEN Unallocated ELSE heap[a]]
        /\ vm' = [vm EXCEPT ![s] = @ \cup Payload({Head(slot[s].queue)})]
    BY <1>3 DEF RecvMessage, DeleteEmptied
  <2>2. Head(slot[s].queue) \in Struct /\ Tail(slot[s].queue) \in Seq(Struct)
    BY <1>s, <2>1, Dropped
  <2>3. Leaves(s, Head(slot[s].queue), <<"queue", s>>)
    BY <1>s, <2>1, <2>2 DEF Leaves, ServiceSlot
  <2> QED BY <1>1, <2>1, <2>2, <2>3
<1> QED BY <1>2, <1>3

LEMMA MessageReceiptKept ==
  ASSUME MemInv, NEW s \in Service, MessageReceipt(s)
  PROVE  MemInv'
<1>p. /\ phase' = phase /\ phase # "end" /\ s \in VM /\ slot[s].status = "alive" /\ lost' = lost
      /\ sending' = sending /\ handle' = handle
      /\ slot' = [slot EXCEPT ![s].receipt = "none", ![s].bounce = NULL]
  BY DEF MessageReceipt, Runs, VM, Alive
<1>s. MemoryTypeOK /\ slot \in [Service -> ServiceSlot] /\ block \subseteq Block
      /\ slot[s].bounce \in Struct \cup {NULL} /\ vm \in [VM -> SUBSET Block]
      /\ heap \in [Struct -> Message \cup {Unallocated}] /\ (\A u \in Service : SlotKept(u))
      /\ \A u \in Service : slot[u].receipt = "none" => slot[u].bounce = NULL
  BY SlotTypes DEF MemInv, MemoryTypeOK, SlotKept
<1>f. /\ slot' \in [Service -> ServiceSlot]
      /\ \A u \in Service :
           /\ slot'[u].out = slot[u].out /\ slot'[u].queue = slot[u].queue
           /\ slot'[u].status = slot[u].status
           /\ slot'[u].bounce = IF u = s THEN NULL ELSE slot[u].bounce
           /\ slot'[u].receipt = "none" => slot'[u].bounce = NULL
           /\ u # s => slot'[u] = slot[u]
  BY <1>p, <1>s DEF ServiceSlot
<1>1. CASE slot[s].bounce = NULL
  <2>1. heap' = heap /\ block' = block /\ vm' = vm
    BY <1>1, <1>p DEF MessageReceipt
  <2>2. \A a \in Struct : StructKept(a)'
    BY <1>1, <1>p, <1>f, <2>1, HeapSame, StructsSame
  <2>3. \A b \in Block : BlockKept(b)'
    BY <1>p, <2>1, BlocksSame
  <2>4. ASSUME NEW u \in Service
        PROVE  SlotKept(u)'
    <3>1. CASE u = s
      BY <1>p, <1>f, <3>1 DEF SlotKept
    <3>2. CASE u # s
      BY <1>s, <1>f, <2>1, <3>2 DEF SlotKept
    <3> QED BY <3>1, <3>2
  <2>5. LostOK' /\ Ended' /\ \A x \in Exclusive : SendingKept(x)'
    BY <1>p, <2>1, HeapSame
  <2>6. MemoryTypeOK'
    BY <1>s, <1>p, <1>f, <2>1 DEF MemoryTypeOK
  <2> QED BY <2>2, <2>3, <2>4, <2>5, <2>6 DEF MemInv
<1>2. CASE slot[s].bounce # NULL
  <2>m. slot[s].bounce \in Struct
    BY <1>2, <1>s
  <2>l. Leaves(s, slot[s].bounce, <<"bounce", s>>)
    BY <1>f DEF Leaves
  <2>h. heap' = [a \in Struct |-> IF a \in {slot[s].bounce} THEN Unallocated ELSE heap[a]]
    BY <1>2 DEF MessageReceipt, Delete, DeleteEmptied
  <2>d. heap[slot[s].bounce] \in Message
    BY <1>s, <2>m, PointedAt DEF Due
  <2>1. CASE slot[s].receipt = "response"
    <3>1. block' = block \ Payload({slot[s].bounce}) /\ vm' = vm
      BY <1>2, <2>1 DEF MessageReceipt, Delete
    <3>2. ASSUME NEW b \in Block
          PROVE  BlockKept(b)'
      <4>1. \A a \in Struct : Carries(a, b)' <=> Carries(a, b) /\ a \notin {slot[s].bounce}
        BY <2>h DEF Carries
      <4>2. /\ {slot[s].bounce} \in SUBSET Struct /\ {} \in SUBSET VM
            /\ \A u \in VM : vm'[u] = IF u \in {} THEN {} ELSE vm[u]
            /\ b \in lost' <=> b \in lost \/ \E u \in {} : b \in vm[u]
        BY <1>p, <2>m, <3>1
      <4> QED BY <3>1, <4>1, <4>2, Deletes
    <3>3. block' \subseteq Block /\ vm' \in [VM -> SUBSET Block]
      BY <1>s, <3>1
    <3> QED BY <1>p, <2>m, <2>l, <2>h, <3>2, <3>3, LeavesKept
  <2>2. CASE slot[s].receipt # "response"
    <3>1. block' = block /\ vm' = [vm EXCEPT ![s] = @ \cup Payload({slot[s].bounce})]
      BY <1>2, <2>2 DEF MessageReceipt, DeleteEmptied
    <3>2. \A b \in Block : BlockKept(b)'
      BY <1>p, <2>m, <2>h, <2>d, <3>1, Takes
    <3>3. block' \subseteq Block /\ vm' \in [VM -> SUBSET Block]
      BY <1>s, <1>p, <2>m, <3>1, PayloadType
    <3> QED BY <1>p, <2>m, <2>l, <2>h, <3>2, <3>3, LeavesKept
  <2> QED BY <2>1, <2>2
<1> QED BY <1>1, <1>2
-----------------------------------------------------------------------------
(* dispatch_out_message: the message m that s has out is handed back, queued,
   freed or lost, and an earlier one that s has not taken back is freed.    *)

Answers(s, m, to) ==
  /\ slot' \in [Service -> ServiceSlot]
  /\ slot'[s].status = "alive" /\ slot'[s].receipt # "none"
  /\ \A u \in Service :
       /\ slot'[u].out = IF u = s THEN NULL ELSE slot[u].out
       /\ slot'[u].bounce = IF u # s THEN slot[u].bounce
                            ELSE IF to = <<"bounce", s>> THEN m ELSE NULL
       /\ slot'[u].queue = IF to = <<"queue", u>> THEN Append(slot[u].queue, m)
                           ELSE slot[u].queue
       /\ u # s => /\ slot'[u].receipt = slot[u].receipt
                   /\ \/ slot'[u] = EmptySlot("new")
                      \/ /\ slot'[u].status = slot[u].status
                         /\ slot[u].status \in {"none", "new"} => slot'[u] = slot[u]

LEMMA AnswersKept ==
  ASSUME MemInv, NEW s \in Service, NEW m \in Struct, slot[s].out = m, phase = "run",
         NEW to \in {<<"bounce", s>>, Nowhere} \cup {<<"queue", d>> : d \in Service},
         NEW freed \in SUBSET {m}, NEW leak \in SUBSET {m},
         to = Nowhere <=> m \in freed \cup leak, freed = {} \/ leak = {},
         m \in leak => heap[m].type = "hang",
         Answers(s, m, to), Delete(freed \cup Unread(s)), lost' = lost \cup leak,
         phase' = phase, vm' = vm, handle' = handle, sending' = sending
  PROVE  MemInv'
<1>s. MemoryTypeOK /\ slot \in [Service -> ServiceSlot] /\ heap \in [Struct -> Message \cup {Unallocated}]
      /\ (\A u \in Service : SlotKept(u)) /\ slot[s].bounce \in Struct \cup {NULL}
      /\ Struct \cap Block = {}
  BY SlotTypes DEF MemInv, MemoryTypeOK, MemoryAssumption
<1>n. NULL \notin Struct /\ Unallocated \notin Message
  BY NullApart
<1>m. At(m, <<"out", s>>) /\ Due(m) /\ heap[m] \in Message /\ m # slot[s].bounce
  <2>1. At(m, <<"out", s>>) /\ Due(m)
    BY PointedAt
  <2> QED BY <1>s, <2>1 DEF Due, At
<1>r. \A a \in Struct : a \in Unread(s) <=> a = slot[s].bounce
  BY <1>s, <1>n DEF SlotKept, Unread
<1>a. Unread(s) \in SUBSET Struct /\ freed \cup Unread(s) \in SUBSET Struct
  BY <1>s DEF Unread
<1>h. /\ \A a \in Struct : heap'[a] = IF a \in freed \/ a = slot[s].bounce THEN Unallocated
                                      ELSE heap[a]
      /\ block' = block \ Payload(freed \cup Unread(s))
  BY <1>r DEF Delete
<1>u. \A a \in Struct \ {m} : Due(a)' <=> Due(a) /\ slot[s].bounce # a
  BY <1>h DEF Due
<1>v. Due(m)' <=> to # Nowhere
  BY <1>h, <1>m, <1>n DEF Due
<1>t. MemoryTypeOK'
  <2>1. heap' \in [Struct -> Message \cup {Unallocated}]
    BY <1>s DEF Delete
  <2>2. block' \subseteq Block
    BY <1>s, <1>h DEF MemoryTypeOK
  <2>3. lost' \subseteq Struct \cup Block
    BY <1>s DEF MemoryTypeOK
  <2> QED BY <1>s, <2>1, <2>2, <2>3 DEF MemoryTypeOK, Answers
<1>1. \A a \in Struct : StructKept(a)'
  <2>1. Moves(m, <<"out", s>>, to, {s}, {})
    <3>1. \A u \in Service : to # <<"out", u>>
      BY DEF Nowhere
    <3>2. \A x \in Exclusive : to # <<"sending", x>>
      BY DEF Nowhere
    <3>3. \A u \in Service :
            /\ slot'[u].out = IF u = s THEN NULL ELSE slot[u].out
            /\ slot'[u].bounce = IF u # s THEN slot[u].bounce
                                 ELSE IF to = <<"bounce", s>> THEN m ELSE NULL
            /\ slot'[u].queue = IF to = <<"queue", u>> THEN Append(slot[u].queue, m)
                                ELSE slot[u].queue
      BY DEF Answers
    <3>4. \A u \in Service : to = <<"bounce", u>> => u = s
      BY DEF Nowhere
    <3> QED BY <1>m, <1>u, <1>v, <3>1, <3>2, <3>3, <3>4 DEF Moves
  <2>2. /\ <<"out", s>> \in Spots \cup {Nowhere} /\ to \in Spots \cup {Nowhere}
        /\ {} \in SUBSET Service /\ {s} \in SUBSET Service
    BY DEF Spots
  <2> QED BY <2>1, <2>2, StructMoves
<1>2. ASSUME NEW b \in Block
      PROVE  BlockKept(b)'
  <2>1. \A a \in Struct : Carries(a, b)' <=> Carries(a, b) /\ a \notin freed \cup Unread(s)
    BY <1>h, <1>r DEF Carries
  <2>2. /\ {} \in SUBSET VM
        /\ \A u \in VM : vm'[u] = IF u \in {} THEN {} ELSE vm[u]
        /\ b \in lost' <=> b \in lost \/ \E u \in {} : b \in vm[u]
    BY <1>s
  <2> QED BY <1>a, <1>h, <2>1, <2>2, Deletes
<1>3. ASSUME NEW u \in Service
      PROVE  SlotKept(u)'
  <2>1. CASE u = s
    BY <2>1 DEF SlotKept, Answers
  <2>2. CASE u # s
    <3>1. slot[u].out # m /\ (slot[u].out # NULL => slot[u].out # slot[s].bounce)
      <4>1. slot[s].bounce # NULL => At(slot[s].bounce, <<"bounce", s>>)
        BY <1>s, PointedAt
      <4> QED BY <1>m, <2>2, <4>1 DEF At
    <3>2. slot[u].out # NULL => heap'[slot[u].out] = heap[slot[u].out]
      BY <1>s, <1>h, <3>1, SlotTypes
    <3>3. CASE slot'[u] = EmptySlot("new")
      BY <3>3 DEF SlotKept, EmptySlot
    <3>4. CASE /\ slot'[u].status = slot[u].status
               /\ slot[u].status \in {"none", "new"} => slot'[u] = slot[u]
      <4>1. /\ slot'[u].out = slot[u].out /\ slot'[u].bounce = slot[u].bounce
            /\ slot'[u].receipt = slot[u].receipt
        BY <2>2 DEF Answers
      <4> QED BY <1>s, <3>2, <3>4, <4>1 DEF SlotKept
    <3> QED BY <2>2, <3>3, <3>4 DEF Answers
  <2> QED BY <2>1, <2>2
<1>4. \A x \in Exclusive : SendingKept(x)'
  <2>1. ASSUME NEW x \in Exclusive, NEW a \in Struct, InQ(sending[x], a)
        PROVE  heap'[a] = heap[a]
    <3>1. At(a, <<"sending", x>>)
      BY <2>1, PointedAt
    <3>2. a # m /\ a # slot[s].bounce
      BY <3>1 DEF At
    <3> QED BY <1>h, <3>2
  <2> QED BY <2>1, SendingStays
<1>5. LostOK' /\ Ended'
  <2>1. ASSUME NEW a \in lost \cap Struct
        PROVE  heap'[a] = heap[a]
    <3>1. ~Due(a)
      BY DEF Due
    <3>2. a # m /\ a # slot[s].bounce
      BY <1>m, <3>1, PointedAt
    <3> QED BY <1>h, <3>2
  <2>2. m \in leak => heap'[m] = heap[m] /\ heap[m] # Unallocated
    BY <1>h, <1>m, <1>n
  <2>3. LostOK'
    BY <2>1, <2>2 DEF MemInv, LostOK
  <2> QED BY <2>3 DEF Ended
<1> QED BY <1>t, <1>1, <1>2, <1>3, <1>4, <1>5 DEF MemInv
(* What an assignment to one field of a slot leaves alone. *)
WithQueue(P, d, q) == [P EXCEPT ![d].queue = q]
WithOut(P, d, a) == [P EXCEPT ![d].out = a]
WithStatus(P, d, st) == [P EXCEPT ![d].status = st]

LEMMA QueueSet ==
  ASSUME NEW P \in [Service -> ServiceSlot], NEW d \in Service, NEW q \in Seq(Struct)
  PROVE  /\ WithQueue(P, d, q) \in [Service -> ServiceSlot]
         /\ \A u \in Service :
              /\ WithQueue(P, d, q)[u].status = P[u].status
              /\ WithQueue(P, d, q)[u].out = P[u].out
              /\ WithQueue(P, d, q)[u].bounce = P[u].bounce
              /\ WithQueue(P, d, q)[u].receipt = P[u].receipt
              /\ WithQueue(P, d, q)[u].queue = IF u = d THEN q ELSE P[u].queue
              /\ u # d => WithQueue(P, d, q)[u] = P[u]
BY DEF ServiceSlot, WithQueue

LEMMA OutSet ==
  ASSUME NEW P \in [Service -> ServiceSlot], NEW d \in Service, NEW a \in Struct \cup {NULL}
  PROVE  /\ WithOut(P, d, a) \in [Service -> ServiceSlot]
         /\ \A u \in Service :
              /\ WithOut(P, d, a)[u].status = P[u].status
              /\ WithOut(P, d, a)[u].queue = P[u].queue
              /\ WithOut(P, d, a)[u].bounce = P[u].bounce
              /\ WithOut(P, d, a)[u].receipt = P[u].receipt
              /\ WithOut(P, d, a)[u].out = IF u = d THEN a ELSE P[u].out
              /\ u # d => WithOut(P, d, a)[u] = P[u]
BY DEF ServiceSlot, WithOut

LEMMA StatusSet ==
  ASSUME NEW P \in [Service -> ServiceSlot], NEW d \in Service,
         NEW st \in {"none", "new", "alive", "dead"}
  PROVE  /\ WithStatus(P, d, st) \in [Service -> ServiceSlot]
         /\ \A u \in Service :
              /\ WithStatus(P, d, st)[u].queue = P[u].queue
              /\ WithStatus(P, d, st)[u].out = P[u].out
              /\ WithStatus(P, d, st)[u].bounce = P[u].bounce
              /\ WithStatus(P, d, st)[u].receipt = P[u].receipt
              /\ WithStatus(P, d, st)[u].status = IF u = d THEN st ELSE P[u].status
              /\ u # d => WithStatus(P, d, st)[u] = P[u]
BY DEF ServiceSlot, WithStatus

LEMMA ReceiptSet ==
  ASSUME NEW P \in [Service -> ServiceSlot], NEW d \in Service, NEW a \in Struct \cup {NULL},
         NEW r \in {"none", "done", "error", "block", "response"}
  PROVE  /\ WithReceipt(P, d, r, a) \in [Service -> ServiceSlot]
         /\ \A u \in Service :
              /\ WithReceipt(P, d, r, a)[u].status = P[u].status
              /\ WithReceipt(P, d, r, a)[u].queue = P[u].queue
              /\ WithReceipt(P, d, r, a)[u].out = P[u].out
              /\ WithReceipt(P, d, r, a)[u].bounce = IF u = d THEN a ELSE P[u].bounce
              /\ WithReceipt(P, d, r, a)[u].receipt = IF u = d THEN r ELSE P[u].receipt
              /\ u # d => WithReceipt(P, d, r, a)[u] = P[u]
BY DEF ServiceSlot, WithReceipt

LEMMA OutTyped ==
  ASSUME MemInv, NEW s \in Service, NEW m \in Struct, Out(s, m)
  PROVE  /\ phase = "run" /\ slot[s].status = "alive" /\ slot[s].out = m
         /\ slot \in [Service -> ServiceSlot] /\ heap[m] \in Message
         /\ \A u \in Service : slot[u].queue \in Seq(Struct) /\ SlotKept(u)
         /\ \A u \in Service : slot[u].status \in {"none", "new", "alive", "dead"}
<1>1. MemoryTypeOK /\ Due(m)
  BY PointedAt DEF MemInv, Out
<1> QED BY <1>1, SlotTypes DEF MemInv, MemoryTypeOK, Out, Alive, Due

LEMMA DispatchDoneKept ==
  ASSUME MemInv, NEW s \in Service, NEW m \in Struct, DispatchDone(s, m)
  PROVE  MemInv'
<1>1. PICK d \in Service : d = heap[m].to
  BY DEF DispatchDone
<1>2. /\ Out(s, m) /\ slot[d].status = "alive"
      /\ Delete({} \cup Unread(s))
      /\ slot' = WithReceipt([MessageOut(s) EXCEPT ![d].queue = Append(@, m)], s, "done", NULL)
      /\ phase' = phase /\ vm' = vm /\ handle' = handle /\ sending' = sending
      /\ lost' = lost \cup {}
  BY <1>1 DEF DispatchDone, Answer, Receives, Alive
<1>3. /\ phase = "run" /\ slot[s].status = "alive" /\ slot[s].out = m
      /\ slot \in [Service -> ServiceSlot]
      /\ \A u \in Service : slot[u].queue \in Seq(Struct)
  BY <1>2, OutTyped
<1>4. Append(slot[d].queue, m) \in Seq(Struct)
  BY <1>3
<1>5. Answers(s, m, <<"queue", d>>)
  <2>0. MessageOut(s) = WithOut(slot, s, NULL)
    BY DEF MessageOut, WithOut
  <2>1. /\ MessageOut(s) \in [Service -> ServiceSlot]
        /\ \A u \in Service : /\ MessageOut(s)[u].status = slot[u].status
                              /\ MessageOut(s)[u].queue = slot[u].queue
                              /\ MessageOut(s)[u].bounce = slot[u].bounce
                              /\ MessageOut(s)[u].receipt = slot[u].receipt
                              /\ MessageOut(s)[u].out = IF u = s THEN NULL ELSE slot[u].out
                              /\ u # s => MessageOut(s)[u] = slot[u]
    BY <1>3, <2>0, OutSet
  <2> DEFINE P == WithQueue(MessageOut(s), d, Append(slot[d].queue, m))
  <2>4. slot' = WithReceipt(P, s, "done", NULL)
    BY <1>2, <2>1 DEF WithQueue
  <2>2. P \in [Service -> ServiceSlot]
    BY <1>4, <2>1, QueueSet, ZenonT(60)
  <2>3. \A u \in Service : /\ P[u].status = MessageOut(s)[u].status
                           /\ P[u].out = MessageOut(s)[u].out
                           /\ P[u].bounce = MessageOut(s)[u].bounce
                           /\ P[u].receipt = MessageOut(s)[u].receipt
                           /\ P[u].queue = IF u = d THEN Append(slot[d].queue, m)
                                           ELSE MessageOut(s)[u].queue
                           /\ u # d => P[u] = MessageOut(s)[u]
    BY <1>4, <2>1, QueueSet, ZenonT(60)
  <2> HIDE DEF P
  <2>5. /\ slot' \in [Service -> ServiceSlot]
        /\ \A u \in Service : /\ slot'[u].status = P[u].status
                              /\ slot'[u].queue = P[u].queue
                              /\ slot'[u].out = P[u].out
                              /\ slot'[u].bounce = IF u = s THEN NULL ELSE P[u].bounce
                              /\ slot'[u].receipt = IF u = s THEN "done" ELSE P[u].receipt
                              /\ u # s => slot'[u] = P[u]
    BY <2>2, <2>4, ReceiptSet
  <2>6. \A u \in Service :
          /\ slot'[u].status = slot[u].status
          /\ slot'[u].queue = IF u = d THEN Append(slot[u].queue, m) ELSE slot[u].queue
          /\ slot'[u].out = IF u = s THEN NULL ELSE slot[u].out
          /\ slot'[u].bounce = IF u = s THEN NULL ELSE slot[u].bounce
          /\ slot'[u].receipt = IF u = s THEN "done" ELSE slot[u].receipt
          /\ u \notin {s, d} => slot'[u] = slot[u]
    BY <2>1, <2>3, <2>5
  <2> QED BY <1>2, <1>3, <2>5, <2>6 DEF Answers
<1>6. /\ <<"queue", d>> \in {<<"bounce", s>>, Nowhere} \cup {<<"queue", u>> : u \in Service}
      /\ <<"queue", d>> # Nowhere /\ {} \in SUBSET {m} /\ m \notin {}
  BY DEF Nowhere
<1> QED BY <1>2, <1>3, <1>5, <1>6, AnswersKept

LEMMA DispatchBackKept ==
  ASSUME MemInv, NEW s \in Service, NEW m \in Struct, NEW r \in {"error", "block"},
         DispatchBack(s, m, r)
  PROVE  MemInv'
<1>2. /\ Out(s, m)
      /\ Delete({} \cup Unread(s))
      /\ slot' = WithReceipt(MessageOut(s), s, r, m)
      /\ phase' = phase /\ vm' = vm /\ handle' = handle /\ sending' = sending
      /\ lost' = lost \cup {}
  BY DEF DispatchBack, Answer
<1>3. /\ phase = "run" /\ slot[s].status = "alive" /\ slot[s].out = m
      /\ slot \in [Service -> ServiceSlot]
  BY <1>2, OutTyped
<1>5. Answers(s, m, <<"bounce", s>>)
  BY <1>2, <1>3 DEF Answers, WithReceipt, MessageOut, ServiceSlot
<1>6. /\ <<"bounce", s>> \in {<<"bounce", s>>, Nowhere} \cup {<<"queue", u>> : u \in Service}
      /\ <<"bounce", s>> # Nowhere /\ {} \in SUBSET {m} /\ m \notin {}
  BY DEF Nowhere
<1> QED BY <1>2, <1>3, <1>5, <1>6, AnswersKept

LEMMA RootTyped ==
  ASSUME MemInv
  PROVE  Root \in Service /\ Exclusive \subseteq Service /\ Root \notin Exclusive
BY DEF MemInv, MemoryAssumption

LEMMA DispatchNewKept ==
  ASSUME MemInv, NEW m \in Struct, NEW n \in Service, DispatchNew(m, n)
  PROVE  MemInv'
<1>r. Root \in Service
  BY RootTyped
<1>2. /\ Out(Root, m) /\ slot[n].status = "none"
      /\ Delete({} \cup Unread(Root))
      /\ slot' = WithReceipt([MessageOut(Root) EXCEPT ![n] = EmptySlot("new")],
                             Root, "response", m)
      /\ phase' = phase /\ vm' = vm /\ handle' = handle /\ sending' = sending
      /\ lost' = lost \cup {}
  BY DEF DispatchNew, Answer, Exists
<1>3. /\ phase = "run" /\ slot[Root].status = "alive" /\ slot[Root].out = m
      /\ slot \in [Service -> ServiceSlot] /\ SlotKept(n)
  BY <1>r, <1>2, OutTyped
<1>4. n # Root /\ slot[n] = EmptySlot("none")
  BY <1>2, <1>3 DEF SlotKept
<1>5. /\ slot' \in [Service -> ServiceSlot]
      /\ \A u \in Service \ {Root, n} : slot'[u] = slot[u]
      /\ slot'[n] = EmptySlot("new")
      /\ slot'[Root].status = "alive" /\ slot'[Root].receipt = "response"
      /\ slot'[Root].out = NULL /\ slot'[Root].bounce = m /\ slot'[Root].queue = slot[Root].queue
  <2>1. EmptySlot("new") \in ServiceSlot
    BY DEF EmptySlot, ServiceSlot
  <2>2. slot[Root] \in ServiceSlot
    BY <1>r, <1>3
  <2> DEFINE P == [MessageOut(Root) EXCEPT ![n] = EmptySlot("new")]
  <2>3. /\ P \in [Service -> ServiceSlot]
        /\ \A u \in Service \ {Root, n} : P[u] = slot[u]
        /\ P[n] = EmptySlot("new")
        /\ P[Root].status = "alive" /\ P[Root].out = NULL /\ P[Root].queue = slot[Root].queue
    BY <1>r, <1>3, <1>4, <2>1, <2>2 DEF MessageOut, ServiceSlot
  <2>4. slot' = WithReceipt(P, Root, "response", m)
    BY <1>2
  <2> HIDE DEF P
  <2> QED BY <1>r, <1>4, <2>3, <2>4 DEF WithReceipt, ServiceSlot
<1>6. Answers(Root, m, <<"bounce", Root>>)
  <2>1. ASSUME NEW u \in Service, u # Root
        PROVE  /\ slot'[u].out = slot[u].out /\ slot'[u].bounce = slot[u].bounce
               /\ slot'[u].queue = slot[u].queue /\ slot'[u].receipt = slot[u].receipt
               /\ slot'[u] = slot[u] \/ slot'[u] = EmptySlot("new")
    BY <1>4, <1>5, <2>1 DEF EmptySlot
  <2> QED BY <1>5, <2>1 DEF Answers
<1>7. /\ <<"bounce", Root>> \in {<<"bounce", Root>>, Nowhere} \cup {<<"queue", u>> : u \in Service}
      /\ <<"bounce", Root>> # Nowhere /\ {} \in SUBSET {m} /\ m \notin {}
  BY DEF Nowhere
<1> QED BY <1>r, <1>2, <1>3, <1>6, <1>7, AnswersKept

LEMMA DispatchDelKept ==
  ASSUME MemInv, NEW m \in Struct, DispatchDel(m)
  PROVE  MemInv'
<1>r. Root \in Service
  BY RootTyped
<1>2. /\ Out(Root, m)
      /\ Delete({m} \cup Unread(Root))
      /\ slot' = WithReceipt(MessageOut(Root), Root, "done", NULL)
      /\ phase' = phase /\ vm' = vm /\ handle' = handle /\ sending' = sending
      /\ lost' = lost \cup {}
  BY DEF DispatchDel, Answer
<1>3. /\ phase = "run" /\ slot[Root].status = "alive" /\ slot[Root].out = m
      /\ slot \in [Service -> ServiceSlot]
  BY <1>r, <1>2, OutTyped
<1>5. Answers(Root, m, Nowhere)
  BY <1>r, <1>2, <1>3 DEF Answers, WithReceipt, MessageOut, ServiceSlot, Nowhere
<1>6. /\ Nowhere \in {<<"bounce", Root>>, Nowhere} \cup {<<"queue", u>> : u \in Service}
      /\ {} \in SUBSET {m} /\ {m} \in SUBSET {m} /\ m \in {m} \cup {} /\ m \notin {}
  OBVIOUS
<1> QED BY <1>r, <1>2, <1>3, <1>5, <1>6, AnswersKept

LEMMA DispatchHangGoneKept ==
  ASSUME MemInv, NEW m \in Struct, DispatchHangGone(m)
  PROVE  MemInv'
<1>r. Root \in Service
  BY RootTyped
<1>2. /\ Out(Root, m) /\ heap[m].type = "hang"
      /\ Delete({} \cup Unread(Root))
      /\ slot' = WithReceipt(MessageOut(Root), Root, "done", NULL)
      /\ phase' = phase /\ vm' = vm /\ handle' = handle /\ sending' = sending
      /\ lost' = lost \cup {m}
  BY DEF DispatchHangGone, Answer
<1>3. /\ phase = "run" /\ slot[Root].status = "alive" /\ slot[Root].out = m
      /\ slot \in [Service -> ServiceSlot]
  BY <1>r, <1>2, OutTyped
<1>5. Answers(Root, m, Nowhere)
  BY <1>r, <1>2, <1>3 DEF Answers, WithReceipt, MessageOut, ServiceSlot, Nowhere
<1>6. /\ Nowhere \in {<<"bounce", Root>>, Nowhere} \cup {<<"queue", u>> : u \in Service}
      /\ {} \in SUBSET {m} /\ {m} \in SUBSET {m} /\ m \in {} \cup {m}
  OBVIOUS
<1> QED BY <1>r, <1>2, <1>3, <1>5, <1>6, AnswersKept
-----------------------------------------------------------------------------
(* A service ends or is hung up: service_send_signal.                      *)

SignalFields(s, c) ==
  /\ slot' \in [Service -> ServiceSlot]
  /\ slot'[s].status = "dead" /\ slot'[s].out = c
  /\ slot'[s].bounce = slot[s].bounce /\ slot'[s].receipt = slot[s].receipt
  /\ \A u \in Service \ {s} :
       \/ slot'[u] = slot[u]
       \/ u = Root /\ slot'[u].status = "alive" /\ (slot'[u].receipt = "none" => slot'[u].bounce = NULL)

LEMMA SignalKept ==
  ASSUME MemInv, NEW s \in Service, s # Root, NEW c \in Struct, heap[c] = Unallocated,
         NEW A \in SUBSET Struct, A \subseteq {slot[Root].bounce},
         NEW leak \in SUBSET Struct,
         leak \subseteq {slot[Root].out}, \A a \in leak : heap[a].type = "hang",
         \A a \in Struct :
           heap'[a] = IF a = c THEN [to |-> Root, type |-> "signal", msg |-> NULL]
                      ELSE IF a \in A \/ a = slot[s].out THEN Unallocated ELSE heap[a],
         heap' = [a \in Struct |-> heap'[a]],
         block' = block \ Payload(A \cup ({slot[s].out} \ {NULL})),
         SignalFields(s, c),
         phase' = phase, phase # "end", vm' = vm, handle' = handle, sending' = sending,
         lost' = lost \cup leak,
         \A a \in Struct : StructKept(a)'
  PROVE  MemInv'
<1>s. MemoryTypeOK /\ slot \in [Service -> ServiceSlot] /\ heap \in [Struct -> Message \cup {Unallocated}]
      /\ (\A u \in Service : SlotKept(u)) /\ slot[s].out \in Struct \cup {NULL}
      /\ Struct \cap Block = {} /\ Root \in Service
  BY SlotTypes DEF MemInv, MemoryTypeOK, MemoryAssumption
<1>n. NULL \notin Struct /\ NULL \notin Block /\ Unallocated \notin Message
  BY NullApart
<1>o. ASSUME NEW a \in A \cup ({slot[s].out} \ {NULL})
      PROVE  a \in Struct /\ Due(a) /\ (At(a, <<"bounce", Root>>) \/ At(a, <<"out", s>>))
  <2>1. a \in Struct /\ (a = slot[Root].bounce \/ a = slot[s].out)
    BY <1>s
  <2> QED BY <1>s, <2>1, PointedAt
<1>l. ASSUME NEW a \in leak
      PROVE  Due(a) /\ At(a, <<"out", Root>>)
  BY <1>s, PointedAt
<1>c. c \notin lost /\ At(c, Nowhere) /\ ~Due(c)
  BY FreeAddress DEF Due
<1>f. ASSUME NEW a \in Struct, heap'[a] # heap[a]
      PROVE  a = c \/ At(a, <<"bounce", Root>>) \/ At(a, <<"out", s>>)
  BY <1>f, <1>o, <1>s, <1>n
<1>t. MemoryTypeOK'
  <2>1. [to |-> Root, type |-> "signal", msg |-> NULL] \in Message
    BY <1>s DEF Message
  <2>2. heap' \in [Struct -> Message \cup {Unallocated}]
    BY <1>s, <2>1
  <2>3. block' \subseteq Block
    BY <1>s DEF MemoryTypeOK
  <2>4. lost' \subseteq Struct \cup Block
    BY <1>s DEF MemoryTypeOK
  <2> QED BY <1>s, <2>2, <2>3, <2>4 DEF MemoryTypeOK, SignalFields
<1>2. ASSUME NEW b \in Block
      PROVE  BlockKept(b)'
  <2>1. A \cup ({slot[s].out} \ {NULL}) \in SUBSET Struct
    BY <1>s
  <2>2. \A a \in Struct : Carries(a, b)' <=> Carries(a, b) /\ a \notin A \cup ({slot[s].out} \ {NULL})
    BY <1>n DEF Carries
  <2>3. /\ {} \in SUBSET VM
        /\ \A u \in VM : vm'[u] = IF u \in {} THEN {} ELSE vm[u]
        /\ b \in lost' <=> b \in lost \/ \E u \in {} : b \in vm[u]
    BY <1>s
  <2> QED BY <2>1, <2>2, <2>3, Deletes
<1>3. ASSUME NEW u \in Service
      PROVE  SlotKept(u)'
  <2>1. CASE u = s
    <3>1. heap'[c].type = "signal"
      OBVIOUS
    <3>2. slot'[s].receipt = "none" => slot'[s].bounce = NULL
      BY <1>s DEF SignalFields, SlotKept
    <3> QED BY <2>1, <3>1, <3>2 DEF SlotKept, SignalFields
  <2>2. CASE u # s /\ slot'[u] = slot[u]
    <3>1. slot[u].out # NULL /\ slot[u].status = "dead" /\ u # Root
            => heap'[slot[u].out] = heap[slot[u].out]
      <4>1. slot[u].out # NULL => slot[u].out \in Struct /\ At(slot[u].out, <<"out", u>>)
                                  /\ Due(slot[u].out)
        BY <1>s, SlotTypes, PointedAt
      <4> QED BY <2>2, <1>c, <1>f, <4>1 DEF At
    <3> QED BY <1>s, <2>2, <3>1 DEF SlotKept
  <2>3. CASE u = Root /\ slot'[u].status = "alive" /\ (slot'[u].receipt = "none" => slot'[u].bounce = NULL)
    BY <2>3 DEF SlotKept
  <2> QED BY <2>1, <2>2, <2>3 DEF SignalFields
<1>4. \A x \in Exclusive : SendingKept(x)'
  <2>1. ASSUME NEW x \in Exclusive, NEW a \in Struct, InQ(sending[x], a)
        PROVE  heap'[a] = heap[a]
    <3>1. At(a, <<"sending", x>>) /\ Due(a)
      BY <2>1, PointedAt
    <3> QED BY <1>c, <1>f, <3>1 DEF At
  <2> QED BY <2>1, SendingStays
<1>5. LostOK' /\ Ended'
  <2>1. ASSUME NEW a \in lost \cap Struct
        PROVE  heap'[a] = heap[a]
    <3>1. ~Due(a)
      BY DEF Due
    <3>2. a \notin A \cup ({slot[s].out} \ {NULL}) /\ a # c
      BY <1>c, <1>o, <3>1
    <3> QED BY <1>s, <1>n, <3>2
  <2>2. ASSUME NEW a \in leak
        PROVE  heap'[a] = heap[a] /\ heap[a] # Unallocated
    <3>1. Due(a) /\ At(a, <<"out", Root>>)
      BY <1>l
    <3>2. ~At(a, <<"bounce", Root>>) /\ ~At(a, <<"out", s>>)
      BY <1>s, <3>1 DEF At
    <3> QED BY <1>c, <1>f, <3>1, <3>2 DEF Due
  <2>3. LostOK'
    BY <2>1, <2>2 DEF MemInv, LostOK
  <2> QED BY <2>3 DEF Ended
<1> QED BY <1>t, <1>2, <1>3, <1>4, <1>5 DEF MemInv
LEMMA QuitKept ==
  ASSUME MemInv, NEW s \in Service, NEW c \in Struct, Quit(s, c)
  PROVE  MemInv'
<1>p. /\ phase' = phase /\ phase # "end" /\ s # Root /\ heap[c] = Unallocated
      /\ vm' = vm /\ handle' = handle /\ sending' = sending /\ lost' = lost \cup {}
      /\ slot' = [slot EXCEPT ![s].status = "dead", ![s].out = c]
      /\ heap' = [a \in Struct |->
                    IF a = c THEN [to |-> Root, type |-> "signal", msg |-> NULL]
                    ELSE IF a \in {} \cup ({slot[s].out} \ {NULL}) THEN Unallocated ELSE heap[a]]
      /\ block' = block \ Payload({} \cup ({slot[s].out} \ {NULL}))
  BY DEF Quit, Runs, SendSignal
<1>s. MemoryTypeOK /\ slot \in [Service -> ServiceSlot] /\ slot[s].out \in Struct \cup {NULL}
  BY SlotTypes DEF MemInv, MemoryTypeOK
<1>n. NULL \notin Struct /\ Unallocated \notin Message
  BY NullApart
<1>f. /\ slot' \in [Service -> ServiceSlot]
      /\ \A u \in Service : /\ slot'[u].status = IF u = s THEN "dead" ELSE slot[u].status
                            /\ slot'[u].out = IF u = s THEN c ELSE slot[u].out
                            /\ slot'[u].bounce = slot[u].bounce
                            /\ slot'[u].receipt = slot[u].receipt
                            /\ slot'[u].queue = slot[u].queue
                            /\ u # s => slot'[u] = slot[u]
  BY <1>p, <1>s DEF ServiceSlot
<1>h. /\ \A a \in Struct :
           heap'[a] = IF a = c THEN [to |-> Root, type |-> "signal", msg |-> NULL]
                      ELSE IF a \in {} \/ a = slot[s].out THEN Unallocated ELSE heap[a]
      /\ heap' = [a \in Struct |-> heap'[a]]
  BY <1>p, <1>s, <1>n
<1>c. c \notin lost /\ At(c, Nowhere)
  BY <1>p, FreeAddress
<1>u. /\ \A a \in Struct \ {c} : Due(a)' <=> Due(a) /\ slot[s].out # a
      /\ Due(c)'
  <2>1. Root \in Service
    BY RootTyped
  <2>2. [to |-> Root, type |-> "signal", msg |-> NULL] \in Message
    BY <2>1 DEF Message
  <2> QED BY <1>p, <1>h, <1>c, <1>n, <2>2 DEF Due
<1>1. \A a \in Struct : StructKept(a)'
  <2>1. <<"out", s>> \in Spots \cup {Nowhere} /\ Nowhere \in Spots \cup {Nowhere}
        /\ {} \in SUBSET Service /\ {s} \in SUBSET Service /\ <<"out", s>> # Nowhere
    BY DEF Spots, Nowhere
  <2>2. Moves(c, Nowhere, <<"out", s>>, {}, {s})
    BY <1>p, <1>c, <1>f, <1>u, <2>1 DEF Moves, Nowhere
  <2> QED BY <2>1, <2>2, StructMoves
<1>2. SignalFields(s, c)
  BY <1>f DEF SignalFields
<1>3. /\ {} \in SUBSET Struct /\ {} \subseteq {slot[Root].bounce} /\ {} \subseteq {slot[Root].out}
      /\ \A a \in {} : heap[a].type = "hang"
  OBVIOUS
<1> QED BY <1>p, <1>h, <1>1, <1>2, <1>3, SignalKept, ZenonT(60)

(* HANG of s: s signals, and the message m of root is handed back or lost. *)
LEMMA HangKept ==
  ASSUME MemInv, NEW m \in Struct, NEW s \in Service, NEW c \in Struct,
         Out(Root, m), heap[m].type = "hang", s # Root, NEW back \in {m, NULL},
         NEW r \in {"done", "error"}, NEW leak \in SUBSET Struct,
         leak = IF back = m THEN {} ELSE {m},
         SendSignal(WithReceipt(MessageOut(Root), Root, r, back), s, c, Unread(Root)),
         phase' = phase, vm' = vm, handle' = handle, sending' = sending,
         lost' = lost \cup leak
  PROVE  MemInv'
<1>r. Root \in Service
  BY RootTyped
<1>s. MemoryTypeOK /\ slot \in [Service -> ServiceSlot] /\ slot[s].out \in Struct \cup {NULL}
      /\ slot[Root].bounce \in Struct \cup {NULL}
      /\ heap \in [Struct -> Message \cup {Unallocated}] /\ SlotKept(Root)
  BY <1>r, SlotTypes DEF MemInv, MemoryTypeOK
<1>n. NULL \notin Struct /\ Unallocated \notin Message
  BY NullApart
<1>o. phase = "run" /\ slot[Root].status = "alive" /\ slot[Root].out = m
  BY <1>r, OutTyped
<1>m. At(m, <<"out", Root>>) /\ Due(m)
  BY <1>r, <1>o, PointedAt
<1>a. /\ Unread(Root) \in SUBSET Struct /\ Unread(Root) \subseteq {slot[Root].bounce}
      /\ \A a \in Struct : a \in Unread(Root) <=> a = slot[Root].bounce
  BY <1>s, <1>n DEF Unread, SlotKept
<1>p. /\ heap[c] = Unallocated
      /\ heap' = [a \in Struct |->
                    IF a = c THEN [to |-> Root, type |-> "signal", msg |-> NULL]
                    ELSE IF a \in Unread(Root) \cup ({slot[s].out} \ {NULL}) THEN Unallocated
                    ELSE heap[a]]
      /\ block' = block \ Payload(Unread(Root) \cup ({slot[s].out} \ {NULL}))
      /\ slot' = [WithReceipt(MessageOut(Root), Root, r, back) EXCEPT ![s].status = "dead",
                                                                     ![s].out = c]
  BY DEF SendSignal
<1>c. c \notin lost /\ At(c, Nowhere) /\ c # m
  <2>1. c \notin lost /\ At(c, Nowhere)
    BY <1>p, FreeAddress
  <2> QED BY <1>m, <1>p, <2>1 DEF Due
<1>f. /\ slot' \in [Service -> ServiceSlot]
      /\ \A u \in Service : /\ slot'[u].status = IF u = s THEN "dead" ELSE slot[u].status
                            /\ slot'[u].out = IF u = s THEN c ELSE IF u = Root THEN NULL
                                              ELSE slot[u].out
                            /\ slot'[u].bounce = IF u = Root THEN back ELSE slot[u].bounce
                            /\ slot'[u].receipt = IF u = Root THEN r ELSE slot[u].receipt
                            /\ slot'[u].queue = slot[u].queue
                            /\ u \notin {s, Root} => slot'[u] = slot[u]
  <2>0. MessageOut(Root) = WithOut(slot, Root, NULL)
    BY DEF MessageOut, WithOut
  <2>1. /\ MessageOut(Root) \in [Service -> ServiceSlot]
        /\ \A u \in Service : /\ MessageOut(Root)[u].status = slot[u].status
                              /\ MessageOut(Root)[u].queue = slot[u].queue
                              /\ MessageOut(Root)[u].bounce = slot[u].bounce
                              /\ MessageOut(Root)[u].receipt = slot[u].receipt
                              /\ MessageOut(Root)[u].out = IF u = Root THEN NULL ELSE slot[u].out
                              /\ u # Root => MessageOut(Root)[u] = slot[u]
    BY <1>r, <1>s, <2>0, OutSet
  <2> DEFINE P == WithReceipt(MessageOut(Root), Root, r, back)
  <2>2. /\ P \in [Service -> ServiceSlot]
        /\ \A u \in Service : /\ P[u].status = MessageOut(Root)[u].status
                              /\ P[u].queue = MessageOut(Root)[u].queue
                              /\ P[u].out = MessageOut(Root)[u].out
                              /\ P[u].bounce = IF u = Root THEN back ELSE MessageOut(Root)[u].bounce
                              /\ P[u].receipt = IF u = Root THEN r ELSE MessageOut(Root)[u].receipt
                              /\ u # Root => P[u] = MessageOut(Root)[u]
    BY <1>r, <2>1, ReceiptSet
  <2>3. slot' = [P EXCEPT ![s].status = "dead", ![s].out = c]
    BY <1>p
  <2> HIDE DEF P
  <2>4. slot' = WithOut(WithStatus(P, s, "dead"), s, c)
    BY <2>2, <2>3 DEF WithOut, WithStatus
  <2> DEFINE Q == WithStatus(P, s, "dead")
  <2>5. /\ Q \in [Service -> ServiceSlot]
        /\ \A u \in Service : /\ Q[u].queue = P[u].queue /\ Q[u].out = P[u].out
                              /\ Q[u].bounce = P[u].bounce /\ Q[u].receipt = P[u].receipt
                              /\ Q[u].status = IF u = s THEN "dead" ELSE P[u].status
                              /\ u # s => Q[u] = P[u]
    BY <2>2, StatusSet
  <2> HIDE DEF Q
  <2>6. /\ slot' \in [Service -> ServiceSlot]
        /\ \A u \in Service : /\ slot'[u].queue = Q[u].queue /\ slot'[u].status = Q[u].status
                              /\ slot'[u].bounce = Q[u].bounce /\ slot'[u].receipt = Q[u].receipt
                              /\ slot'[u].out = IF u = s THEN c ELSE Q[u].out
                              /\ u # s => slot'[u] = Q[u]
    BY <2>4, <2>5, OutSet DEF Q
  <2> QED BY <1>r, <2>1, <2>2, <2>5, <2>6
<1>h. /\ \A a \in Struct :
           heap'[a] = IF a = c THEN [to |-> Root, type |-> "signal", msg |-> NULL]
                      ELSE IF a \in Unread(Root) \/ a = slot[s].out THEN Unallocated ELSE heap[a]
      /\ heap' = [a \in Struct |-> heap'[a]]
  BY <1>p, <1>s, <1>n
<1>u. /\ \A a \in Struct \ {c, m} : Due(a)' <=> Due(a) /\ slot[s].out # a /\ slot[Root].bounce # a
      /\ Due(c)'
      /\ Due(m)' <=> back = m
  <2>2. [to |-> Root, type |-> "signal", msg |-> NULL] \in Message
    BY <1>r DEF Message
  <2>3. ASSUME NEW a \in Struct \ {c, m}
        PROVE  Due(a)' <=> Due(a) /\ slot[s].out # a /\ slot[Root].bounce # a
    BY <1>a, <1>h DEF Due
  <2>4. Due(c)'
    BY <1>h, <1>c, <1>n, <2>2 DEF Due
  <2>5. m \notin Unread(Root) /\ slot[s].out # m
    BY <1>r, <1>m, <1>a DEF At
  <2>6. Due(m)' <=> back = m
    BY <1>h, <1>c, <1>m, <2>5 DEF Due
  <2> QED BY <2>3, <2>4, <2>6
<1>1. ASSUME NEW a \in Struct
      PROVE  StructKept(a)'
  <2>a. Once(a)
    BY Whereabouts
  <2>b. Once(a)'
    BY <1>f, <2>a DEF Once
  <2>1. PICK here \in Spots \cup {Nowhere} : At(a, here) /\ (Due(a) <=> here # Nowhere)
    BY Whereabouts
  <2>s. /\ <<"out", s>> \in Spots \cup {Nowhere} /\ <<"out", s>> # Nowhere
        /\ <<"bounce", Root>> \in Spots \cup {Nowhere} /\ <<"bounce", Root>> # Nowhere
    BY <1>r DEF Spots, Nowhere
  <2>2. CASE a = c
    <3>1. At(a, <<"out", s>>)'
      BY <1>c, <1>n, <1>f, <2>2 DEF At, Nowhere
    <3> QED BY <1>u, <2>2, <2>b, <2>s, <3>1, KeptAt
  <2>3. CASE a = m /\ back = m
    <3>1. At(a, <<"bounce", Root>>)'
      BY <1>r, <1>c, <1>m, <1>n, <1>f, <2>3 DEF At, Nowhere
    <3> QED BY <1>u, <2>3, <2>b, <2>s, <3>1, KeptAt
  <2>4. CASE a = m /\ back # m
    <3>1. At(a, Nowhere)'
      BY <1>r, <1>c, <1>m, <1>n, <1>f, <2>4 DEF At, Nowhere
    <3> QED BY <1>u, <2>4, <2>b, <3>1, KeptAt
  <2>5. CASE a \notin {c, m} /\ a = slot[Root].bounce
    <3>1. here = <<"bounce", Root>>
      BY <1>r, <2>1, <2>5 DEF At
    <3>2. At(a, Nowhere)'
      BY <1>r, <1>n, <1>f, <2>1, <2>5, <3>1 DEF At, Nowhere
    <3> QED BY <1>u, <2>5, <2>b, <3>2, KeptAt
  <2>6. CASE a \notin {c, m} /\ a = slot[s].out
    <3>1. here = <<"out", s>>
      BY <2>1, <2>6 DEF At
    <3>2. At(a, Nowhere)'
      BY <1>n, <1>f, <2>1, <2>6, <3>1 DEF At, Nowhere
    <3> QED BY <1>u, <2>6, <2>b, <3>2, KeptAt
  <2>7. CASE a \notin {c, m} /\ a # slot[Root].bounce /\ a # slot[s].out
    <3>1. At(a, here)'
      BY <1>r, <1>o, <1>n, <1>f, <2>1, <2>7 DEF At
    <3> QED BY <1>u, <2>1, <2>7, <2>b, <3>1, KeptAt
  <2> QED BY <2>2, <2>3, <2>4, <2>5, <2>6, <2>7
<1>2. SignalFields(s, c)
  BY <1>r, <1>o, <1>f DEF SignalFields
<1>3. phase # "end" /\ leak \subseteq {slot[Root].out} /\ \A a \in leak : heap[a].type = "hang"
  BY <1>o
<1> QED BY <1>p, <1>h, <1>a, <1>1, <1>2, <1>3, SignalKept

LEMMA DispatchHangKept ==
  ASSUME MemInv, NEW m \in Struct, NEW s \in Service, NEW c \in Struct, DispatchHang(m, s, c)
  PROVE  MemInv'
<1>1. /\ Out(Root, m) /\ heap[m].type = "hang" /\ s # Root
      /\ phase' = phase /\ vm' = vm /\ handle' = handle /\ sending' = sending
  BY DEF DispatchHang
<1>n. NULL # m
  BY NullApart
<1>2. CASE /\ SendSignal(WithReceipt(MessageOut(Root), Root, "error", m), s, c, Unread(Root))
           /\ lost' = lost
  <2>1. lost' = lost \cup {} /\ {} \in SUBSET Struct
    BY <1>2
  <2> QED BY <1>1, <1>2, <2>1, HangKept
<1>3. CASE /\ SendSignal(WithReceipt(MessageOut(Root), Root, "done", NULL), s, c, Unread(Root))
           /\ lost' = lost \cup {m}
  <2>1. {m} \in SUBSET Struct /\ {m} = IF NULL = m THEN {} ELSE {m}
    BY <1>n
  <2> QED BY <1>1, <1>3, <2>1, HangKept
<1> QED BY <1>2, <1>3 DEF DispatchHang
-----------------------------------------------------------------------------
(* A service is closed, with what it owns.                                 *)

LEMMA Owns ==
  ASSUME MemInv, NEW s \in Service
  PROVE  /\ Owned(s) \in SUBSET Struct
         /\ \A a \in Struct : a \in Owned(s) <=> \/ slot[s].out = a \/ slot[s].bounce = a
                                                 \/ InQ(slot[s].queue, a)
<1>1. slot[s].queue \in Seq(Struct) /\ slot[s].out \in Struct \cup {NULL}
      /\ slot[s].bounce \in Struct \cup {NULL}
  BY SlotTypes DEF MemInv
<1>2. \A i \in DOMAIN slot[s].queue : slot[s].queue[i] \in Struct
  BY <1>1
<1>3. NULL \notin Struct
  BY NullApart
<1>4. Owned(s) \in SUBSET Struct
  BY <1>1, <1>2 DEF Owned
<1>5. \A a \in Struct : a \in Owned(s) <=> \/ slot[s].out = a \/ slot[s].bounce = a
                                           \/ InQ(slot[s].queue, a)
  BY <1>3 DEF Owned, InQ
<1> QED BY <1>4, <1>5

LEMMA EmptyFields ==
  ASSUME NEW st \in {"none", "new"}
  PROVE  /\ EmptySlot(st) \in ServiceSlot /\ EmptySlot(st).status = st
         /\ EmptySlot(st).out = NULL /\ EmptySlot(st).bounce = NULL
         /\ EmptySlot(st).queue = <<>> /\ EmptySlot(st).receipt = "none"
BY DEF EmptySlot, ServiceSlot

LEMMA ClosedKept ==
  ASSUME MemInv, NEW s \in Service, NEW leak \in SUBSET Struct, leak \subseteq {slot[s].out},
         \A a \in leak : heap[a].type = "signal",
         Delete(Owned(s) \ leak), slot' = [slot EXCEPT ![s] = EmptySlot("none")],
         vm' = [vm EXCEPT ![s] = {}], lost' = lost \cup vm[s] \cup leak,
         phase' = phase, phase # "end", handle' = handle, sending' = sending
  PROVE  MemInv'
<1>s. MemoryTypeOK /\ slot \in [Service -> ServiceSlot] /\ heap \in [Struct -> Message \cup {Unallocated}]
      /\ (\A u \in Service : SlotKept(u)) /\ Struct \cap Block = {}
      /\ vm \in [VM -> SUBSET Block] /\ s \in VM
  BY DEF MemInv, MemoryTypeOK, MemoryAssumption, VM
<1>n. NULL \notin Struct /\ Unallocated \notin Message
  BY NullApart
<1>o. /\ Owned(s) \in SUBSET Struct /\ Owned(s) \ leak \in SUBSET Struct
      /\ \A a \in Struct : a \in Owned(s) <=> \/ slot[s].out = a \/ slot[s].bounce = a
                                              \/ InQ(slot[s].queue, a)
  BY Owns
<1>l. \A a \in leak : a \in Struct /\ a \in Owned(s)
  BY <1>o
<1>f. /\ slot' \in [Service -> ServiceSlot]
      /\ slot'[s].status = "none" /\ slot'[s] = EmptySlot("none")
      /\ slot'[s].out = NULL /\ slot'[s].bounce = NULL /\ slot'[s].queue = <<>>
      /\ \A u \in Service \ {s} : slot'[u] = slot[u]
  BY <1>s, EmptyFields
<1>h. /\ \A a \in Struct : heap'[a] = IF a \in Owned(s) \ leak THEN Unallocated ELSE heap[a]
      /\ block' = block \ Payload(Owned(s) \ leak)
  BY DEF Delete
<1>v. \A a \in Struct : a \notin vm[s]
  BY <1>s
<1>u. \A a \in Struct : Due(a)' <=> Due(a) /\ a \notin Owned(s)
  <2>1. ASSUME NEW a \in Struct, a \in Owned(s)
        PROVE  ~Due(a)'
    BY <1>h, <2>1 DEF Due
  <2>2. ASSUME NEW a \in Struct, a \notin Owned(s)
        PROVE  Due(a)' <=> Due(a)
    BY <1>h, <1>l, <1>v, <2>2 DEF Due
  <2> QED BY <2>1, <2>2
<1>t. MemoryTypeOK'
  <2>1. heap' \in [Struct -> Message \cup {Unallocated}]
    BY <1>s DEF Delete
  <2>2. block' \subseteq Block
    BY <1>s, <1>h DEF MemoryTypeOK
  <2>3. vm' \in [VM -> SUBSET Block]
    BY <1>s
  <2>4. lost' \subseteq Struct \cup Block
    BY <1>s DEF MemoryTypeOK
  <2> QED BY <1>s, <1>f, <2>1, <2>2, <2>3, <2>4 DEF MemoryTypeOK
<1>1. ASSUME NEW a \in Struct
      PROVE  StructKept(a)'
  <2>a. Once(a)
    BY Whereabouts
  <2>b. Once(a)'
    <3>1. OnceQ(slot'[s].queue, a)
      BY <1>f, EmptyQueue
    <3> QED BY <1>f, <2>a, <3>1 DEF Once
  <2>1. PICK here \in Spots \cup {Nowhere} : At(a, here) /\ (Due(a) <=> here # Nowhere)
    BY Whereabouts
  <2>q. ~InQ(slot'[s].queue, a)
    BY <1>f, EmptyQueue
  <2>2. CASE a \in Owned(s)
    <3>1. here \in {<<"out", s>>, <<"bounce", s>>, <<"queue", s>>}
      BY <1>o, <2>1, <2>2 DEF At
    <3>2. At(a, Nowhere)'
      BY <1>f, <1>n, <2>q, <2>1, <3>1 DEF At, Nowhere
    <3> QED BY <1>u, <2>2, <2>b, <3>2, KeptAt
  <2>3. CASE a \notin Owned(s)
    <3>1. here \notin {<<"out", s>>, <<"bounce", s>>, <<"queue", s>>}
      BY <1>o, <2>1, <2>3 DEF At
    <3>2. At(a, here)'
      BY <1>f, <1>n, <2>q, <2>1, <3>1 DEF At
    <3> QED BY <1>u, <2>1, <2>3, <2>b, <3>2, KeptAt
  <2> QED BY <2>2, <2>3
<1>2. ASSUME NEW b \in Block
      PROVE  BlockKept(b)'
  <2>1. \A a \in Struct : Carries(a, b)' <=> Carries(a, b) /\ a \notin Owned(s) \ leak
    BY <1>h DEF Carries
  <2>2. /\ {s} \in SUBSET VM
        /\ \A u \in VM : vm'[u] = IF u \in {s} THEN {} ELSE vm[u]
        /\ b \in lost' <=> b \in lost \/ \E u \in {s} : b \in vm[u]
    BY <1>s
  <2> QED BY <1>o, <1>h, <2>1, <2>2, Deletes
<1>3. ASSUME NEW u \in Service
      PROVE  SlotKept(u)'
  <2>1. CASE u = s
    BY <1>f, <2>1, EmptyFields DEF SlotKept
  <2>2. CASE u # s
    <3>1. slot[u].out # NULL => heap'[slot[u].out] = heap[slot[u].out]
      <4>1. slot[u].out # NULL => slot[u].out \in Struct /\ At(slot[u].out, <<"out", u>>)
        BY <1>s, SlotTypes, PointedAt
      <4> QED BY <1>h, <1>o, <2>2, <4>1 DEF At
    <3> QED BY <1>s, <1>f, <2>2, <3>1 DEF SlotKept
  <2> QED BY <2>1, <2>2
<1>4. \A x \in Exclusive : SendingKept(x)'
  <2>1. ASSUME NEW x \in Exclusive, NEW a \in Struct, InQ(sending[x], a)
        PROVE  heap'[a] = heap[a]
    <3>1. At(a, <<"sending", x>>)
      BY <2>1, PointedAt
    <3>2. a \notin Owned(s)
      BY <1>o, <3>1 DEF At
    <3> QED BY <1>h, <3>2
  <2> QED BY <2>1, SendingStays
<1>5. LostOK' /\ Ended'
  <2>1. ASSUME NEW a \in lost \cap Struct
        PROVE  heap'[a] = heap[a]
    <3>1. ~Due(a)
      BY DEF Due
    <3>2. a \notin Owned(s)
      BY <1>o, <3>1, PointedAt
    <3> QED BY <1>h, <3>2
  <2>2. ASSUME NEW a \in leak
        PROVE  heap'[a] = heap[a] /\ heap[a] # Unallocated
    <3>1. Due(a)
      BY <1>l, <1>o, PointedAt
    <3> QED BY <1>h, <1>l, <3>1 DEF Due
  <2>3. LostOK'
    BY <1>v, <2>1, <2>2 DEF MemInv, LostOK
  <2> QED BY <2>3 DEF Ended
<1> QED BY <1>t, <1>1, <1>2, <1>3, <1>4, <1>5 DEF MemInv

LEMMA CloseServiceKept ==
  ASSUME MemInv, NEW s \in Service, CloseService(s)
  PROVE  MemInv'
<1>1. /\ phase' = phase /\ phase # "end" /\ handle' = handle /\ sending' = sending
      /\ Delete(Owned(s)) /\ slot' = [slot EXCEPT ![s] = EmptySlot("none")]
      /\ vm' = [vm EXCEPT ![s] = {}] /\ lost' = lost \cup vm[s] \cup {}
  BY DEF CloseService, ServiceDelete, Runs
<1>2. Owned(s) \ {} = Owned(s)
  OBVIOUS
<1>3. Delete(Owned(s) \ {})
  BY <1>1, <1>2
<1>4. {} \in SUBSET Struct /\ {} \subseteq {slot[s].out} /\ \A a \in {} : heap[a].type = "signal"
  OBVIOUS
<1> QED BY <1>1, <1>3, <1>4, ClosedKept

LEMMA DeinitKept ==
  ASSUME MemInv, Deinit
  PROVE  MemInv'
<1>s. MemoryTypeOK /\ slot \in [Service -> ServiceSlot] /\ heap \in [Struct -> Message \cup {Unallocated}]
      /\ sending \in [Exclusive -> Seq(Struct)] /\ Struct \cap Block = {}
      /\ vm \in [VM -> SUBSET Block] /\ LengthSending \in Nat
  BY DEF MemInv, MemoryTypeOK, MemoryAssumption
<1>d. /\ phase' = "end" /\ Delete(Released \cup Destroyed)
      /\ slot' = [u \in Service |-> EmptySlot("none")] /\ vm' = [u \in VM |-> {}]
      /\ sending' = [x \in Exclusive |-> <<>>]
      /\ lost' = lost \cup UNION {vm[u] : u \in VM} /\ handle' = {}
  BY DEF Deinit
<1>n. NULL \notin Struct
  BY NullApart
<1>a. /\ Released \cup Destroyed \in SUBSET Struct
      /\ \A a \in Struct : Due(a) => a \in Released \cup Destroyed
  <2>1. Destroyed \subseteq Struct
    BY Owns DEF Destroyed
  <2>2. Released \subseteq Struct
    <3>1. \A x \in Exclusive : \A i \in DOMAIN sending[x] : sending[x][i] \in Struct
      BY <1>s
    <3> QED BY <3>1 DEF Released
  <2>3. ASSUME NEW a \in Struct, Due(a)
        PROVE  a \in Released \cup Destroyed
    <3>1. PICK here \in Spots \cup {Nowhere} : At(a, here) /\ (Due(a) <=> here # Nowhere)
      BY Whereabouts
    <3>2. here \in Spots
      BY <2>3, <3>1
    <3>3. \/ here = <<"out", here[2]>> /\ here[2] \in Service
          \/ here = <<"bounce", here[2]>> /\ here[2] \in Service
          \/ here = <<"queue", here[2]>> /\ here[2] \in Service
          \/ here = <<"sending", here[2]>> /\ here[2] \in Exclusive
      BY <3>2, SpotKinds
    <3>4. CASE here[2] \in Service /\ here \in {<<"out", here[2]>>, <<"bounce", here[2]>>,
                                                <<"queue", here[2]>>}
      <4>1. a \in Owned(here[2])
        BY <3>1, <3>4, Owns DEF At
      <4> QED BY <3>4, <4>1 DEF Destroyed
    <3>5. CASE here = <<"sending", here[2]>> /\ here[2] \in Exclusive
      <4>1. InQ(sending[here[2]], a)
        BY <3>1, <3>5 DEF At
      <4> QED BY <3>5, <4>1 DEF Released, InQ
    <3> QED BY <3>3, <3>4, <3>5
  <2> QED BY <2>1, <2>2, <2>3
<1>h. /\ \A a \in Struct : heap'[a] = IF a \in Released \cup Destroyed THEN Unallocated ELSE heap[a]
      /\ block' = block \ Payload(Released \cup Destroyed)
  BY <1>d DEF Delete
<1>v. \A a \in Struct : a \in lost' <=> a \in lost
  BY <1>d, <1>s
<1>u. \A a \in Struct : ~Due(a)'
  BY <1>a, <1>h, <1>v DEF Due
<1>f. \A u \in Service : /\ slot'[u] = EmptySlot("none")
                         /\ slot'[u].out = NULL /\ slot'[u].bounce = NULL
                         /\ slot'[u].queue = <<>>
  BY <1>d, EmptyFields
<1>t. MemoryTypeOK'
  <2>1. heap' \in [Struct -> Message \cup {Unallocated}]
    BY <1>s, <1>d DEF Delete
  <2>2. block' \subseteq Block
    BY <1>s, <1>h DEF MemoryTypeOK
  <2>3. lost' \subseteq Struct \cup Block
    <3>1. \A u \in VM : vm[u] \subseteq Block
      BY <1>s
    <3> QED BY <1>s, <1>d, <3>1 DEF MemoryTypeOK
  <2>4. slot' \in [Service -> ServiceSlot]
    BY <1>d, EmptyFields
  <2>5. vm' \in [VM -> SUBSET Block] /\ sending' \in [Exclusive -> Seq(Struct)]
    BY <1>d
  <2> QED BY <1>d, <2>1, <2>2, <2>3, <2>4, <2>5 DEF MemoryTypeOK
<1>1. ASSUME NEW a \in Struct
      PROVE  StructKept(a)'
  <2>1. \A u \in Service : ~InQ(slot'[u].queue, a) /\ OnceQ(slot'[u].queue, a)
    BY <1>f, EmptyQueue
  <2>2. \A x \in Exclusive : ~InQ(sending'[x], a) /\ OnceQ(sending'[x], a)
    BY <1>d, EmptyQueue
  <2>3. At(a, Nowhere)'
    BY <1>f, <1>n, <2>1, <2>2 DEF At, Nowhere
  <2>4. Once(a)'
    BY <2>1, <2>2 DEF Once
  <2> QED BY <1>u, <2>3, <2>4, KeptAt
<1>2. ASSUME NEW b \in Block
      PROVE  BlockKept(b)'
  <2>1. \A a \in Struct : Carries(a, b)' <=> Carries(a, b) /\ a \notin Released \cup Destroyed
    BY <1>h DEF Carries
  <2>2. /\ VM \in SUBSET VM
        /\ \A u \in VM : vm'[u] = IF u \in VM THEN {} ELSE vm[u]
        /\ b \in lost' <=> b \in lost \/ \E u \in VM : b \in vm[u]
    BY <1>s, <1>d
  <2> QED BY <1>a, <1>h, <2>1, <2>2, Deletes
<1>3. \A u \in Service : SlotKept(u)'
  BY <1>f, EmptyFields DEF SlotKept
<1>4. ASSUME NEW x \in Exclusive
      PROVE  SendingKept(x)'
  <2>1. sending'[x] = <<>>
    BY <1>d
  <2> QED BY <1>s, <2>1 DEF SendingKept
<1>5. LostOK' /\ Ended'
  <2>1. ASSUME NEW a \in lost \cap Struct
        PROVE  heap'[a] = heap[a]
    <3>1. ~Due(a)
      BY DEF Due
    <3>2. a \notin Released \cup Destroyed
      <4>1. ASSUME NEW u \in Service
            PROVE  a \notin Owned(u)
        BY <3>1, Owns, PointedAt
      <4>2. ASSUME NEW x \in Exclusive
            PROVE  \A i \in DOMAIN sending[x] : sending[x][i] # a
        BY <3>1, PointedAt DEF InQ
      <4> QED BY <4>1, <4>2 DEF Released, Destroyed
    <3> QED BY <1>h, <3>2
  <2>2. LostOK'
    BY <1>v, <2>1 DEF MemInv, LostOK
  <2>3. Ended'
    BY <1>u DEF Ended, Due
  <2> QED BY <2>2, <2>3
<1> QED BY <1>t, <1>1, <1>2, <1>3, <1>4, <1>5 DEF MemInv
-----------------------------------------------------------------------------
(* The signal of a dead service, and the sending queues: a message moves or
   is freed, and nothing else.                                             *)

LEMMA MovedKept ==
  ASSUME MemInv, NEW m \in Struct,
         NEW from \in Spots \cup {Nowhere}, NEW to \in Spots \cup {Nowhere},
         At(m, from), Due(m), Moves(m, from, to, {}, {}),
         NEW leak \in SUBSET {m}, m \in leak => heap[m].type = "signal",
         heap' = heap, block' = block, vm' = vm, lost' = lost \cup leak,
         phase' = phase, phase # "end", handle' = handle,
         slot' \in [Service -> ServiceSlot], sending' \in [Exclusive -> Seq(Struct)],
         \A u \in Service : /\ slot'[u].status = slot[u].status
                            /\ slot'[u].out \in {NULL, slot[u].out}
                            /\ slot'[u].bounce = slot[u].bounce
                            /\ slot'[u].receipt = slot[u].receipt
                            /\ slot[u].status \in {"none", "new"} => slot'[u] = slot[u],
         \A x \in Exclusive : SendingKept(x)'
  PROVE  MemInv'
<1>s. MemoryTypeOK /\ (\A u \in Service : SlotKept(u)) /\ Struct \cap Block = {}
  BY DEF MemInv, MemoryAssumption
<1>t. MemoryTypeOK'
  BY <1>s DEF MemoryTypeOK
<1>1. \A a \in Struct : StructKept(a)'
  <2>1. {} \in SUBSET Service
    OBVIOUS
  <2> QED BY <2>1, StructMoves
<1>2. ASSUME NEW b \in Block
      PROVE  BlockKept(b)'
  <2>1. BlockKept(b)
    BY DEF MemInv
  <2>2. \A a \in Struct : Carries(a, b)' <=> Carries(a, b)
    BY DEF Carries
  <2>3. b \in lost' <=> b \in lost
    BY <1>s
  <2> QED BY <2>1, <2>2, <2>3, BlockSame
<1>3. ASSUME NEW u \in Service
      PROVE  SlotKept(u)'
  BY <1>s DEF SlotKept
<1>4. LostOK' /\ Ended'
  <2>1. m \in leak => heap[m] # Unallocated
    BY DEF Due
  <2> QED BY <2>1 DEF MemInv, LostOK, Ended
<1> QED BY <1>t, <1>1, <1>2, <1>3, <1>4 DEF MemInv

LEMMA DispatchSignalKept ==
  ASSUME MemInv, NEW s \in Service, DispatchSignal(s)
  PROVE  MemInv'
<1>r. Root \in Service
  BY RootTyped
<1>s. MemoryTypeOK /\ slot \in [Service -> ServiceSlot] /\ slot[s].out \in Struct \cup {NULL} /\ SlotKept(s)
      /\ sending \in [Exclusive -> Seq(Struct)] /\ \A x \in Exclusive : SendingKept(x)
  BY SlotTypes DEF MemInv, MemoryTypeOK
<1>n. NULL \notin Struct
  BY NullApart
<1>p. /\ phase' = phase /\ phase # "end" /\ handle' = handle /\ sending' = sending
      /\ s # Root /\ slot[s].status = "dead" /\ slot[s].out \in Struct
  BY <1>s DEF DispatchSignal
<1>v. PICK m \in Struct : m = slot[s].out
  BY <1>p
<1>m. At(m, <<"out", s>>) /\ Due(m) /\ heap[m].type = "signal"
  BY <1>s, <1>n, <1>p, <1>v, PointedAt DEF SlotKept
<1>k. <<"out", s>> \in Spots \cup {Nowhere} /\ Nowhere \in Spots \cup {Nowhere}
      /\ <<"queue", Root>> \in Spots \cup {Nowhere} /\ <<"queue", Root>> # Nowhere
  BY <1>r DEF Spots, Nowhere
<1>f. /\ MessageOut(s) \in [Service -> ServiceSlot]
      /\ \A u \in Service : /\ MessageOut(s)[u].status = slot[u].status
                            /\ MessageOut(s)[u].queue = slot[u].queue
                            /\ MessageOut(s)[u].bounce = slot[u].bounce
                            /\ MessageOut(s)[u].receipt = slot[u].receipt
                            /\ MessageOut(s)[u].out = IF u = s THEN NULL ELSE slot[u].out
                            /\ u # s => MessageOut(s)[u] = slot[u]
  <2>1. MessageOut(s) = WithOut(slot, s, NULL)
    BY DEF MessageOut, WithOut
  <2> QED BY <1>s, <2>1, OutSet
<1>x. \A x \in Exclusive, a \in Struct : InQ(sending[x], a) => heap[a] = heap[a]
  OBVIOUS
<1>1. CASE /\ Receives(Root)
           /\ slot' = [MessageOut(s) EXCEPT ![Root].queue = Append(@, m)]
           /\ UNCHANGED <<heap, block, vm, lost>>
  <2>1. /\ heap' = heap /\ block' = block /\ vm' = vm /\ lost' = lost \cup {}
        /\ {} \in SUBSET {m} /\ m \notin {}
    BY <1>1
  <2>2. slot[Root].queue \in Seq(Struct) /\ slot[Root].status = "alive"
    BY <1>1, <1>r, <1>s, SlotTypes DEF Receives, Alive
  <2>3. Append(slot[Root].queue, m) \in Seq(Struct)
    BY <1>p, <2>2
  <2>4. slot' = WithQueue(MessageOut(s), Root, Append(slot[Root].queue, m))
    BY <1>1, <1>r, <1>f DEF WithQueue
  <2>5. /\ slot' \in [Service -> ServiceSlot]
        /\ \A u \in Service : /\ slot'[u].status = slot[u].status
                              /\ slot'[u].out = IF u = s THEN NULL ELSE slot[u].out
                              /\ slot'[u].bounce = slot[u].bounce
                              /\ slot'[u].receipt = slot[u].receipt
                              /\ slot'[u].queue = IF u = Root
                                                  THEN Append(slot[u].queue, m)
                                                  ELSE slot[u].queue
                              /\ u \notin {s, Root} => slot'[u] = slot[u]
    <3> DEFINE P == WithQueue(MessageOut(s), Root, Append(slot[Root].queue, m))
    <3>1. /\ P \in [Service -> ServiceSlot]
          /\ \A u \in Service :
               /\ P[u].status = MessageOut(s)[u].status
               /\ P[u].out = MessageOut(s)[u].out
               /\ P[u].bounce = MessageOut(s)[u].bounce
               /\ P[u].receipt = MessageOut(s)[u].receipt
               /\ P[u].queue = IF u = Root THEN Append(slot[Root].queue, m)
                               ELSE MessageOut(s)[u].queue
               /\ u # Root => P[u] = MessageOut(s)[u]
      BY <1>f, <1>r, <2>3, QueueSet, ZenonT(60)
    <3>2. slot' = P
      BY <2>4
    <3> HIDE DEF P
    <3> QED BY <1>f, <3>1, <3>2
  <2>6. \A a \in Struct : Due(a)' <=> Due(a)
    BY <2>1 DEF Due
  <2>7. Moves(m, <<"out", s>>, <<"queue", Root>>, {}, {})
    BY <1>v, <1>m, <1>p, <1>k, <2>5, <2>6 DEF Moves
  <2>8. \A x \in Exclusive : SendingKept(x)'
    BY <1>s, <1>p, <2>1 DEF SendingKept
  <2>9. \A u \in Service : /\ slot'[u].status = slot[u].status
                           /\ slot'[u].out \in {NULL, slot[u].out}
                           /\ slot'[u].bounce = slot[u].bounce
                           /\ slot'[u].receipt = slot[u].receipt
                           /\ slot[u].status \in {"none", "new"} => slot'[u] = slot[u]
    BY <1>p, <2>2, <2>5
  <2>10. sending' \in [Exclusive -> Seq(Struct)]
    BY <1>s, <1>p
  <2> QED BY <1>m, <1>p, <1>k, <2>1, <2>5, <2>7, <2>8, <2>9, <2>10, MovedKept
<1>2. CASE /\ slot' = MessageOut(s)
           /\ lost' = lost \cup {m}
           /\ UNCHANGED <<heap, block, vm>>
  <2>1. /\ heap' = heap /\ block' = block /\ vm' = vm
        /\ {m} \in SUBSET {m} /\ lost' = lost \cup {m}
    BY <1>2
  <2>6. /\ \A a \in Struct \ {m} : Due(a)' <=> Due(a)
        /\ ~Due(m)'
    BY <1>p, <2>1 DEF Due
  <2>7. Moves(m, <<"out", s>>, Nowhere, {}, {})
    BY <1>2, <1>v, <1>m, <1>p, <1>f, <2>6 DEF Moves, Nowhere
  <2>8. \A x \in Exclusive : SendingKept(x)'
    BY <1>s, <1>p, <2>1 DEF SendingKept
  <2>9. \A u \in Service : /\ slot'[u].status = slot[u].status
                           /\ slot'[u].out \in {NULL, slot[u].out}
                           /\ slot'[u].bounce = slot[u].bounce
                           /\ slot'[u].receipt = slot[u].receipt
                           /\ slot[u].status \in {"none", "new"} => slot'[u] = slot[u]
    BY <1>2, <1>p, <1>f
  <2>10. slot' \in [Service -> ServiceSlot] /\ sending' \in [Exclusive -> Seq(Struct)]
    BY <1>2, <1>s, <1>p, <1>f
  <2> QED BY <1>2, <1>m, <1>p, <1>k, <2>1, <2>7, <2>8, <2>9, <2>10, MovedKept
<1>3. CASE /\ Delete(Owned(s) \ {m})
           /\ slot' = [slot EXCEPT ![s] = EmptySlot("none")]
           /\ vm' = [vm EXCEPT ![s] = {}]
           /\ lost' = lost \cup vm[s] \cup {m}
  <2>1. {m} \in SUBSET Struct /\ \A a \in {m} : heap[a].type = "signal"
    BY <1>m, <1>p
  <2>2. {m} \subseteq {slot[s].out}
    BY <1>v
  <2> QED BY <1>3, <1>p, <2>1, <2>2, ClosedKept
<1> QED BY <1>v, <1>1, <1>2, <1>3 DEF DispatchSignal

LEMMA DispatchSendingKept ==
  ASSUME MemInv, NEW x \in Exclusive, DispatchSending(x)
  PROVE  MemInv'
<1>s. MemoryTypeOK /\ slot \in [Service -> ServiceSlot] /\ sending \in [Exclusive -> Seq(Struct)]
      /\ (\A y \in Exclusive : SendingKept(y)) /\ (\A u \in Service : SlotKept(u))
      /\ heap \in [Struct -> Message \cup {Unallocated}]
  BY DEF MemInv, MemoryTypeOK
<1>p. /\ phase' = phase /\ phase # "end" /\ handle' = handle /\ vm' = vm /\ lost' = lost \cup {}
      /\ sending[x] # <<>>
  BY DEF DispatchSending
<1>v. PICK m : m = Head(sending[x])
  OBVIOUS
<1>q. /\ m \in Struct /\ Tail(sending[x]) \in Seq(Struct) /\ InQ(sending[x], m)
      /\ Len(Tail(sending[x])) = Len(sending[x]) - 1
      /\ Len(sending[x]) \in Nat /\ Len(sending[x]) > 0
  BY <1>s, <1>p, <1>v, Dropped, EmptySeq
<1>m. At(m, <<"sending", x>>) /\ Due(m)
  BY <1>q, PointedAt
<1>d. PICK d \in Service : d = heap[m].to
  BY <1>s, <1>q DEF SendingKept, InQ
<1>e. \/ /\ Receives(d)
         /\ slot' = [slot EXCEPT ![d].queue = Append(@, m)]
         /\ sending' = [sending EXCEPT ![x] = Tail(@)]
         /\ UNCHANGED <<heap, block>>
      \/ /\ sending' = [sending EXCEPT ![x] = Append(Tail(@), m)]
         /\ UNCHANGED <<heap, block, slot>>
      \/ /\ Delete({m})
         /\ sending' = [sending EXCEPT ![x] = Tail(@)]
         /\ UNCHANGED slot
  BY <1>d, <1>v DEF DispatchSending
<1>k. <<"sending", x>> \in Spots \cup {Nowhere} /\ Nowhere \in Spots \cup {Nowhere}
      /\ <<"queue", d>> \in Spots \cup {Nowhere} /\ <<"queue", d>> # Nowhere
      /\ <<"sending", x>> # Nowhere
  BY DEF Spots, Nowhere
<1>y. ASSUME sending'[x] = Tail(sending[x]) \/ sending'[x] = Append(Tail(sending[x]), m),
             \A y \in Exclusive \ {x} : sending'[y] = sending[y],
             \A a \in Struct : (\E y \in Exclusive : InQ(sending'[y], a)) => heap'[a] = heap[a],
             NEW y \in Exclusive
      PROVE  SendingKept(y)'
  <2>1. CASE y # x
    <3>1. \A a \in Struct : InQ(sending[y], a) => heap'[a] = heap[a]
      BY <1>y, <2>1
    <3> QED BY <1>y, <2>1, <3>1, SendingStays
  <2>2. CASE y = x
    <3>1. sending'[x] \in Seq(Struct) /\ Len(sending'[x]) <= Len(sending[x])
      <4>1. /\ Append(Tail(sending[x]), m) \in Seq(Struct)
            /\ Len(Append(Tail(sending[x]), m)) = Len(Tail(sending[x])) + 1
        BY <1>q, AppendProperties
      <4>2. CASE sending'[x] = Tail(sending[x])
        BY <1>q, <4>2
      <4>3. CASE sending'[x] = Append(Tail(sending[x]), m)
        BY <1>q, <4>1, <4>3
      <4> QED BY <1>y, <4>2, <4>3
    <3>2. ASSUME NEW i \in DOMAIN sending'[x]
          PROVE  heap'[sending'[x][i]].to \in Service
      <4>1. sending'[x][i] \in Struct /\ InQ(sending'[x], sending'[x][i])
        BY <3>1 DEF InQ
      <4>2. ASSUME NEW e, InQ(sending'[x], e)
            PROVE  InQ(sending[x], e)
        <5>1. InQ(Append(Tail(sending[x]), m), e) <=> InQ(Tail(sending[x]), e) \/ e = m
          BY <1>q, Appended
        <5>2. InQ(sending[x], e) <=> InQ(Tail(sending[x]), e) \/ e = m
          BY <1>s, <1>p, <1>v, Dropped
        <5> QED BY <1>y, <4>2, <5>1, <5>2
      <4>3. heap[sending'[x][i]].to \in Service
        BY <1>s, <4>1, <4>2 DEF SendingKept, InQ
      <4> QED BY <1>y, <4>1, <4>3
    <3>3. Len(sending[x]) <= LengthSending /\ LengthSending \in Nat
      BY <1>s DEF SendingKept, MemInv, MemoryAssumption
    <3>4. Len(sending'[x]) <= LengthSending
      BY <1>q, <3>1, <3>3
    <3> QED BY <2>2, <3>2, <3>4 DEF SendingKept
  <2> QED BY <2>1, <2>2
<1>1. CASE /\ Receives(d)
           /\ slot' = [slot EXCEPT ![d].queue = Append(@, m)]
           /\ sending' = [sending EXCEPT ![x] = Tail(@)]
           /\ UNCHANGED <<heap, block>>
  <2>1. heap' = heap /\ block' = block /\ {} \in SUBSET {m} /\ m \notin {}
    BY <1>1
  <2>2. d \in Service /\ slot[d].queue \in Seq(Struct) /\ slot[d].status = "alive"
    BY <1>1, <1>s, SlotTypes DEF Receives, Alive
  <2>3. Append(slot[d].queue, m) \in Seq(Struct)
    BY <1>q, <2>2
  <2>4. slot' = WithQueue(slot, d, Append(slot[d].queue, m))
    BY <1>1, <2>2, <1>s DEF WithQueue
  <2>5. /\ slot' \in [Service -> ServiceSlot]
        /\ \A u \in Service : /\ slot'[u].status = slot[u].status
                              /\ slot'[u].out = slot[u].out
                              /\ slot'[u].bounce = slot[u].bounce
                              /\ slot'[u].receipt = slot[u].receipt
                              /\ slot'[u].queue = IF u = d THEN Append(slot[u].queue, m)
                                                  ELSE slot[u].queue
                              /\ u # d => slot'[u] = slot[u]
    <3> DEFINE P == WithQueue(slot, d, Append(slot[d].queue, m))
    <3>1. /\ P \in [Service -> ServiceSlot]
          /\ \A u \in Service :
               /\ P[u].status = slot[u].status
               /\ P[u].out = slot[u].out
               /\ P[u].bounce = slot[u].bounce
               /\ P[u].receipt = slot[u].receipt
               /\ P[u].queue = IF u = d THEN Append(slot[d].queue, m) ELSE slot[u].queue
               /\ u # d => P[u] = slot[u]
      BY <1>s, <2>2, <2>3, QueueSet, ZenonT(60)
    <3>2. slot' = P
      BY <2>4
    <3> HIDE DEF P
    <3> QED BY <3>1, <3>2
  <2>6. \A a \in Struct : Due(a)' <=> Due(a)
    BY <1>p, <2>1 DEF Due
  <2>7. /\ sending' \in [Exclusive -> Seq(Struct)] /\ sending'[x] = Tail(sending[x])
        /\ \A y \in Exclusive \ {x} : sending'[y] = sending[y]
    BY <1>1, <1>s, <1>q
  <2>8. Moves(m, <<"sending", x>>, <<"queue", d>>, {}, {})
    <3>1. Head(sending[x]) = m
      BY <1>v
    <3> QED BY <1>m, <1>p, <1>q, <1>k, <2>5, <2>6, <2>7, <3>1 DEF Moves
  <2>9. \A y \in Exclusive : SendingKept(y)'
    BY <1>y, <2>1, <2>7
  <2> QED BY <1>m, <1>p, <1>q, <1>k, <2>1, <2>2, <2>5, <2>7, <2>8, <2>9, MovedKept
<1>2. CASE /\ sending' = [sending EXCEPT ![x] = Append(Tail(@), m)]
           /\ UNCHANGED <<heap, block, slot>>
  <2>1. heap' = heap /\ block' = block /\ slot' = slot /\ {} \in SUBSET {m} /\ m \notin {}
    BY <1>2
  <2>6. \A a \in Struct : Due(a)' <=> Due(a)
    BY <1>p, <2>1 DEF Due
  <2>5. Append(Tail(sending[x]), m) \in Seq(Struct)
    BY <1>q
  <2>7. /\ sending' \in [Exclusive -> Seq(Struct)] /\ sending'[x] = Append(Tail(sending[x]), m)
        /\ \A y \in Exclusive \ {x} : sending'[y] = sending[y]
    BY <1>2, <1>s, <2>5
  <2>8. Moves(m, <<"sending", x>>, <<"sending", x>>, {}, {})
    <3>1. Head(sending[x]) = m
      BY <1>v
    <3> QED BY <1>m, <1>p, <1>q, <1>k, <2>1, <2>6, <2>7, <3>1 DEF Moves
  <2>9. \A y \in Exclusive : SendingKept(y)'
    BY <1>y, <2>1, <2>7
  <2>10. /\ slot' \in [Service -> ServiceSlot]
         /\ \A u \in Service : /\ slot'[u].status = slot[u].status
                               /\ slot'[u].out \in {NULL, slot[u].out}
                               /\ slot'[u].bounce = slot[u].bounce
                               /\ slot'[u].receipt = slot[u].receipt
                               /\ slot[u].status \in {"none", "new"} => slot'[u] = slot[u]
    BY <1>s, <2>1
  <2> QED BY <1>m, <1>p, <1>q, <1>k, <2>1, <2>7, <2>8, <2>9, <2>10, MovedKept
<1>3. CASE /\ Delete({m})
           /\ sending' = [sending EXCEPT ![x] = Tail(@)]
           /\ UNCHANGED slot
  <2>n. NULL \notin Struct /\ Unallocated \notin Message
    BY NullApart
  <2>1. /\ \A a \in Struct : heap'[a] = IF a = m THEN Unallocated ELSE heap[a]
        /\ heap' \in [Struct -> Message \cup {Unallocated}]
        /\ block' = block \ Payload({m}) /\ slot' = slot /\ lost' = lost
    BY <1>3, <1>s, <1>p DEF Delete
  <2>6. \A a \in Struct : Due(a)' <=> Due(a) /\ a # m
    BY <2>1 DEF Due
  <2>7. /\ sending' \in [Exclusive -> Seq(Struct)] /\ sending'[x] = Tail(sending[x])
        /\ \A y \in Exclusive \ {x} : sending'[y] = sending[y]
    BY <1>3, <1>s, <1>q
  <2>8. Moves(m, <<"sending", x>>, Nowhere, {}, {})
    <3>1. Head(sending[x]) = m
      BY <1>v
    <3> QED BY <1>m, <1>p, <1>q, <1>k, <2>1, <2>6, <2>7, <3>1 DEF Moves, Nowhere
  <2>10. \A a \in Struct : StructKept(a)'
    <3>1. {} \in SUBSET Service
      OBVIOUS
    <3> QED BY <1>q, <1>k, <2>8, <3>1, StructMoves
  <2>9. \A y \in Exclusive : SendingKept(y)'
    <3>1. \A y \in Exclusive : ~InQ(sending'[y], m)
      <4>1. ~InQ(Tail(sending[x]), m)
        <5>1. OnceQ(sending[x], m)
          BY <1>q, Whereabouts DEF Once
        <5> QED BY <1>s, <1>p, <1>v, <5>1, Dropped
      <4>2. \A y \in Exclusive \ {x} : ~InQ(sending[y], m)
        BY <1>m DEF At
      <4> QED BY <2>7, <4>1, <4>2
    <3>2. \A a \in Struct : (\E y \in Exclusive : InQ(sending'[y], a)) => heap'[a] = heap[a]
      BY <2>1, <3>1
    <3> QED BY <1>y, <2>7, <3>2
  <2>11. ASSUME NEW b \in Block
         PROVE  BlockKept(b)'
    <3>1. \A a \in Struct : Carries(a, b)' <=> Carries(a, b) /\ a \notin {m}
      BY <2>1 DEF Carries
    <3>2. /\ {} \in SUBSET VM /\ {m} \in SUBSET Struct
          /\ \A u \in VM : vm'[u] = IF u \in {} THEN {} ELSE vm[u]
          /\ b \in lost' <=> b \in lost \/ \E u \in {} : b \in vm[u]
      BY <1>p, <1>q
    <3> QED BY <2>1, <3>1, <3>2, Deletes
  <2>12. ASSUME NEW u \in Service
         PROVE  SlotKept(u)'
    <3>1. slot[u].out # m
      BY <1>m DEF At
    <3>2. slot[u].out # NULL => heap'[slot[u].out] = heap[slot[u].out]
      BY <1>s, <2>1, <3>1, SlotTypes
    <3> QED BY <1>s, <2>1, <3>2 DEF SlotKept
  <2>13. LostOK' /\ Ended'
    BY <1>m, <1>p, <2>1 DEF MemInv, LostOK, Ended, Due
  <2>14. MemoryTypeOK'
    <3>1. block' \subseteq Block
      BY <1>s, <2>1 DEF MemoryTypeOK
    <3> QED BY <1>s, <1>p, <2>1, <2>7, <3>1 DEF MemoryTypeOK
  <2> QED BY <2>9, <2>10, <2>11, <2>12, <2>13, <2>14 DEF MemInv
<1> QED BY <1>e, <1>1, <1>2, <1>3
-----------------------------------------------------------------------------
(* The invariant holds.                                                    *)

LEMMA InitMem ==
  ASSUME MemoryAssumption, MemoryInit
  PROVE  MemInv
<1>i. /\ phase = "boot" /\ heap = [a \in Struct |-> Unallocated] /\ block = {}
      /\ slot = [s \in Service |-> EmptySlot("none")]
      /\ vm = [s \in VM |-> {}]
      /\ handle = {} /\ sending = [x \in Exclusive |-> <<>>]
      /\ lost = {}
  BY DEF MemoryInit
<1>c. NULL \notin Struct /\ LengthSending \in Nat
  BY DEF MemoryAssumption
<1>t. MemoryTypeOK
  <2>1. slot \in [Service -> ServiceSlot]
    BY <1>i, EmptyFields
  <2>2. /\ heap \in [Struct -> Message \cup {Unallocated}] /\ sending \in [Exclusive -> Seq(Struct)]
        /\ vm \in [VM -> SUBSET Block]
    BY <1>i
  <2> QED BY <1>i, <2>1, <2>2 DEF MemoryTypeOK
<1>f. \A u \in Service : /\ slot[u] = EmptySlot("none")
                         /\ slot[u].out = NULL /\ slot[u].bounce = NULL
                         /\ slot[u].queue = <<>>
  BY <1>i, EmptyFields
<1>1. ASSUME NEW a \in Struct
      PROVE  StructKept(a)
  <2>1. \A u \in Service : ~InQ(slot[u].queue, a) /\ OnceQ(slot[u].queue, a)
    BY <1>f, EmptyQueue
  <2>2. \A x \in Exclusive : ~InQ(sending[x], a) /\ OnceQ(sending[x], a)
    BY <1>i, EmptyQueue
  <2>3. At(a, Nowhere)
    BY <1>f, <1>c, <2>1, <2>2 DEF At, Nowhere
  <2>4. Once(a)
    BY <2>1, <2>2 DEF Once
  <2>5. ~Due(a)
    BY <1>i DEF Due
  <2> QED BY <2>3, <2>4, <2>5, Kept
<1>2. ASSUME NEW b \in Block
      PROVE  BlockKept(b)
  BY <1>i DEF BlockKept, Carries
<1>3. \A u \in Service : SlotKept(u)
  BY <1>f, EmptyFields DEF SlotKept
<1>4. ASSUME NEW x \in Exclusive
      PROVE  SendingKept(x)
  <2>1. sending[x] = <<>>
    BY <1>i
  <2> QED BY <1>c, <2>1 DEF SendingKept
<1>5. LostOK /\ Ended
  BY <1>i DEF LostOK, Ended
<1> QED BY <1>t, <1>1, <1>2, <1>3, <1>4, <1>5 DEF MemInv

LEMMA CallKept ==
  ASSUME MemInv, NEW s \in Service, Call(s)
  PROVE  MemInv'
<1>s. s \in VM
  BY DEF VM
<1>1. CASE \E b \in Block : Pack(s, b) \/ Remove(s, b)
  BY <1>1, <1>s, PackKept, RemoveKept
<1>2. CASE \E a \in Struct, d \in Service, b \in Block \cup {NULL} :
             \/ SendMessage(s, a, d, "mail", b)
             \/ s \in Exclusive /\ ExclusiveSendMessage(s, a, d, b)
  <2>1. PICK a \in Struct, d \in Service, b \in Block \cup {NULL} :
             \/ SendMessage(s, a, d, "mail", b)
             \/ s \in Exclusive /\ ExclusiveSendMessage(s, a, d, b)
    BY <1>2
  <2>2. d \in Service \cup {System}
    OBVIOUS
  <2> QED BY <2>1, <2>2, SendMessageKept, ExclusiveSendMessageKept
<1>3. CASE \E a \in Struct, type \in {"new", "del", "hang"} : SendMessage(s, a, System, type, NULL)
  <2>1. PICK a \in Struct, type \in {"new", "del", "hang"} : SendMessage(s, a, System, type, NULL)
    BY <1>3
  <2>2. System \in Service \cup {System} /\ NULL \in Block \cup {NULL}
        /\ type \in {"mail", "signal", "new", "del", "hang"}
    OBVIOUS
  <2> QED BY <2>1, <2>2, SendMessageKept
<1>4. CASE RecvMessage(s) \/ MessageReceipt(s)
  BY <1>4, RecvMessageKept, MessageReceiptKept
<1>5. CASE InitService(s) \/ CloseService(s)
  BY <1>5, InitServiceKept, CloseServiceKept
<1>6. CASE \E c \in Struct : Quit(s, c)
  BY <1>6, QuitKept
<1> QED BY <1>1, <1>2, <1>3, <1>4, <1>5, <1>6 DEF Call

LEMMA DispatchKept ==
  ASSUME MemInv, NEW s \in Service, Dispatch(s)
  PROVE  MemInv'
<1>1. CASE \E a \in Struct : DispatchDone(s, a)
  BY <1>1, DispatchDoneKept
<1>2. CASE \E a \in Struct : \E r \in {"error", "block"} : DispatchBack(s, a, r)
  BY <1>2, DispatchBackKept
<1>3. CASE \E a \in Struct : DispatchNew(a, s)
  BY <1>3, DispatchNewKept
<1>4. CASE \E a \in Struct : \E c \in Struct : DispatchHang(a, s, c)
  BY <1>4, DispatchHangKept
<1>5. CASE DispatchSignal(s)
  BY <1>5, DispatchSignalKept
<1> QED BY <1>1, <1>2, <1>3, <1>4, <1>5 DEF Dispatch

LEMMA StutterKept ==
  ASSUME MemInv, UNCHANGED memoryVars
  PROVE  MemInv'
<1>1. /\ phase' = phase /\ heap' = heap /\ block' = block /\ slot' = slot /\ vm' = vm
      /\ handle' = handle /\ sending' = sending /\ lost' = lost
  BY DEF memoryVars
<1>2. MemoryTypeOK'
  BY <1>1 DEF MemInv, MemoryTypeOK
<1>3. \A a \in Struct : StructKept(a)'
  BY <1>1, HeapSame, StructsSame
<1>4. \A b \in Block : BlockKept(b)'
  BY <1>1, BlocksSame
<1>5. \A s \in Service : SlotKept(s)'
  BY <1>1 DEF MemInv, SlotKept
<1>6. LostOK' /\ \A x \in Exclusive : SendingKept(x)'
  BY <1>1, HeapSame
<1>7. Ended'
  BY <1>1 DEF MemInv, Ended
<1> QED BY <1>2, <1>3, <1>4, <1>5, <1>6, <1>7 DEF MemInv

LEMMA NextMem ==
  ASSUME MemInv, [MemoryNext]_memoryVars
  PROVE  MemInv'
<1>1. CASE \E s \in Service : Call(s) \/ Dispatch(s)
  BY <1>1, CallKept, DispatchKept
<1>2. CASE \E a \in Struct : DispatchDel(a) \/ DispatchHangGone(a)
  BY <1>2, DispatchDelKept, DispatchHangGoneKept
<1>3. CASE \E x \in Exclusive : DispatchSending(x)
  BY <1>3, DispatchSendingKept
<1>4. CASE QuitRoot \/ Run \/ Deinit
  BY <1>4, QuitRootKept, RunKept, DeinitKept
<1>5. CASE \E s \in Service : NewService(s)
  BY <1>5, NewServiceKept
<1>6. CASE \E a \in Struct, b \in Block : PostMessage(a, b)
  BY <1>6, PostMessageKept
<1>7. CASE \E b \in Block : Pack(Main, b)
  <2>1. Main \in VM
    BY DEF VM
  <2> QED BY <1>7, <2>1, PackKept
<1>8. CASE \E x \in Exclusive : NewThread(x)
  BY <1>8, NewThreadKept
<1>9. CASE UNCHANGED memoryVars
  BY <1>9, StutterKept
<1> QED BY <1>1, <1>2, <1>3, <1>4, <1>5, <1>6, <1>7, <1>8, <1>9 DEF MemoryNext

(* Every pointer to a message is where the invariant has it, every payload
   has one owner, and what nobody frees is known, in every reachable state. *)
THEOREM MemoryInvariant == MemorySpec => []MemInv
<1>1. MemoryInit => MemInv
  BY MemoryAssumed, InitMem
<1>2. MemInv /\ [MemoryNext]_memoryVars => MemInv'
  BY NextMem
<1> QED BY <1>1, <1>2, PTL DEF MemorySpec

-----------------------------------------------------------------------------
(* What it says of the places of a message and the holders of a payload.   *)

LEMMA PlacesAre ==
  ASSUME NEW a, NEW p
  PROVE  p \in Places(a) <=>
           \/ \E s \in Service : p = <<"out", s, 0>> /\ slot[s].out = a
           \/ \E s \in Service : p = <<"bounce", s, 0>> /\ slot[s].bounce = a
           \/ \E s \in Service : \E i \in DOMAIN slot[s].queue :
                p = <<"queue", s, i>> /\ slot[s].queue[i] = a
           \/ \E x \in Exclusive : \E i \in DOMAIN sending[x] :
                p = <<"sending", x, i>> /\ sending[x][i] = a
<1> DEFINE outs == {<<"out", s, 0>> : s \in {t \in Service : slot[t].out = a}}
           bounces == {<<"bounce", s, 0>> : s \in {t \in Service : slot[t].bounce = a}}
           queues == UNION {{<<"queue", s, i>> :
                              i \in {j \in DOMAIN slot[s].queue : slot[s].queue[j] = a}}
                             : s \in Service}
           sendings == UNION {{<<"sending", x, i>> :
                                i \in {j \in DOMAIN sending[x] : sending[x][j] = a}}
                               : x \in Exclusive}
<1>1. p \in outs <=> \E s \in Service : p = <<"out", s, 0>> /\ slot[s].out = a
  OBVIOUS
<1>2. p \in bounces <=> \E s \in Service : p = <<"bounce", s, 0>> /\ slot[s].bounce = a
  OBVIOUS
<1>3. p \in queues <=> \E s \in Service : \E i \in DOMAIN slot[s].queue :
                         p = <<"queue", s, i>> /\ slot[s].queue[i] = a
  OBVIOUS
<1>4. p \in sendings <=> \E x \in Exclusive : \E i \in DOMAIN sending[x] :
                           p = <<"sending", x, i>> /\ sending[x][i] = a
  OBVIOUS
<1>5. Places(a) = outs \cup bounces \cup queues \cup sendings
  BY DEF Places
<1> HIDE DEF outs, bounces, queues, sendings
<1> QED BY <1>1, <1>2, <1>3, <1>4, <1>5

LEMMA PlaceOne ==
  ASSUME MemInv, NEW a \in Struct
  PROVE  IF Due(a) THEN \E p \in Places(a) : Places(a) = {p} ELSE Places(a) = {}
<1>1. PICK here \in Spots \cup {Nowhere} : At(a, here) /\ (Due(a) <=> here # Nowhere)
  BY Whereabouts
<1>o. Once(a)
  BY Whereabouts
<1>2. CASE ~Due(a)
  <2>1. ASSUME NEW p \in Places(a)
        PROVE  FALSE
    BY <1>1, <1>2, PlacesAre DEF At, Nowhere, InQ
  <2> QED BY <1>2, <2>1
<1>3. ASSUME NEW p \in Places(a), \A q \in Places(a) : q = p
      PROVE  \E r \in Places(a) : Places(a) = {r}
  BY <1>3
<1>4. CASE Due(a)
  <2>1. here \in Spots
    BY <1>1, <1>4
  <2>k. \/ here = <<"out", here[2]>> /\ here[2] \in Service
        \/ here = <<"bounce", here[2]>> /\ here[2] \in Service
        \/ here = <<"queue", here[2]>> /\ here[2] \in Service
        \/ here = <<"sending", here[2]>> /\ here[2] \in Exclusive
    BY <2>1, SpotKinds
  <2>2. ASSUME NEW s \in Service, here = <<"out", s>>
        PROVE  \E r \in Places(a) : Places(a) = {r}
    <3>1. <<"out", s, 0>> \in Places(a)
      BY <1>1, <2>2, PlacesAre DEF At
    <3>2. \A q \in Places(a) : q = <<"out", s, 0>>
      BY <1>1, <2>2, PlacesAre DEF At, InQ
    <3> QED BY <1>3, <3>1, <3>2
  <2>3. ASSUME NEW s \in Service, here = <<"bounce", s>>
        PROVE  \E r \in Places(a) : Places(a) = {r}
    <3>1. <<"bounce", s, 0>> \in Places(a)
      BY <1>1, <2>3, PlacesAre DEF At
    <3>2. \A q \in Places(a) : q = <<"bounce", s, 0>>
      BY <1>1, <2>3, PlacesAre DEF At, InQ
    <3> QED BY <1>3, <3>1, <3>2
  <2>4. ASSUME NEW s \in Service, here = <<"queue", s>>
        PROVE  \E r \in Places(a) : Places(a) = {r}
    <3>1. PICK i \in DOMAIN slot[s].queue : slot[s].queue[i] = a
      BY <1>1, <2>4 DEF At, InQ
    <3>2. <<"queue", s, i>> \in Places(a)
      BY <3>1, PlacesAre
    <3>3. \A q \in Places(a) : q = <<"queue", s, i>>
      BY <1>1, <1>o, <2>4, <3>1, PlacesAre DEF At, InQ, Once, OnceQ
    <3> QED BY <1>3, <3>2, <3>3
  <2>5. ASSUME NEW x \in Exclusive, here = <<"sending", x>>
        PROVE  \E r \in Places(a) : Places(a) = {r}
    <3>1. PICK i \in DOMAIN sending[x] : sending[x][i] = a
      BY <1>1, <2>5 DEF At, InQ
    <3>2. <<"sending", x, i>> \in Places(a)
      BY <3>1, PlacesAre
    <3>3. \A q \in Places(a) : q = <<"sending", x, i>>
      BY <1>1, <1>o, <2>5, <3>1, PlacesAre DEF At, InQ, Once, OnceQ
    <3> QED BY <1>3, <3>2, <3>3
  <2> QED BY <1>4, <2>k, <2>2, <2>3, <2>4, <2>5
<1> QED BY <1>2, <1>4

LEMMA HoldersAre ==
  ASSUME NEW b, NEW p
  PROVE  p \in Holders(b) <=> \/ \E s \in VM : p = <<"vm", s>> /\ b \in vm[s]
                              \/ \E a \in Struct : p = <<"message", a>> /\ Carries(a, b)
BY DEF Holders, Carries

LEMMA HolderOne ==
  ASSUME MemInv, NEW b \in Block
  PROVE  IF b \in block \ lost THEN \E p \in Holders(b) : Holders(b) = {p} ELSE Holders(b) = {}
<1>1. BlockKept(b)
  BY DEF MemInv
<1>2. CASE b \notin block \ lost
  <2>1. ASSUME NEW p \in Holders(b)
        PROVE  FALSE
    BY <1>1, <1>2, HoldersAre DEF BlockKept
  <2> QED BY <1>2, <2>1
<1>3. CASE b \in block \ lost
  <2>1. CASE \E s \in VM : b \in vm[s]
    <3>1. PICK s \in VM : b \in vm[s]
      BY <2>1
    <3>2. <<"vm", s>> \in Holders(b)
      BY <3>1, HoldersAre
    <3>3. \A p \in Holders(b) : p = <<"vm", s>>
      BY <1>1, <3>1, HoldersAre DEF BlockKept
    <3> QED BY <1>3, <3>2, <3>3
  <2>2. CASE \E a \in Struct : Carries(a, b)
    <3>1. PICK a \in Struct : Carries(a, b)
      BY <2>2
    <3>2. <<"message", a>> \in Holders(b)
      BY <3>1, HoldersAre
    <3>3. \A p \in Holders(b) : p = <<"message", a>>
      BY <1>1, <3>1, HoldersAre DEF BlockKept
    <3> QED BY <1>3, <3>2, <3>3
  <2> QED BY <1>1, <1>3, <2>1, <2>2 DEF BlockKept
<1> QED BY <1>2, <1>3

LEMMA KeptMemory ==
  ASSUME MemInv
  PROVE  MemoryKept
<1>1. \A a \in Struct : IF heap[a] = Unallocated \/ a \in lost THEN Places(a) = {}
                        ELSE \E p \in Places(a) : Places(a) = {p}
  BY PlaceOne DEF Due
<1>2. \A b \in Block : IF b \notin block \/ b \in lost THEN Holders(b) = {}
                       ELSE \E p \in Holders(b) : Holders(b) = {p}
  BY HolderOne
<1>3. \A b \in block : b \in lost \/ Holders(b) # {}
  <2>1. block \subseteq Block
    BY DEF MemInv, MemoryTypeOK
  <2> QED BY <2>1, HolderOne
<1>4. LostKnown
  BY <1>3 DEF LostKnown, MemInv, LostOK, Ended
<1> QED BY <1>1, <1>2, <1>4 DEF MemoryKept, OneOwner, MemInv

(* No message and no payload is freed twice, used after it was freed or
   forgotten, but for those that the code leaks: HANG that was answered DONE,
   signals for which root had no room, and what the Lua code of a closed VM
   had (message.c, service.c, dispatch_out_message and schedule_dispatch of
   ltask.c). *)
THEOREM OwnedByOne == MemorySpec => []MemoryKept
<1>1. MemInv => MemoryKept
  BY KeptMemory
<1> QED BY <1>1, MemoryInvariant, PTL

-----------------------------------------------------------------------------
(***************************************************************************)
(* Queue.                                                                  *)
(***************************************************************************)
(* Position of an index and of the one after it: all it is asked for. *)
LEMMA PositionNext ==
  ASSUME NEW p \in Index
  PROVE  /\ Position(p) = p
         /\ Position(p + 1) = IF p + 1 = Size THEN 0 ELSE p + 1
         /\ Position(p + 1) \in Index
BY QueueAssumption DEF Position, Index

(* Position of an index at most one turn ahead, without the modulus. *)
LEMMA PositionIs ==
  ASSUME NEW p \in 0..(2 * Size - 1)
  PROVE  Position(p) = IF p < Size THEN p ELSE p - Size
BY QueueAssumption DEF Position

(* The slot a message i places behind the head is in, without the modulus. *)
LEMMA SlotIs ==
  ASSUME TypeOK, NEW i \in 1..Size
  PROVE  Slot(i) = IF head + i - 1 < Size THEN head + i - 1
                   ELSE (head + i - 1) - Size
<1>1. head + i - 1 \in 0..(2 * Size - 1)
  BY QueueAssumption DEF TypeOK, Index
<1>2. Position(head + i - 1) = IF head + i - 1 < Size THEN head + i - 1
                               ELSE (head + i - 1) - Size
  BY <1>1, PositionIs, Zenon
<1> QED
  BY <1>2, Zenon DEF Slot

(* The inductive invariant: between open and close, a side keeps what open
   found, whatever the other side does meanwhile. *)
QueueInv ==
  /\ TypeOK
  /\ writer # "out" => ~IsFull
  /\ writer = "open" => value \in Values
  /\ writer = "written" => data[tail] = value /\ value \in Values
  /\ reader # "out" => head # tail
  /\ reader = "read" => taken = data[head]

(* A new ring satisfies the inductive invariant ... *)
LEMMA QueueInvInit == Init => QueueInv
BY QueueAssumption DEF Init, QueueInv, TypeOK, Index

(* ... and every step of the writer or the reader keeps it. *)
LEMMA QueueInvNext ==
  ASSUME QueueInv, [Next]_vars
  PROVE  QueueInv'
<1> USE QueueAssumption
<1> USE DEF QueueInv, TypeOK
<1>0. /\ Position(tail + 1) \in Index
      /\ Position(tail + 1) = IF tail + 1 = Size THEN 0 ELSE tail + 1
      /\ Position(head + 1) \in Index
      /\ Position(head + 1) = IF head + 1 = Size THEN 0 ELSE head + 1
  BY PositionNext
<1>1. CASE PushFull
  BY <1>1 DEF PushFull, readerVars, IsFull
<1>2. CASE PushWrite
  BY <1>2 DEF PushWrite, readerVars, IsFull
<1>3. CASE PushClose
  BY <1>0, <1>3 DEF PushClose, readerVars, IsFull, Index
<1>4. CASE PopOpen
  BY <1>4 DEF PopOpen, writerVars, IsFull
<1>5. CASE PopEmpty
  BY <1>5 DEF PopEmpty, writerVars, IsFull
<1>6. CASE PopRead
  BY <1>6 DEF PopRead, writerVars, IsFull
<1>7. CASE PopClose
  BY <1>0, <1>7 DEF PopClose, writerVars, IsFull, Index
<1>8. ASSUME NEW v \in Values, PushOpen(v)
      PROVE  QueueInv'
  BY <1>8 DEF PushOpen, readerVars, IsFull
<1>9. CASE UNCHANGED vars
  BY <1>9 DEF vars, IsFull
<1> QED
  BY <1>1, <1>2, <1>3, <1>4, <1>5, <1>6, <1>7, <1>8, <1>9 DEF Next

(* Every state of the ring satisfies the inductive invariant. *)
THEOREM QueueInvariant == Spec => []QueueInv
BY QueueInvInit, QueueInvNext, PTL DEF Spec

(* The indices of the ring never leave it, and the writer and the reader never
   access one slot (Queue.RingKept). *)
THEOREM QueueRingKept == Spec => []RingKept
<1>1. QueueInv => RingKept
  BY DEF QueueInv, RingKept, NoRace
<1> QED
  BY <1>1, QueueInvariant, PTL

(***************************************************************************)
(* Refinement.                                                             *)
(***************************************************************************)
(* Contents is a sequence of as many values as Length says. *)
LEMMA ContentsType ==
  ASSUME TypeOK
  PROVE  /\ Length \in 0..(Size - 1)
         /\ Contents \in Seq(Values \cup {NoValue})
         /\ Len(Contents) = Length
<1>1. Length \in 0..(Size - 1)
  BY QueueAssumption DEF TypeOK, Length, Index
<1>2. \A i \in 1..Length : data[Slot(i)] \in Values \cup {NoValue}
  BY <1>1, SlotIs, QueueAssumption DEF TypeOK, Index
<1>3. Contents \in [1..Length -> Values \cup {NoValue}]
  BY <1>2 DEF Contents
<1>4. Contents \in Seq(Values \cup {NoValue}) /\ Len(Contents) = Length
  BY <1>1, <1>3
<1> QED
  BY <1>1, <1>4

(* A step that moves neither index and writes no slot in use leaves the
   contents. *)
LEMMA ContentsSame ==
  ASSUME TypeOK, TypeOK', UNCHANGED <<head, tail>>,
         \A i \in Index : i # tail => data'[i] = data[i]
  PROVE  Contents' = Contents
<1>1. Length' = Length /\ Length \in 0..(Size - 1)
  BY ContentsType DEF Length
<1>2. ASSUME NEW i \in 1..Length
      PROVE  data'[Slot(i)'] = data[Slot(i)]
  <2>1. Slot(i)' = Slot(i)
    BY DEF Slot, Position
  <2>2. Slot(i) \in Index /\ Slot(i) # tail
    BY <1>1, SlotIs, QueueAssumption DEF TypeOK, Index, Length
  <2> QED
    BY <2>1, <2>2
<1> QED
  BY <1>1, <1>2 DEF Contents

(* Closing a push adds the value in the slot at tail to the contents ... *)
LEMMA ContentsPush ==
  ASSUME TypeOK, TypeOK', ~IsFull, UNCHANGED <<head, data>>,
         tail' = Position(tail + 1)
  PROVE  Length < Size - 1 /\ Contents' = Append(Contents, data[tail])
<1>1. tail' = (IF tail + 1 = Size THEN 0 ELSE tail + 1) /\ tail' # head
  BY PositionNext DEF TypeOK, IsFull
<1>2. Length' = Length + 1 /\ Length \in 0..(Size - 2)
  BY <1>1, QueueAssumption DEF TypeOK, Length, Index
<1>3. Slot(Length + 1) = tail
  BY <1>2, SlotIs, QueueAssumption DEF TypeOK, Length, Index
<1>4. \A i \in 1..(Length + 1) : Slot(i)' = Slot(i)
  BY DEF Slot, Position
<1>5. Contents' = [i \in 1..(Length + 1) |-> data[Slot(i)]]
  BY <1>2, <1>4 DEF Contents
<1>6. Append(Contents, data[tail]) = [i \in 1..(Length + 1) |-> data[Slot(i)]]
  <2>1. /\ Contents \in Seq(Values \cup {NoValue}) /\ Len(Contents) = Length
        /\ data[tail] \in Values \cup {NoValue}
    BY ContentsType DEF TypeOK
  <2>2. Append(Contents, data[tail]) =
          [i \in 1..(Length + 1) |->
             IF i <= Length THEN Contents[i] ELSE data[tail]]
    BY <2>1
  <2>3. ASSUME NEW i \in 1..(Length + 1)
        PROVE  (IF i <= Length THEN Contents[i] ELSE data[tail])
                 = data[Slot(i)]
    BY <1>2, <1>3 DEF Contents
  <2> QED
    BY <2>2, <2>3
<1>7. Length < Size - 1
  BY <1>2, QueueAssumption
<1> QED
  BY <1>5, <1>6, <1>7

(* Element i of the tail of the contents is element i + 1 of them. *)
LEMMA TailIs ==
  ASSUME NEW S, NEW s \in Seq(S), s # <<>>
  PROVE  Tail(s) = [i \in 1..(Len(s) - 1) |-> s[i + 1]]
<1>1. Tail(s) \in Seq(S) /\ Len(Tail(s)) = Len(s) - 1
  BY HeadTailProperties
<1>2. Tail(s) = [i \in 1..(Len(s) - 1) |-> Tail(s)[i]]
  <2>1. Tail(s) \in [1..Len(Tail(s)) -> S]
    BY <1>1, LenProperties
  <2> QED
    BY <1>1, <2>1
<1>3. \A i \in 1..(Len(s) - 1) : Tail(s)[i] = s[i + 1]
  BY <1>1, HeadTailProperties
<1> QED
  BY <1>2, <1>3

(* ... and closing a pop takes the value in the slot at head from them. *)
LEMMA ContentsPop ==
  ASSUME TypeOK, TypeOK', head # tail, UNCHANGED <<tail, data>>,
         head' = Position(head + 1)
  PROVE  /\ Contents # <<>>
         /\ Head(Contents) = data[head]
         /\ Contents' = Tail(Contents)
<1>1. head' = IF head + 1 = Size THEN 0 ELSE head + 1
  BY PositionNext DEF TypeOK
<1>2. Length' = Length - 1 /\ Length \in 1..(Size - 1)
  BY <1>1, QueueAssumption DEF TypeOK, Length, Index
<1>3. /\ Contents \in Seq(Values \cup {NoValue}) /\ Len(Contents) = Length
      /\ Contents # <<>>
  BY <1>2, ContentsType
<1>4. Slot(1) = head
  BY <1>2, SlotIs, QueueAssumption DEF TypeOK, Index
<1>5. Head(Contents) = data[head]
  BY <1>2, <1>3, <1>4 DEF Contents
<1>6. ASSUME NEW i \in 1..(Length - 1)
      PROVE  Slot(i)' = Slot(i + 1)
  <2>0. i + 1 \in 1..Size /\ head + (i + 1) - 1 = head + i
    BY <1>2, QueueAssumption DEF TypeOK, Index
  <2>1. Slot(i + 1) = IF head + i < Size THEN head + i ELSE (head + i) - Size
    BY <2>0, SlotIs
  <2>2. Slot(i)' = IF head' + i - 1 < Size THEN head' + i - 1
                   ELSE (head' + i - 1) - Size
    <3>1. head' + i - 1 \in 0..(2 * Size - 1)
      BY <1>2, QueueAssumption DEF TypeOK, Index
    <3>2. Position(head' + i - 1) =
            IF head' + i - 1 < Size THEN head' + i - 1
            ELSE (head' + i - 1) - Size
      BY <3>1, PositionIs, Zenon
    <3>3. Slot(i)' = Position(head' + i - 1)
      BY DEF Slot, Position
    <3> QED
      BY <3>2, <3>3
  <2> QED
    BY <1>1, <1>2, <2>1, <2>2, QueueAssumption DEF TypeOK, Index
<1>7. Contents' = [i \in 1..(Length - 1) |-> data[Slot(i + 1)]]
  BY <1>2, <1>6 DEF Contents
<1>8. Tail(Contents) = [i \in 1..(Length - 1) |-> Contents[i + 1]]
  BY <1>3, TailIs
<1>9. \A i \in 1..(Length - 1) : Contents[i + 1] = data[Slot(i + 1)]
  BY <1>2 DEF Contents
<1> QED
  BY <1>3, <1>5, <1>7, <1>8, <1>9

(* Every step of the ring is a step of the queue or none. *)
LEMMA StepImplements ==
  ASSUME QueueInv, QueueInv', [Next]_vars
  PROVE  [F!Next]_<<Contents, pushed, popped>>
<1> USE DEF QueueInv
<1>0. /\ Len(Contents) = Length /\ Contents \in Seq(Values \cup {NoValue})
      /\ Length \in 0..(Size - 1)
  BY ContentsType
<1>1. CASE PushFull
  <2>0. head = IF tail + 1 = Size THEN 0 ELSE tail + 1
    BY <1>1, PositionNext DEF PushFull, IsFull, TypeOK
  <2>1. Length = Size - 1
    BY <2>0, QueueAssumption DEF Length, TypeOK, Index
  <2>2. Contents' = Contents
    BY <1>1, ContentsSame DEF PushFull, readerVars
  <2> QED
    BY <1>0, <1>1, <2>1, <2>2 DEF PushFull, readerVars, F!Next, F!PushFull
<1>2. CASE PushWrite
  <2>1. \A i \in Index : i # tail => data'[i] = data[i]
    BY <1>2 DEF PushWrite, TypeOK
  <2>2. Contents' = Contents
    BY <1>2, <2>1, ContentsSame DEF PushWrite, readerVars
  <2> QED
    BY <1>2, <2>2 DEF PushWrite, readerVars
<1>3. CASE PushClose
  <2>1. Length < Size - 1 /\ Contents' = Append(Contents, value)
    BY <1>3, ContentsPush DEF PushClose, readerVars
  <2>2. value \in Values
    BY <1>3 DEF PushClose
  <2>3. F!Push(value)
    BY <1>0, <1>3, <2>1 DEF PushClose, readerVars, F!Push
  <2> QED
    BY <2>2, <2>3 DEF F!Next
<1>4. CASE PopOpen
  BY <1>4, ContentsSame DEF PopOpen, writerVars
<1>5. CASE PopEmpty
  <2>1. Length = 0 /\ Contents' = Contents
    BY <1>5, ContentsSame DEF PopEmpty, writerVars, Length, TypeOK, Index
  <2>2. Contents = <<>>
    BY <1>0, <2>1
  <2> QED
    BY <1>5, <2>1, <2>2 DEF PopEmpty, writerVars, F!Next, F!PopEmpty
<1>6. CASE PopRead
  BY <1>6, ContentsSame DEF PopRead, writerVars
<1>7. CASE PopClose
  <2>1. /\ Contents # <<>> /\ Head(Contents) = taken
        /\ Contents' = Tail(Contents)
    BY <1>7, ContentsPop DEF PopClose, writerVars
  <2> QED
    BY <1>7, <2>1 DEF PopClose, writerVars, F!Next, F!Pop
<1>8. ASSUME NEW v \in Values, PushOpen(v)
      PROVE  UNCHANGED <<Contents, pushed, popped>>
  BY <1>8, ContentsSame DEF PushOpen, readerVars
<1>9. CASE UNCHANGED vars
  BY <1>9, ContentsSame DEF vars
<1> QED
  BY <1>1, <1>2, <1>3, <1>4, <1>5, <1>6, <1>7, <1>8, <1>9 DEF Next

(* A new ring is an empty queue. *)
LEMMA InitImplements == Init => F!Init
<1> SUFFICES ASSUME Init PROVE F!Init
  OBVIOUS
<1>1. TypeOK /\ Length = 0
  BY QueueInvInit, QueueAssumption DEF QueueInv, Init, Length
<1>2. Contents = <<>>
  BY <1>1, ContentsType
<1> QED
  BY <1>2 DEF Init, F!Init

(* The ring buffer implements the queue that queue.h promises, for every size
   and every set of values (Queue.ImplementsFifo). *)
THEOREM QueueImplementsFifo == Spec => ImplementsFifo
BY QueueInvariant, InitImplements, StepImplements, PTL
DEF Spec, ImplementsFifo, F!Spec
=============================================================================
