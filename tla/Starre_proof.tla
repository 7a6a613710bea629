---------------------------- MODULE Starre_proof ----------------------------
(***************************************************************************)
(* Proofs about Starre, for any number of workers, requests, names and     *)
(* fields, where the state of a name is made once (MaxMakes = 1): a copy   *)
(* in a worker is a version of its state, requests work on what is current, *)
(* and they are transactions.                                              *)
(***************************************************************************)
EXTENDS Starre, SequenceTheorems, FiniteSetTheorems, WellFoundedInduction, TLAPS

-----------------------------------------------------------------------------
(***************************************************************************)
(* Differences, one after the other.                                       *)
(***************************************************************************)

(* A set of numbers has a least one, *)
LEMMA LeastThere ==
  ASSUME NEW T, T \subseteq Nat, T # {}
  PROVE  \E x \in T : \A y \in T : x <= y
<1> DEFINE R == OpToRel(<, Nat)
<1>1. IsWellFoundedOn(R, Nat)
  BY NatLessThanWellFounded
<1>2. \A x, y \in Nat : x < y => <<x, y>> \in R
  BY DEF OpToRel
<1> HIDE DEF R
<1>3. PICK x \in T : \A y \in T : ~(<<y, x>> \in R)
  BY <1>1, WFMin
<1>4. ASSUME NEW y \in T PROVE x <= y
  <2>1. x \in Nat /\ y \in Nat /\ ~(y < x)
    BY <1>2, <1>3
  <2> QED
    BY <2>1
<1> QED
  BY <1>4

(* and a greatest one if it is bounded. *)
LEMMA MaxThere ==
  ASSUME NEW n \in Nat, NEW I \in SUBSET (1..n), I # {}
  PROVE  Max(I) \in I /\ \A j \in I : j <= Max(I)
<1> DEFINE T == {n - i : i \in I}
<1>1. \A i \in I : i \in 1..n /\ n - i \in Nat
  OBVIOUS
<1>2. T \subseteq Nat /\ T # {} /\ \A i \in I : n - i \in T
  BY <1>1
<1>3. PICK x \in T : \A y \in T : x <= y
  <2> HIDE DEF T
  <2> QED
    BY <1>2, LeastThere
<1>4. PICK i \in I : x = n - i
  BY <1>3
<1> HIDE DEF T
<1>5. ASSUME NEW j \in I PROVE i >= j
  <2>1. n - i <= n - j /\ i \in 1..n /\ j \in 1..n
    BY <1>1, <1>2, <1>3, <1>4
  <2> QED
    BY <2>1
<1>6. Max(I) \in I /\ \A j \in I : Max(I) >= j
  BY <1>4, <1>5 DEF Max
<1> DEFINE m == Max(I)
<1>7. m \in I /\ \A j \in I : m >= j
  BY <1>6
<1> HIDE DEF m
<1>8. m \in I /\ \A j \in I : j <= m
  BY <1>1, <1>7
<1> QED
  BY <1>8 DEF m

(* What a field has after all differences *)
Having(ds, f) == {i \in DOMAIN ds : f \in DOMAIN ds[i]}

LEMMA PatchAllIs ==
  ASSUME NEW t, NEW ds, NEW f \in Fields
  PROVE  PatchAll(t, ds)[f] = IF Having(ds, f) = {} THEN t[f]
                              ELSE ds[Max(Having(ds, f))][f]
BY DEF PatchAll, Having

LEMMA HavingMax ==
  ASSUME NEW ds \in Seq(Patches), NEW f, Having(ds, f) # {}
  PROVE  /\ Max(Having(ds, f)) \in Having(ds, f)
         /\ \A i \in Having(ds, f) : i <= Max(Having(ds, f))
<1>1. Len(ds) \in Nat /\ Having(ds, f) \in SUBSET (1..Len(ds))
  BY DEF Having
<1> QED
  BY <1>1, MaxThere

(* It is known by the last difference that has it. *)
LEMMA HavingIs ==
  ASSUME NEW ds \in Seq(Patches), NEW f, NEW i \in Having(ds, f),
         \A j \in Having(ds, f) : j <= i
  PROVE  Max(Having(ds, f)) = i
<1>1. Having(ds, f) # {} /\ DOMAIN ds \subseteq Nat /\ Having(ds, f) \subseteq DOMAIN ds
  BY DEF Having
<1> QED
  BY <1>1, HavingMax

LEMMA PatchAllNone ==
  ASSUME NEW t \in State
  PROVE  PatchAll(t, <<>>) = t
<1>1. \A f : Having(<<>>, f) = {}
  BY DEF Having
<1>2. \A f \in Fields : PatchAll(t, <<>>)[f] = t[f]
  BY <1>1, PatchAllIs
<1> QED
  BY <1>2 DEF PatchAll, State

LEMMA PatchAllState ==
  ASSUME NEW t \in State, NEW ds \in Seq(Patches)
  PROVE  PatchAll(t, ds) \in State
<1>1. \A d \in Patches : d \in [DOMAIN d -> Numbers]
  BY DEF Patches
<1>2. ASSUME NEW f \in Fields PROVE PatchAll(t, ds)[f] \in Numbers
  <2>1. CASE Having(ds, f) = {}
    BY <2>1, PatchAllIs DEF State
  <2>2. CASE Having(ds, f) # {}
    <3> DEFINE m == Max(Having(ds, f))
    <3>1. m \in Having(ds, f) /\ PatchAll(t, ds)[f] = ds[m][f]
      BY <2>2, PatchAllIs, HavingMax
    <3> HIDE DEF m
    <3>2. ds[m] \in Patches /\ f \in DOMAIN ds[m]
      BY <3>1 DEF Having
    <3> QED
      BY <1>1, <3>1, <3>2
  <2> QED
    BY <2>1, <2>2
<1> QED
  BY <1>2 DEF PatchAll, State

LEMMA PatchAllNext ==
  ASSUME NEW t, NEW ds \in Seq(Patches), NEW d \in Patches
  PROVE  PatchAll(t, Append(ds, d)) = Patch(PatchAll(t, ds), d)
<1> DEFINE e == Append(ds, d)
           n == Len(ds)
<1>1. /\ n \in Nat /\ DOMAIN ds = 1..n /\ e \in Seq(Patches)
      /\ DOMAIN e = 1..(n + 1) /\ e[n + 1] = d
      /\ \A i \in 1..n : e[i] = ds[i]
  OBVIOUS
<1> HIDE DEF e, n
<1>2. ASSUME NEW f \in Fields
      PROVE  PatchAll(t, e)[f] = Patch(PatchAll(t, ds), d)[f]
  <2>1. CASE f \in DOMAIN d
    <3>1. n + 1 \in Having(e, f) /\ \A j \in Having(e, f) : j <= n + 1
      BY <1>1, <2>1 DEF Having
    <3> QED
      BY <1>1, <2>1, <3>1, HavingIs, PatchAllIs DEF Patch
  <2>2. CASE f \notin DOMAIN d
    <3>1. Having(e, f) = Having(ds, f)
      BY <1>1, <2>2 DEF Having
    <3>2. Having(ds, f) # {} => Max(Having(ds, f)) \in 1..n
      BY <1>1, HavingMax DEF Having
    <3> QED
      BY <1>1, <2>2, <3>1, <3>2, PatchAllIs DEF Patch
  <2> QED
    BY <2>1, <2>2
<1>3. PatchAll(t, e) = Patch(PatchAll(t, ds), d)
  BY <1>2 DEF PatchAll, Patch
<1> QED
  BY <1>3 DEF e

(* Some now and the rest later are all of them. *)
LEMMA PatchAllTwice ==
  ASSUME NEW t, NEW ds \in Seq(Patches), NEW v \in 0..Len(ds)
  PROVE  PatchAll(PatchAll(t, SubSeq(ds, 1, v)), SubSeq(ds, v + 1, Len(ds)))
           = PatchAll(t, ds)
<1> DEFINE a == SubSeq(ds, 1, v)
           b == SubSeq(ds, v + 1, Len(ds))
           n == Len(ds)
<1>1. /\ n \in Nat /\ v \in 0..n /\ DOMAIN ds = 1..n
      /\ a \in Seq(Patches) /\ DOMAIN a = 1..v /\ \A i \in 1..v : a[i] = ds[i]
      /\ b \in Seq(Patches) /\ DOMAIN b = 1..(n - v)
      /\ \A i \in 1..(n - v) : b[i] = ds[i + v]
  <2>1. a \in Seq(Patches) /\ Len(a) = v /\ \A i \in 1..v : a[i] = ds[i]
    BY SubSeqProperties
  <2>2. b \in Seq(Patches) /\ Len(b) = n - v /\ \A i \in 1..(n - v) : b[i] = ds[i + v]
    BY SubSeqProperties
  <2> QED
    BY <2>1, <2>2
<1> HIDE DEF a, b, n
<1>2. ASSUME NEW f \in Fields
      PROVE  PatchAll(PatchAll(t, a), b)[f] = PatchAll(t, ds)[f]
  <2>1. CASE Having(b, f) = {}
    <3>1. ASSUME NEW i \in (v + 1)..n
          PROVE  i - v \in 1..(n - v) /\ b[i - v] = ds[i]
      <4>1. n \in Nat /\ v \in 0..n
        BY <1>1
      <4>2. i - v \in 1..(n - v) /\ (i - v) + v = i
        BY <4>1
      <4> QED
        BY <1>1, <4>2
    <3>2. \A i \in (v + 1)..n : f \notin DOMAIN ds[i]
      BY <1>1, <2>1, <3>1 DEF Having
    <3>3. \A i \in 1..n : i \in 1..v \/ i \in (v + 1)..n
      BY <1>1
    <3>4. Having(a, f) = Having(ds, f)
      BY <1>1, <3>2, <3>3 DEF Having
    <3>5. Having(a, f) # {} => Max(Having(a, f)) \in 1..v
      BY <1>1, HavingMax DEF Having
    <3> QED
      <4>1. PatchAll(PatchAll(t, a), b)[f] = PatchAll(t, a)[f]
        BY <2>1, PatchAllIs
      <4>2. CASE Having(ds, f) = {}
        <5>1. PatchAll(t, a)[f] = t[f] /\ PatchAll(t, ds)[f] = t[f]
          BY <3>4, <4>2, PatchAllIs
        <5> QED
          BY <4>1, <5>1
      <4>3. CASE Having(ds, f) # {}
        <5> PICK m : m = Max(Having(ds, f))
          OBVIOUS
        <5>1. PatchAll(t, a)[f] = a[m][f] /\ PatchAll(t, ds)[f] = ds[m][f]
          BY <3>4, <4>3, PatchAllIs
        <5>2. a[m] = ds[m]
          BY <1>1, <3>4, <3>5, <4>3
        <5> QED
          BY <4>1, <5>1, <5>2
      <4> QED
        BY <4>2, <4>3
  <2>2. CASE Having(b, f) # {}
    <3> DEFINE m == Max(Having(b, f))
    <3>1. m \in Having(b, f) /\ \A j \in Having(b, f) : j <= m
      BY <1>1, <2>2, HavingMax
    <3> HIDE DEF m
    <3>2. m \in 1..(n - v) /\ b[m] = ds[m + v] /\ f \in DOMAIN b[m]
      BY <1>1, <3>1 DEF Having
    <3>3. m + v \in Having(ds, f)
      BY <1>1, <3>2 DEF Having
    <3>4. ASSUME NEW j \in Having(ds, f) PROVE j <= m + v
      <4>1. j \in 1..n /\ f \in DOMAIN ds[j]
        BY <1>1 DEF Having
      <4>2. CASE j > v
        <5>1. j - v \in 1..(n - v) /\ b[j - v] = ds[(j - v) + v] /\ (j - v) + v = j
          BY <1>1, <4>1, <4>2
        <5>2. j - v \in Having(b, f)
          BY <1>1, <4>1, <5>1 DEF Having
        <5> QED
          BY <1>1, <3>1, <3>2, <4>1, <5>2
      <4> QED
        BY <1>1, <3>2, <4>1, <4>2
    <3>5. Max(Having(ds, f)) = m + v
      BY <3>3, <3>4, HavingIs
    <3> QED
      BY <2>2, <3>2, <3>3, <3>5, PatchAllIs DEF m
  <2> QED
    BY <2>1, <2>2
<1>3. PatchAll(PatchAll(t, a), b) = PatchAll(t, ds)
  BY <1>2 DEF PatchAll
<1> QED
  BY <1>3 DEF a, b, n

(* There are differences from one on to the last one. *)
LEMMA RestNotEmpty ==
  ASSUME NEW S, NEW s \in Seq(S), NEW m \in 1..Len(s)
  PROVE  SubSeq(s, m, Len(s)) # <<>>
<1>1. Len(SubSeq(s, m, Len(s))) = Len(s) - m + 1
  BY SubSeqProperties
<1>2. Len(s) - m + 1 # 0
  OBVIOUS
<1>3. Len(<<>>) = 0
  OBVIOUS
<1> QED
  BY <1>1, <1>2, <1>3, Zenon

(* The difference between two tables makes one into the other. *)
LEMMA PatchDiff ==
  ASSUME NEW old, NEW new \in State
  PROVE  Patch(old, Diff(old, new)) = new
BY DEF Patch, Diff, State

-----------------------------------------------------------------------------
(***************************************************************************)
(* The invariant.                                                          *)
(***************************************************************************)

(* Requests that use their states, and those that give them back *)
Using == {"granted", "query", "answered", "work"}
Closing == {"unlock", "patch", "patched"}

(* The names whose states a request has, and has not given back *)
Owned(q) ==
  {n \in Names : /\ \E i \in DOMAIN q.addrs : q.addrs[i] = <<n, 1>>
                 /\ q.phase \in Using \/ n \in q.todo}

(* What a request is until it has addresses, *)
Early(q) ==
  /\ q.phase \in {"start", "called", "waitting", "spawning"} =>
       q.addrs = <<>> /\ q.todo = {} /\ q.old = <<>>
  /\ q.phase \in {"start", "called", "waitting"} \cup Using => q.call # "unlock"
  /\ q.phase \in {"waitting"} \cup Using => q.call = "lock"
  /\ q.phase \in {"called", "waitting"} /\ q.call = "lock" => q.names \in Queries
  /\ (q.phase = "called" /\ q.call # "lock") \/ q.call = "newstate" =>
       \E n \in Names : q.names = <<n>>
  /\ q.phase = "spawning" => q.call = "newstate"
  /\ q.call = "newstate" =>
       q.phase \in {"called", "spawning", "done", "failed"}
  /\ q.phase = "unlock" => q.call = "unlock"

(* and from then on. *)
Addressed(q) ==
  /\ q.phase \in Using \cup Closing =>
       /\ q.names \in Queries /\ Len(q.addrs) = Len(q.names)
       /\ \A i \in DOMAIN q.addrs : q.addrs[i] \in {Nil, <<q.names[i], 1>>}
  /\ q.phase \in Using \cup {"done"} => q.todo = {}
  /\ q.phase \in {"query", "answered"} => Len(q.old) < Count(q.addrs)
  /\ q.phase = "work" => Len(q.old) = Count(q.addrs) /\ q.old # <<>>
  /\ q.phase = "granted" => q.old = <<>>
  /\ q.phase \in Closing =>
       /\ \A i \in DOMAIN q.addrs : q.addrs[i] # Nil
       /\ q.todo \subseteq NamesOf(q.names)
       /\ DOMAIN q.patch \subseteq NamesOf(q.names)
  /\ q.phase \in {"patch", "patched"} =>
       \E n \in q.todo \cap DOMAIN q.patch : q.at = <<n, 1>>

RequestsOK == \A r \in Requests : Early(req[r]) /\ Addressed(req[r])

(* A request has one message in the queue of the manager at most, or waits
   there once. *)
Queued ==
  /\ \A i, j \in DOMAIN inbox : i # j => inbox[i] # inbox[j]
  /\ \A i \in DOMAIN inbox : req[inbox[i]].phase \in {"called", "unlock"}
  /\ \A i, j \in DOMAIN waitting : i # j => waitting[i] # waitting[j]
  /\ \A i \in DOMAIN waitting : req[waitting[i]].phase = "waitting"

(* The state of a name is made once, by whom asked for it, and nobody has its
   address before. *)
Made ==
  /\ \A n \in Names :
       /\ state[n] # Nil => state[n] = <<n, 1>> /\ spawned[n] = 1
       /\ spawned[n] = 1 => n \in Boot \/ Asked(n) # {}
       /\ n \in Boot => Asked(n) = {}
       /\ \A r, s \in Asked(n) : r = s
       /\ \A r \in Asked(n) :
            req[r].phase \in {"called", "spawning"} => spawned[n] = 0
  /\ \A r \in Requests, n \in Names :
       (\E i \in DOMAIN req[r].addrs : req[r].addrs[i] = <<n, 1>>)
         => spawned[n] = 1

(* A state has one owner at a time, and its name is locked. *)
Locks ==
  /\ \A r, s \in Requests : r # s => Owned(req[r]) \cap Owned(req[s]) = {}
  /\ \A r \in Requests : \A n \in Owned(req[r]) : locked[n]

(* What a cell has is what it was made with and all its differences. *)
Tables == \A c \in Cells : cell[c].t = PatchAll(NewTable(c), cell[c].patches)

(* What a request has seen is what the cells have, and so are the copies its
   worker has made of them; it asks for what has changed since its copy. *)
View(q) ==
  /\ q.phase \in Using => \A i \in DOMAIN q.old :
       /\ q.old[i] = cell[q.addrs[i]].t
       /\ copy[q.worker][q.names[i]] =
            [version |-> Version(q.addrs[i]), t |-> cell[q.addrs[i]].t]
  /\ q.phase \in {"query", "answered"} =>
       LET v == copy[q.worker][q.names[Len(q.old) + 1]].version
       IN  q.v = IF v = -1 THEN 0 ELSE v
  /\ q.phase = "answered" => q.answer = Reply(q.addrs[Len(q.old) + 1], q.v)
Views == \A r \in Requests : View(req[r])

(* A number grows by one with each request at most. *)
Closed == {r \in Requests : req[r].call = "unlock"}
Bounded ==
  /\ \A c \in Cells, f \in Fields : cell[c].t[f] <= Cardinality(Closed)
  /\ \A r \in Requests : \A n \in DOMAIN req[r].patch :
       \A f \in DOMAIN req[r].patch[n] :
         req[r].patch[n][f] <= Cardinality(Closed)

LayerInv ==
  /\ TypeOK /\ RequestsOK /\ Queued /\ Made /\ Locks
  /\ Tables /\ CopyIsAVersion /\ Views /\ Bounded

-----------------------------------------------------------------------------
(***************************************************************************)
(* A turn of the manager.                                                  *)
(***************************************************************************)

(* There is one cell to a name. *)
LEMMA OneCell ==
  ASSUME MaxMakes = 1
  PROVE  /\ \A n \in Names : <<n, 1>> \in Cells
         /\ \A c \in Cells : c[1] \in Names /\ c = <<c[1], 1>>
BY DEF Cells

(* What is left of a request *)
Kept(q, p) ==
  /\ q.worker = p.worker /\ q.call = p.call /\ q.names = p.names
  /\ q.old = p.old /\ q.patch = p.patch

(* It goes on, or ends, without its states. *)
Turned(q, p) ==
  /\ Kept(q, p) /\ q.addrs = p.addrs /\ q.todo \subseteq p.todo
  /\ q.phase \notin Using \cup {"start", "called", "patched"}
  /\ q.phase = "spawning" => p.phase = "called"
  /\ Early(q) /\ Addressed(q)
  /\ \A n \in p.todo \cap DOMAIN p.patch :
       n \in q.todo <=> ~(p.phase = "patched" /\ p.at = <<n, 1>>)

(* It gets them. *)
Given(q, p) ==
  /\ Kept(q, p) /\ q.todo = p.todo
  /\ p.phase \in {"called", "waitting"} /\ p.call = "lock"
  /\ q.phase = "granted"
  /\ q.addrs = [i \in DOMAIN p.names |-> state'[p.names[i]]]

(* One request (r) goes on, some (G) get what they wait for, and of the names
   that were free then (those not in L) no other request has the states. *)
TurnOf(r, G, L) ==
  /\ req' \in [Requests -> Request]
  /\ copy' = copy
  /\ \A c \in Cells : cell'[c].t = cell[c].t /\ cell'[c].patches = cell[c].patches
  /\ \A n \in Names : state'[n] \in {Nil, <<n, 1>>}
  /\ \A s \in G : Given(req'[s], req[s])
  /\ \A s \in Requests \ G :
       req'[s] = req[s] \/ (s = r /\ Turned(req'[s], req[s]))
  /\ \A s, t \in G :
       s # t => NamesOf(req[s].names) \cap NamesOf(req[t].names) = {}
  /\ \A s \in G : NamesOf(req[s].names) \cap L = {}
  /\ \A n \in Names :
       locked'[n] <=> n \in L \/ \E s \in G : n \in NamesOf(req[s].names)
  /\ \A s \in Requests \ G : Owned(req'[s]) \subseteq L

LEMMA TurnRequests ==
  ASSUME LayerInv, NEW r \in Requests, NEW G \in SUBSET Requests, NEW L,
         TurnOf(r, G, L)
  PROVE  RequestsOK'
<1>1. ASSUME NEW s \in G PROVE Early(req'[s]) /\ Addressed(req'[s])
  <2> DEFINE p == req[s]
             q == req'[s]
  <2>1. /\ p \in Request /\ q \in Request /\ Given(q, p) /\ Early(p)
        /\ \A n \in Names : state'[n] \in {Nil, <<n, 1>>}
    BY DEF LayerInv, TypeOK, TurnOf, RequestsOK
  <2> HIDE DEF p, q
  <2>2. /\ p.names \in Queries /\ p.todo = {} /\ p.old = <<>>
        /\ q.names = p.names /\ q.todo = {} /\ q.old = <<>> /\ q.phase = "granted"
        /\ q.call = "lock" /\ q.addrs = [i \in DOMAIN p.names |-> state'[p.names[i]]]
    BY <2>1 DEF Given, Kept, Early
  <2>3. p.names \in Seq(Names)
    BY <2>2, StarreAssumption
  <2>4. /\ DOMAIN q.addrs = DOMAIN q.names /\ Len(q.addrs) = Len(q.names)
        /\ \A i \in DOMAIN q.addrs : q.addrs[i] \in {Nil, <<q.names[i], 1>>}
    BY <2>1, <2>2, <2>3
  <2>5. Early(q)
    BY <2>2 DEF Early, Using
  <2>6. Addressed(q)
    BY <2>2, <2>4 DEF Addressed, Using, Closing
  <2> QED
    BY <2>5, <2>6 DEF q
<1>2. ASSUME NEW s \in Requests \ G PROVE Early(req'[s]) /\ Addressed(req'[s])
  BY <1>2 DEF LayerInv, TurnOf, Turned, RequestsOK
<1> QED
  BY <1>1, <1>2 DEF RequestsOK

LEMMA GivenOwns ==
  ASSUME LayerInv, NEW r \in Requests, NEW G \in SUBSET Requests, NEW L,
         TurnOf(r, G, L), NEW s \in G
  PROVE  /\ Owned(req'[s]) \subseteq NamesOf(req[s].names)
         /\ req[s].todo = {} /\ req'[s].todo = {}
         /\ NamesOf(req[s].names) \subseteq Names
         /\ req'[s].phase = "granted" /\ req[s].phase \in {"called", "waitting"}
<1> DEFINE p == req[s]
           q == req'[s]
<1>1. /\ Given(q, p) /\ Early(p)
      /\ \A n \in Names : state'[n] \in {Nil, <<n, 1>>}
  BY DEF LayerInv, TypeOK, TurnOf, RequestsOK
<1>2. /\ p.names \in Queries /\ p.todo = {} /\ q.todo = {} /\ q.phase = "granted"
      /\ p.phase \in {"called", "waitting"}
      /\ q.addrs = [i \in DOMAIN p.names |-> state'[p.names[i]]]
  BY <1>1 DEF Given, Early
<1>3. p.names \in Seq(Names)
  BY <1>2, StarreAssumption
<1>4. ASSUME NEW n \in Names, NEW i \in DOMAIN q.addrs, q.addrs[i] = <<n, 1>>
      PROVE  n \in NamesOf(p.names)
  <2>1. i \in DOMAIN p.names /\ p.names[i] \in Names /\ state'[p.names[i]] = <<n, 1>>
    BY <1>2, <1>3, <1>4
  <2>2. <<n, 1>> = <<p.names[i], 1>> \/ <<n, 1>> = Nil
    BY <1>1, <2>1
  <2>3. 1 \in 1..MaxMakes
    BY StarreAssumption
  <2>4. <<n, 1>> \in Cells
    BY <2>3 DEF Cells
  <2>5. n = p.names[i]
    BY <2>2, <2>4, StarreNil
  <2> QED
    BY <2>1, <2>5 DEF NamesOf
<1>5. NamesOf(p.names) \subseteq Names
  BY <1>3 DEF NamesOf
<1> HIDE DEF p, q
<1>6. Owned(q) \subseteq NamesOf(p.names)
  BY <1>4 DEF Owned
<1> QED
  BY <1>2, <1>5, <1>6 DEF p, q

LEMMA TurnOwns ==
  ASSUME LayerInv, NEW r \in Requests, NEW G \in SUBSET Requests, NEW L,
         TurnOf(r, G, L), NEW s \in Requests \ G
  PROVE  Owned(req'[s]) \subseteq Owned(req[s])
BY DEF TurnOf, Turned, Owned

LEMMA TurnLocks ==
  ASSUME LayerInv, NEW r \in Requests, NEW G \in SUBSET Requests, NEW L,
         TurnOf(r, G, L)
  PROVE  Locks'
<1>1. /\ \A s \in G : Owned(req'[s]) \subseteq NamesOf(req[s].names)
      /\ \A s \in Requests \ G : Owned(req'[s]) \subseteq Owned(req[s])
      /\ \A s, t \in Requests : s # t => Owned(req[s]) \cap Owned(req[t]) = {}
  BY GivenOwns, TurnOwns DEF LayerInv, Locks
<1>2. /\ \A s, t \in G :
           s # t => NamesOf(req[s].names) \cap NamesOf(req[t].names) = {}
      /\ \A s \in G : NamesOf(req[s].names) \cap L = {}
      /\ \A s \in Requests \ G : Owned(req'[s]) \subseteq L
      /\ \A n \in Names :
           locked'[n] <=> n \in L \/ \E s \in G : n \in NamesOf(req[s].names)
  BY DEF TurnOf
<1>3. ASSUME NEW s \in Requests, NEW t \in Requests, s # t
      PROVE  Owned(req'[s]) \cap Owned(req'[t]) = {}
  <2>1. CASE s \in G /\ t \in G
    BY <1>1, <1>2, <1>3, <2>1
  <2>2. CASE s \in G /\ t \notin G
    BY <1>1, <1>2, <2>2
  <2>3. CASE s \notin G /\ t \in G
    BY <1>1, <1>2, <2>3
  <2>4. CASE s \notin G /\ t \notin G
    BY <1>1, <1>3, <2>4
  <2> QED
    BY <2>1, <2>2, <2>3, <2>4
<1>4. ASSUME NEW s \in Requests, NEW n \in Owned(req'[s]) PROVE locked'[n]
  <2>1. n \in Names
    BY DEF Owned
  <2> QED
    BY <1>1, <1>2, <2>1
<1> QED
  BY <1>3, <1>4 DEF Locks

(* A difference that is not in its cell yet is kept. *)
LEMMA TurnPending ==
  ASSUME LayerInv, NEW r \in Requests, NEW G \in SUBSET Requests, NEW L,
         TurnOf(r, G, L), NEW s \in Requests, NEW c \in Cells, MaxMakes = 1
  PROVE  /\ Pending(s, c) <=> Pending(s, c)'
         /\ Pending(s, c) => req'[s].worker = req[s].worker /\ req'[s].patch = req[s].patch
<1>1. CASE s \in G
  <2>1. ~Pending(s, c) /\ ~Pending(s, c)'
    BY <1>1, GivenOwns DEF Pending
  <2> QED
    BY <2>1
<1>2. CASE s \notin G /\ Turned(req'[s], req[s])
  <2> DEFINE p == req[s]
             q == req'[s]
  <2>1. /\ Turned(q, p) /\ c[1] \in Names /\ c = <<c[1], 1>>
        /\ p.phase = "patched" => p.addrs = q.addrs
    BY <1>2, OneCell DEF Turned
  <2> HIDE DEF p, q
  <2>2. /\ q.phase # "patched" /\ q.patch = p.patch /\ q.addrs = p.addrs
        /\ q.todo \subseteq p.todo /\ q.worker = p.worker
        /\ \A n \in p.todo \cap DOMAIN p.patch :
             n \in q.todo <=> ~(p.phase = "patched" /\ p.at = <<n, 1>>)
    BY <2>1 DEF Turned, Kept
  <2>3. Pending(s, c) => Pending(s, c)'
    BY <2>1, <2>2 DEF Pending, p, q
  <2>4. Pending(s, c)' => Pending(s, c)
    BY <2>1, <2>2 DEF Pending, p, q
  <2> QED
    BY <2>2, <2>3, <2>4 DEF p, q
<1>3. CASE req'[s] = req[s]
  BY <1>3 DEF Pending
<1> QED
  BY <1>1, <1>2, <1>3 DEF TurnOf

LEMMA CountIs ==
  ASSUME NEW a \in Seq(Cells \cup {Nil})
  PROVE  /\ Count(a) \in 0..Len(a)
         /\ \A i \in 1..Count(a) : i \in DOMAIN a /\ a[i] \in Cells
<1>1. /\ Len(a) \in Nat /\ DOMAIN a = 1..Len(a) /\ (a = <<>> <=> Len(a) = 0)
      /\ \A i \in DOMAIN a : a[i] \in Cells \cup {Nil}
  OBVIOUS
<1>2. /\ Count(a) \in 0..2
      /\ Count(a) = 2 => Len(a) = 2 /\ a[1] # Nil /\ a[2] # Nil
      /\ Count(a) = 1 => Len(a) # 0 /\ a[1] # Nil
  BY <1>1 DEF Count
<1> HIDE DEF Count
<1> QED
  BY <1>1, <1>2

(* What a request has asked for, or is about to, is of a cell. *)
LEMMA SeenCells ==
  ASSUME MaxMakes = 1, NEW q \in Request, Addressed(q), q.phase \in Using
  PROVE  /\ \A i \in DOMAIN q.old : /\ i \in DOMAIN q.addrs /\ i \in DOMAIN q.names
                                    /\ q.names[i] \in Names
                                    /\ q.addrs[i] = <<q.names[i], 1>>
                                    /\ q.addrs[i] \in Cells
         /\ q.phase \in {"query", "answered"} =>
              LET i == Len(q.old) + 1
              IN  /\ i \in DOMAIN q.addrs /\ i \in DOMAIN q.names
                  /\ q.names[i] \in Names
                  /\ q.addrs[i] = <<q.names[i], 1>> /\ q.addrs[i] \in Cells
<1>1. /\ q.addrs \in Seq(Cells \cup {Nil}) /\ q.names \in Seq(Names)
      /\ q.old \in Seq(State) /\ Len(q.old) \in Nat /\ DOMAIN q.old = 1..Len(q.old)
  BY DEF Request
<1>2. /\ DOMAIN q.addrs = 1..Len(q.addrs) /\ DOMAIN q.names = 1..Len(q.names)
      /\ Len(q.addrs) = Len(q.names)
      /\ \A i \in DOMAIN q.names : q.names[i] \in Names
      /\ \A i \in DOMAIN q.addrs : q.addrs[i] \in {Nil, <<q.names[i], 1>>}
  BY <1>1 DEF Addressed
<1>3. /\ Count(q.addrs) \in 0..Len(q.addrs)
      /\ \A i \in 1..Count(q.addrs) : i \in DOMAIN q.addrs /\ q.addrs[i] \in Cells
  BY <1>1, CountIs
<1>4. /\ q.phase \in {"query", "answered"} => Len(q.old) < Count(q.addrs)
      /\ q.phase = "work" => Len(q.old) = Count(q.addrs)
      /\ q.phase = "granted" => q.old = <<>>
      /\ q.phase \in {"granted", "query", "answered", "work"}
  BY DEF Addressed, Using
<1>5. Len(q.old) <= Count(q.addrs)
  BY <1>1, <1>3, <1>4
<1>6. \A i \in 1..Count(q.addrs) :
        /\ i \in DOMAIN q.addrs /\ i \in DOMAIN q.names /\ q.names[i] \in Names
        /\ q.addrs[i] = <<q.names[i], 1>> /\ q.addrs[i] \in Cells
  BY <1>2, <1>3, StarreNil
<1> HIDE DEF Count
<1>7. \A i \in DOMAIN q.old : i \in 1..Count(q.addrs)
  BY <1>1, <1>3, <1>5
<1>8. q.phase \in {"query", "answered"} => Len(q.old) + 1 \in 1..Count(q.addrs)
  BY <1>1, <1>3, <1>4
<1> QED
  BY <1>6, <1>7, <1>8

(* What a request sees stays when the states it has stay, and its worker's
   copies of them. *)
LEMMA ViewKept ==
  ASSUME MaxMakes = 1, NEW q \in Request, Addressed(q), View(q),
         \A n \in Owned(q) :
           /\ cell'[<<n, 1>>].t = cell[<<n, 1>>].t
           /\ cell'[<<n, 1>>].patches = cell[<<n, 1>>].patches
           /\ copy'[q.worker][n] = copy[q.worker][n]
  PROVE  View(q)'
<1>1. CASE q.phase \in Using
  <2>1. \A i \in DOMAIN q.addrs, n \in Names : q.addrs[i] = <<n, 1>> => n \in Owned(q)
    BY <1>1 DEF Owned
  <2>2. \A i \in DOMAIN q.old :
          /\ q.addrs[i] = <<q.names[i], 1>> /\ q.names[i] \in Owned(q)
    BY <1>1, <2>1, SeenCells
  <2>3. q.phase \in {"query", "answered"} =>
          LET i == Len(q.old) + 1
          IN  q.addrs[i] = <<q.names[i], 1>> /\ q.names[i] \in Owned(q)
    BY <1>1, <2>1, SeenCells
  <2>4. ASSUME NEW i \in DOMAIN q.old
        PROVE  /\ q.old[i] = cell'[q.addrs[i]].t
               /\ copy'[q.worker][q.names[i]] =
                    [version |-> Version(q.addrs[i])', t |-> cell'[q.addrs[i]].t]
    <3>1. /\ q.old[i] = cell[q.addrs[i]].t
          /\ copy[q.worker][q.names[i]] =
               [version |-> Version(q.addrs[i]), t |-> cell[q.addrs[i]].t]
      BY <1>1 DEF View
    <3>2. /\ cell'[q.addrs[i]].t = cell[q.addrs[i]].t
          /\ cell'[q.addrs[i]].patches = cell[q.addrs[i]].patches
          /\ copy'[q.worker][q.names[i]] = copy[q.worker][q.names[i]]
      BY <2>2
    <3> QED
      BY <3>1, <3>2 DEF Version
  <2>5. ASSUME q.phase \in {"query", "answered"}
        PROVE  LET v == copy'[q.worker][q.names[Len(q.old) + 1]].version
               IN  q.v = IF v = -1 THEN 0 ELSE v
    BY <2>3, <2>5 DEF View
  <2>6. ASSUME q.phase = "answered"
        PROVE  q.answer = Reply(q.addrs[Len(q.old) + 1], q.v)'
    <3> DEFINE c == q.addrs[Len(q.old) + 1]
    <3>1. q.phase \in {"query", "answered"}
      BY <2>6
    <3>2. cell'[c].t = cell[c].t /\ cell'[c].patches = cell[c].patches
      BY <2>3, <3>1
    <3>3. q.answer = Reply(c, q.v)
      BY <2>6 DEF View
    <3> HIDE DEF c
    <3>4. q.answer = Reply(c, q.v)'
      BY <3>2, <3>3 DEF Reply, Version
    <3> QED
      BY <3>4 DEF c
  <2> QED
    BY <1>1, <2>4, <2>5, <2>6 DEF View
<1>2. CASE q.phase \notin Using
  BY <1>2 DEF View, Using
<1> QED
  BY <1>1, <1>2

LEMMA ViewOf ==
  ASSUME NEW q, NEW s, req'[s] = q, View(q)'
  PROVE  View(req[s])'
BY DEF View, Reply, Version

LEMMA TurnViews ==
  ASSUME LayerInv, NEW r \in Requests, NEW G \in SUBSET Requests, NEW L,
         TurnOf(r, G, L), MaxMakes = 1
  PROVE  Views'
<1> SUFFICES ASSUME NEW s \in Requests PROVE View(req[s])'
  BY DEF Views
<1>1. CASE s \in G
  <2>1. req'[s].phase = "granted" /\ req'[s].old = <<>>
    <3>1. req'[s].phase = "granted" /\ req[s].phase \in {"called", "waitting"}
      BY <1>1, GivenOwns
    <3>2. Early(req[s]) /\ req'[s].old = req[s].old
      BY <1>1 DEF LayerInv, RequestsOK, TurnOf, Given, Kept
    <3> QED
      BY <3>1, <3>2 DEF Early
  <2> QED
    BY <2>1 DEF View
<1>2. CASE Turned(req'[s], req[s])
  <2>1. req'[s].phase \notin Using
    BY <1>2 DEF Turned
  <2>2. req'[s].phase \notin {"query", "answered"}
    BY <2>1 DEF Using
  <2> QED
    BY <2>1, <2>2 DEF View
<1>3. CASE req'[s] = req[s]
  <2> PICK q : q = req[s]
    OBVIOUS
  <2>1. /\ View(q) /\ q \in Request /\ Addressed(q) /\ copy' = copy
        /\ \A c \in Cells : cell'[c].t = cell[c].t /\ cell'[c].patches = cell[c].patches
    BY DEF LayerInv, TypeOK, RequestsOK, Views, TurnOf
  <2>2. \A n \in Owned(q) : <<n, 1>> \in Cells
    BY OneCell DEF Owned
  <2>3. View(q)'
    BY <2>1, <2>2, ViewKept
  <2> QED
    BY <1>3, <2>3, ViewOf
<1> QED
  BY <1>1, <1>2, <1>3 DEF TurnOf

(* A worker's copy of one state *)
CopyOf(w, n) ==
  LET v == copy[w][n].version
      c == <<n, 1>>
  IN  \/ v = -1
      \/ /\ v <= Version(c)
         /\ copy[w][n].t = PatchAll(NewTable(c), SubSeq(cell[c].patches, 1, v))
      \/ /\ v = Version(c) + 1
         /\ \E r \in Requests :
              /\ req[r].worker = w /\ Pending(r, c)
              /\ copy[w][n].t = Patch(cell[c].t, req[r].patch[n])

LEMMA CopiesAre == CopyIsAVersion <=> \A w \in Workers, n \in Names : CopyOf(w, n)
BY DEF CopyIsAVersion, CopyOf

(* It stays one when copy and cell stay, and what is still to come for it. *)
LEMMA CopyKept ==
  ASSUME NEW w \in Workers, NEW n \in Names, CopyOf(w, n),
         copy'[w][n] = copy[w][n],
         cell'[<<n, 1>>].t = cell[<<n, 1>>].t,
         cell'[<<n, 1>>].patches = cell[<<n, 1>>].patches,
         \A r \in Requests : Pending(r, <<n, 1>>) =>
           /\ Pending(r, <<n, 1>>)' /\ req'[r].worker = req[r].worker
           /\ req'[r].patch[n] = req[r].patch[n]
  PROVE  CopyOf(w, n)'
<1> DEFINE c == <<n, 1>>
<1>1. Version(c)' = Version(c)
  BY DEF Version
<1>2. ASSUME NEW r \in Requests, req[r].worker = w, Pending(r, c),
             copy[w][n].t = Patch(cell[c].t, req[r].patch[n])
      PROVE  /\ req'[r].worker = w /\ Pending(r, c)'
             /\ copy'[w][n].t = Patch(cell'[c].t, req'[r].patch[n])
  BY <1>2 DEF Patch
<1> HIDE DEF c
<1>3. CopyOf(w, n)' =
        LET v == copy'[w][n].version
        IN  \/ v = -1
            \/ /\ v <= Version(c)'
               /\ copy'[w][n].t = PatchAll(NewTable(c), SubSeq(cell'[c].patches, 1, v))
            \/ /\ v = Version(c)' + 1
               /\ \E r \in Requests :
                    /\ req'[r].worker = w /\ Pending(r, c)'
                    /\ copy'[w][n].t = Patch(cell'[c].t, req'[r].patch[n])
  BY DEF CopyOf, c
<1> QED
  BY <1>1, <1>2, <1>3 DEF CopyOf, c

LEMMA TurnCopies ==
  ASSUME LayerInv, NEW r \in Requests, NEW G \in SUBSET Requests, NEW L,
         TurnOf(r, G, L), MaxMakes = 1
  PROVE  CopyIsAVersion' /\ Tables' /\ Bounded'
<1>1. copy' = copy
      /\ \A c \in Cells : cell'[c].t = cell[c].t /\ cell'[c].patches = cell[c].patches
  BY DEF TurnOf
<1>2. ASSUME NEW w \in Workers, NEW n \in Names PROVE CopyOf(w, n)'
  <2>1. CopyOf(w, n) /\ <<n, 1>> \in Cells
    BY CopiesAre, OneCell DEF LayerInv
  <2>2. \A s \in Requests : Pending(s, <<n, 1>>) =>
           /\ Pending(s, <<n, 1>>)' /\ req'[s].worker = req[s].worker
           /\ req'[s].patch = req[s].patch
    BY <2>1, TurnPending
  <2> QED
    BY <1>1, <2>1, <2>2, CopyKept
<1>3. CopyIsAVersion'
  BY <1>2 DEF CopyIsAVersion, CopyOf
<1>4. Tables'
  BY <1>1 DEF LayerInv, Tables
<1>5. \A s \in Requests : req'[s].call = req[s].call /\ req'[s].patch = req[s].patch
  BY DEF TurnOf, Given, Turned, Kept
<1>6. Closed' = Closed
  BY <1>5 DEF Closed
<1>7. Bounded'
  BY <1>1, <1>5, <1>6 DEF LayerInv, Bounded
<1> QED
  BY <1>3, <1>4, <1>7

(* What the turn does to names: a state is there when its cell was made, and
   none is made but the one r asked for. *)
MakesOf(r) ==
  /\ \A n \in Names : state'[n] # Nil => spawned'[n] = 1
  /\ \/ spawned' = spawned
     \/ \E n \in Names : /\ r \in Asked(n) /\ req'[r].phase \notin {"called", "spawning"}
                         /\ spawned' = [spawned EXCEPT ![n] = 1]

LEMMA TurnMade ==
  ASSUME LayerInv, NEW r \in Requests, NEW G \in SUBSET Requests, NEW L,
         TurnOf(r, G, L), MakesOf(r), MaxMakes = 1
  PROVE  Made'
<1>1. /\ \A s \in Requests : req'[s].call = req[s].call /\ req'[s].names = req[s].names
      /\ \A n \in Names : state'[n] \in {Nil, <<n, 1>>}
      /\ spawned \in [Names -> 0..1]
  BY DEF TurnOf, Given, Turned, Kept, LayerInv, TypeOK
<1>2. \A n : Asked(n)' = Asked(n)
  BY <1>1 DEF Asked
<1>3. \A n \in Names : /\ spawned[n] \in {0, 1} /\ (spawned[n] = 1 => spawned'[n] = 1)
                       /\ spawned'[n] # spawned[n] => spawned'[n] = 1 /\ r \in Asked(n)
                                        /\ req'[r].phase \notin {"called", "spawning"}
  BY <1>1 DEF MakesOf
<1>4. ASSUME NEW n \in Names
      PROVE  /\ state'[n] # Nil => state'[n] = <<n, 1>> /\ spawned'[n] = 1
             /\ spawned'[n] = 1 => n \in Boot \/ Asked(n) # {}
             /\ n \in Boot => Asked(n) = {}
             /\ \A s, t \in Asked(n) : s = t
  BY <1>1, <1>3 DEF LayerInv, Made, MakesOf
<1>5. ASSUME NEW n \in Names, NEW s \in Asked(n),
             req'[s].phase \in {"called", "spawning"}
      PROVE  spawned'[n] = 0
  <2>1. s \in Requests /\ s \notin G
    BY <1>5, GivenOwns DEF Asked
  <2>2. req[s].phase \in {"called", "spawning"}
    BY <1>5, <2>1 DEF TurnOf, Turned
  <2>3. spawned[n] = 0
    BY <2>2 DEF LayerInv, Made
  <2>4. r \in Asked(n) => r = s
    BY DEF LayerInv, Made
  <2> QED
    BY <1>3, <1>5, <2>3, <2>4
<1>6. ASSUME NEW s \in Requests, NEW n \in Names, NEW i \in DOMAIN req'[s].addrs,
             req'[s].addrs[i] = <<n, 1>>
      PROVE  spawned'[n] = 1
  <2>1. CASE s \in G
    <3> PICK p : p = req[s]
      OBVIOUS
    <3>1. /\ req'[s].addrs = [j \in DOMAIN p.names |-> state'[p.names[j]]]
          /\ p.phase \in {"called", "waitting"} /\ p.call = "lock" /\ Early(p)
      BY <2>1 DEF TurnOf, Given, LayerInv, RequestsOK
    <3>2. p.names \in Seq(Names)
      BY <3>1, StarreAssumption DEF Early
    <3>3. p.names[i] \in Names /\ state'[p.names[i]] = <<n, 1>>
      BY <1>6, <3>1, <3>2
    <3>4. <<n, 1>> # Nil
      BY OneCell, StarreNil
    <3>5. p.names[i] = n
      <4> PICK m : m = p.names[i]
        OBVIOUS
      <4>1. m \in Names /\ state'[m] = <<n, 1>> /\ state'[m] \in {Nil, <<m, 1>>}
        BY <1>1, <3>3
      <4>2. <<n, 1>> = <<m, 1>>
        BY <3>4, <4>1
      <4> QED
        BY <4>2
    <3> QED
      BY <3>3, <3>4, <3>5 DEF MakesOf
  <2>2. CASE s \notin G
    <3>1. req'[s].addrs = req[s].addrs
      BY <2>2 DEF TurnOf, Turned
    <3>2. spawned[n] = 1
      BY <1>6, <3>1 DEF LayerInv, Made
    <3> QED
      BY <1>3, <3>2
  <2> QED
    BY <2>1, <2>2
<1> QED
  BY <1>2, <1>4, <1>5, <1>6 DEF Made

(* What it does to who waits *)
QueueOf(r, G) ==
  /\ \/ inbox # <<>> /\ Head(inbox) = r /\ inbox' = Tail(inbox)
     \/ inbox' = inbox /\ req[r].phase \in {"spawning", "patched"}
  /\ \A s \in G : s = r \/ req[s].phase = "waitting"
  /\ waitting' \in Seq(Requests)
  /\ \A i, j \in DOMAIN waitting' : i # j => waitting'[i] # waitting'[j]
  /\ \A i \in DOMAIN waitting' :
       /\ waitting'[i] \notin G
       /\ IF waitting'[i] = r THEN req'[r].phase = "waitting"
          ELSE req[waitting'[i]].phase = "waitting"

LEMMA TurnQueued ==
  ASSUME LayerInv, NEW r \in Requests, NEW G \in SUBSET Requests, NEW L,
         TurnOf(r, G, L), QueueOf(r, G)
  PROVE  Queued' /\ inbox' \in Seq(Requests)
<1>1. /\ inbox \in Seq(Requests)
      /\ \A i, j \in DOMAIN inbox : i # j => inbox[i] # inbox[j]
      /\ \A i \in DOMAIN inbox : req[inbox[i]].phase \in {"called", "unlock"}
  BY DEF LayerInv, TypeOK, Queued
<1>2. \A s \in Requests \ G : s # r => req'[s] = req[s]
  BY DEF TurnOf
<1>3. /\ inbox' \in Seq(Requests)
      /\ \A i, j \in DOMAIN inbox' : i # j => inbox'[i] # inbox'[j]
      /\ \A i \in DOMAIN inbox' : /\ inbox'[i] \in Requests /\ inbox'[i] # r
                                  /\ req[inbox'[i]].phase \in {"called", "unlock"}
  <2>1. CASE inbox # <<>> /\ Head(inbox) = r /\ inbox' = Tail(inbox)
    <3>1. /\ inbox' \in Seq(Requests) /\ 1 \in DOMAIN inbox /\ r = inbox[1]
          /\ \A i \in DOMAIN inbox' : /\ i + 1 \in DOMAIN inbox /\ i + 1 # 1
                                      /\ inbox'[i] = inbox[i + 1]
          /\ \A i, j \in DOMAIN inbox' : i # j => i + 1 # j + 1
      BY <1>1, <2>1
    <3> QED
      BY <1>1, <3>1
  <2>2. CASE inbox' = inbox /\ req[r].phase \in {"spawning", "patched"}
    BY <1>1, <2>2
  <2> QED
    BY <2>1, <2>2 DEF QueueOf
<1>4. \A i \in DOMAIN inbox' : req'[inbox'[i]].phase \in {"called", "unlock"}
  <2> SUFFICES ASSUME NEW i \in DOMAIN inbox'
               PROVE  req'[inbox'[i]].phase \in {"called", "unlock"}
    OBVIOUS
  <2>1. inbox'[i] \notin G
    BY <1>3 DEF QueueOf
  <2> QED
    BY <1>2, <1>3, <2>1
<1>5. \A i \in DOMAIN waitting' : req'[waitting'[i]].phase = "waitting"
  <2> SUFFICES ASSUME NEW i \in DOMAIN waitting'
               PROVE  req'[waitting'[i]].phase = "waitting"
    OBVIOUS
  <2>1. waitting'[i] \in Requests
    BY DEF QueueOf
  <2> QED
    BY <1>2, <2>1 DEF QueueOf
<1> QED
  BY <1>3, <1>4, <1>5 DEF Queued, QueueOf

(* No state gets another value, *)
Settled ==
  /\ \A c \in Cells : cell'[c].t = cell[c].t
  /\ \A s \in Requests, c \in Cells :
       /\ Pending(s, c) <=> Pending(s, c)'
       /\ Pending(s, c) => req'[s].patch = req[s].patch

(* and a request is at work as it was. *)
AsBefore(q, p) ==
  /\ q.phase = "work" <=> p.phase = "work"
  /\ p.phase = "work" => q.old = p.old /\ q.addrs = p.addrs
Steady == Settled /\ \A s \in Requests : AsBefore(req'[s], req[s])

LEMMA TurnSteady ==
  ASSUME LayerInv, NEW r \in Requests, NEW G \in SUBSET Requests, NEW L,
         TurnOf(r, G, L), QueueOf(r, G), MaxMakes = 1
  PROVE  Steady
<1>1. Settled
  <2>1. \A s \in Requests, c \in Cells :
          /\ Pending(s, c) <=> Pending(s, c)'
          /\ Pending(s, c) => req'[s].patch = req[s].patch
    BY TurnPending
  <2>2. \A c \in Cells : cell'[c].t = cell[c].t
    BY DEF TurnOf
  <2> QED
    BY <2>1, <2>2 DEF Settled
<1>2. req[r].phase \in {"called", "unlock", "spawning", "patched"}
  <2>1. CASE inbox # <<>> /\ Head(inbox) = r
    <3>1. 1 \in DOMAIN inbox /\ inbox[1] = r
      BY <2>1 DEF LayerInv, TypeOK
    <3> QED
      BY <3>1 DEF LayerInv, Queued
  <2> QED
    BY <2>1 DEF QueueOf
<1>3. ASSUME NEW s \in Requests PROVE AsBefore(req'[s], req[s])
  <2>1. CASE s \in G
    <3>1. req'[s].phase = "granted" /\ req[s].phase \in {"called", "waitting"}
      BY <2>1, GivenOwns
    <3> QED
      BY <3>1 DEF AsBefore
  <2>2. CASE s = r /\ Turned(req'[s], req[s])
    BY <1>2, <2>2 DEF AsBefore, Turned, Using
  <2>3. CASE req'[s] = req[s]
    BY <2>3 DEF AsBefore
  <2> QED
    BY <2>1, <2>2, <2>3 DEF TurnOf
<1> QED
  BY <1>1, <1>3 DEF Steady

(* So is a step of a request that leaves alone what is still to be made. *)
LEMMA StepSettled ==
  ASSUME NEW r \in Requests, NEW p, NEW q, p = req[r], q = req'[r],
         \A s \in Requests : s # r => req'[s] = req[s],
         \A c \in Cells : cell'[c].t = cell[c].t,
         q.addrs = p.addrs, q.todo = p.todo, q.patch = p.patch,
         p.phase # "patched", q.phase # "patched"
  PROVE  /\ Settled
         /\ p.phase # "work" /\ q.phase # "work" => Steady
<1>1. ASSUME NEW s \in Requests, NEW c \in Cells
      PROVE  /\ Pending(s, c) <=> Pending(s, c)'
             /\ Pending(s, c) => req'[s].patch = req[s].patch
  <2>1. CASE s = r
    BY <2>1 DEF Pending
  <2>2. CASE s # r
    BY <2>2 DEF Pending
  <2> QED
    BY <2>1, <2>2
<1>2. Settled
  BY <1>1 DEF Settled
<1>3. ASSUME p.phase # "work", q.phase # "work", NEW s \in Requests
      PROVE  AsBefore(req'[s], req[s])
  BY <1>3 DEF AsBefore
<1> QED
  BY <1>2, <1>3 DEF Steady

(* All there is to show of a turn *)
LEMMA TurnKeeps ==
  ASSUME LayerInv, NEW r \in Requests, NEW G \in SUBSET Requests, NEW L,
         TurnOf(r, G, L), MakesOf(r), QueueOf(r, G), MaxMakes = 1,
         state' \in [Names -> Cells \cup {Nil}], locked' \in [Names -> BOOLEAN],
         cell' \in [Cells -> [t : State, patches : Seq(Patches),
                              status : {"none", "up", "leaving", "gone"}]]
  PROVE  LayerInv' /\ Steady
<1>1. /\ RequestsOK' /\ Queued' /\ Made' /\ Locks' /\ Tables' /\ CopyIsAVersion'
      /\ Views' /\ Bounded' /\ inbox' \in Seq(Requests)
  BY TurnRequests, TurnQueued, TurnMade, TurnLocks, TurnCopies, TurnViews
<1>2. spawned' \in [Names -> 0..MaxMakes] /\ waitting' \in Seq(Requests)
      /\ copy' = copy /\ req' \in [Requests -> Request]
  <2>1. spawned' \in [Names -> 0..MaxMakes]
    <3>1. spawned \in [Names -> 0..1]
      BY DEF LayerInv, TypeOK
    <3>2. ASSUME NEW n \in Names PROVE [spawned EXCEPT ![n] = 1] \in [Names -> 0..1]
      BY <3>1
    <3> QED
      BY <3>1, <3>2 DEF MakesOf
  <2>2. waitting' \in Seq(Requests)
    BY DEF QueueOf
  <2>3. copy' = copy /\ req' \in [Requests -> Request]
    BY DEF TurnOf
  <2> QED
    BY <2>1, <2>2, <2>3
<1>3. TypeOK'
  BY <1>1, <1>2 DEF LayerInv, TypeOK
<1>4. Steady
  BY TurnSteady
<1> QED
  BY <1>1, <1>3, <1>4 DEF LayerInv

(* What a request is when it gets its names (try_lock) *)
LEMMA GrantIs ==
  ASSUME NEW st \in [Names -> Cells \cup {Nil}], NEW L, NEW w,
         NEW rq \in [Requests -> Request], NEW s \in Requests,
         Early(rq[s]), rq[s].phase \in {"called", "waitting"}, rq[s].call = "lock"
  PROVE  LET q == Grant([state |-> st, locked |-> L, waitting |-> w, req |-> rq], s).req[s]
         IN  /\ q \in Request /\ Kept(q, rq[s]) /\ q.todo = rq[s].todo
             /\ q.phase = "granted"
             /\ q.addrs = [i \in DOMAIN rq[s].names |-> st[rq[s].names[i]]]
             /\ rq[s].names \in Seq(Names)
<1> DEFINE M == [state |-> st, locked |-> L, waitting |-> w, req |-> rq]
           p == rq[s]
           a == [i \in DOMAIN p.names |-> st[p.names[i]]]
           q == Grant(M, s).req[s]
<1>1. p.names \in Seq(Names)
  BY StarreAssumption DEF Early
<1>2. a \in Seq(Cells \cup {Nil})
  BY <1>1
<1>3. p \in Request /\ M.req = rq /\ M.state = st
  OBVIOUS
<1>4. QueryStates(M, M.req[s].names) = a
  BY <1>3 DEF QueryStates
<1> HIDE DEF M, a
<1>5. Grant(M, s).req = [rq EXCEPT ![s].phase = "granted", ![s].addrs = a]
  BY <1>3, <1>4 DEF Grant, M
<1>6. q = [p EXCEPT !.phase = "granted", !.addrs = a]
  BY <1>5
<1> HIDE DEF q, p
<1>7. q \in Request /\ Kept(q, p) /\ q.todo = p.todo /\ q.phase = "granted" /\ q.addrs = a
  BY <1>2, <1>3, <1>6 DEF Request, Kept, Phase
<1> QED
  BY <1>1, <1>7 DEF q, p, a, M

(* try_wakup: who of those who wait gets the names *)
WokenTo(r, L, rq, G) ==
  /\ \A s \in G : /\ s # r /\ req[s].phase = "waitting"
                  /\ Given(req'[s], req[s])
                  /\ \A n \in NamesOf(req[s].names) : ~L[n]
  /\ \A s \in Requests \ G : req'[s] = rq[s]
  /\ \A s, t \in G :
       s # t => NamesOf(req[s].names) \cap NamesOf(req[t].names) = {}
  /\ \A n \in Names :
       locked'[n] <=> L[n] \/ \E s \in G : n \in NamesOf(req[s].names)
  /\ \A i \in DOMAIN waitting' :
       /\ waitting'[i] \notin G /\ waitting'[i] # r
       /\ req[waitting'[i]].phase = "waitting"

LEMMA Woken ==
  ASSUME LayerInv, NEW r \in Requests, req[r].phase # "waitting",
         NEW st \in [Names -> Cells \cup {Nil}], NEW L \in [Names -> BOOLEAN],
         NEW rq \in [Requests -> Request], \A s \in Requests : s # r => rq[s] = req[s],
         TryWakup([state |-> st, locked |-> L, waitting |-> waitting, req |-> rq])
  PROVE  /\ state' = st /\ locked' \in [Names -> BOOLEAN]
         /\ req' \in [Requests -> Request] /\ waitting' \in Seq(Requests)
         /\ \A i, j \in DOMAIN waitting' : i # j => waitting'[i] # waitting'[j]
         /\ \E G \in SUBSET Requests : WokenTo(r, L, rq, G)
<1> DEFINE M == [state |-> st, locked |-> L, waitting |-> waitting, req |-> rq]
<1>1. /\ M.state = st /\ M.locked = L /\ M.waitting = waitting /\ M.req = rq
      /\ M = [state |-> st, locked |-> L, waitting |-> waitting, req |-> rq]
  OBVIOUS
<1>2. TryWakup(M)
  OBVIOUS
<1> HIDE DEF M
<1>3. PICK f \in Waiting(M) : SetManager(Wake(M, f))
  BY <1>2 DEF TryWakup
<1>4. PICK w : w = waitting
  OBVIOUS
<1> DEFINE W == {f[k] : k \in DOMAIN f}
           G == {w[i] : i \in DOMAIN w \ W}
<1>5. /\ w \in Seq(Requests) /\ DOMAIN w = 1..Len(w) /\ Len(w) \in Nat
      /\ \A i, j \in DOMAIN w : i # j => w[i] # w[j]
      /\ \A i \in DOMAIN w : req[w[i]].phase = "waitting"
  BY <1>4 DEF LayerInv, TypeOK, Queued
<1>6. PICK k \in 0..Len(w) : f \in [1..k -> DOMAIN w]
  BY <1>1, <1>3, <1>4 DEF Waiting
<1>7. /\ \A i, j \in DOMAIN f : i < j => f[i] < f[j]
      /\ \A i \in DOMAIN w : i \notin W =>
           /\ CanLock(M, w[i])
           /\ \A j \in 1..(i - 1) : j \notin W =>
                NamesOf(rq[w[i]].names) \cap NamesOf(rq[w[j]].names) = {}
  BY <1>1, <1>3, <1>4 DEF Waiting, Waits
<1>8. /\ k \in Nat /\ DOMAIN f = 1..k /\ \A i \in 1..k : f[i] \in DOMAIN w /\ f[i] \in W
      /\ W \subseteq DOMAIN w
  <2>1. k \in Nat /\ DOMAIN f = 1..k /\ \A i \in 1..k : f[i] \in DOMAIN w
    BY <1>5, <1>6
  <2> QED
    BY <2>1
<1> HIDE DEF W
<1>9. /\ G \in SUBSET Requests
      /\ \A s \in G : \E i \in DOMAIN w : i \notin W /\ s = w[i]
      /\ \A i \in W : w[i] \notin G
  BY <1>5, <1>8
<1>10. \A s \in G : s # r /\ req[s].phase = "waitting" /\ rq[s] = req[s]
  BY <1>5, <1>9
<1>11. G = {M.waitting[i] : i \in DOMAIN M.waitting \ {f[i] : i \in DOMAIN f}}
  BY <1>1, <1>4 DEF W
<1> HIDE DEF G
<1>12. /\ state' = st /\ waitting' = [i \in DOMAIN f |-> w[f[i]]]
       /\ locked' = [n \in Names |-> L[n] \/ \E s \in G : n \in NamesOf(rq[s].names)]
       /\ req' = [s \in Requests |-> IF s \in G THEN Grant(M, s).req[s] ELSE rq[s]]
  <2> DEFINE lk == [n \in Names |-> L[n] \/ \E s \in G : n \in NamesOf(rq[s].names)]
             rn == [s \in Requests |-> IF s \in G THEN Grant(M, s).req[s] ELSE rq[s]]
             wn == [i \in DOMAIN f |-> w[f[i]]]
  <2>1. GrantAll(M, G) = [state |-> st, locked |-> lk, waitting |-> w, req |-> rn]
    <3>1. GrantAll(M, G) = [M EXCEPT !.locked = lk, !.req = rn]
      BY <1>1 DEF GrantAll
    <3> HIDE DEF lk, rn
    <3> QED
      BY <1>1, <1>4, <3>1
  <2> HIDE DEF lk, rn
  <2>2. Wake(M, f) = [GrantAll(M, G) EXCEPT !.waitting = [i \in DOMAIN f |-> @[f[i]]]]
    BY <1>11 DEF Wake
  <2>3. Wake(M, f) = [state |-> st, locked |-> lk, waitting |-> wn, req |-> rn]
    BY <2>1, <2>2
  <2> HIDE DEF wn
  <2>4. state' = st /\ locked' = lk /\ waitting' = wn /\ req' = rn
    BY <1>3, <2>3 DEF SetManager
  <2> QED
    BY <2>4 DEF lk, rn, wn
<1>13. ASSUME NEW s \in G
       PROVE  /\ req'[s] \in Request /\ Given(req'[s], req[s])
              /\ \A n \in NamesOf(req[s].names) : ~L[n]
  <2>1. /\ s \in Requests /\ rq[s] = req[s] /\ req[s].phase = "waitting"
        /\ Early(rq[s])
    BY <1>9, <1>10 DEF LayerInv, RequestsOK
  <2>2. rq[s].call = "lock" /\ rq[s].phase \in {"called", "waitting"}
    BY <2>1 DEF Early
  <2> DEFINE q == Grant(M, s).req[s]
  <2>3. /\ q \in Request /\ Kept(q, rq[s]) /\ q.todo = rq[s].todo
        /\ q.phase = "granted"
        /\ q.addrs = [i \in DOMAIN rq[s].names |-> st[rq[s].names[i]]]
    BY <1>1, <2>1, <2>2, GrantIs
  <2>4. req'[s] = q /\ state' = st
    BY <1>12, <2>1
  <2> HIDE DEF q
  <2>5. req'[s] \in Request /\ Given(req'[s], req[s])
    BY <2>1, <2>2, <2>3, <2>4 DEF Given
  <2>6. \A n \in NamesOf(rq[s].names) : ~L[n]
    BY <1>1, <1>7, <1>9 DEF CanLock
  <2> QED
    BY <2>1, <2>5, <2>6
<1>14. ASSUME NEW s \in G, NEW t \in G, s # t
       PROVE  NamesOf(req[s].names) \cap NamesOf(req[t].names) = {}
  <2>1. PICK i \in DOMAIN w, j \in DOMAIN w :
          i \notin W /\ j \notin W /\ s = w[i] /\ t = w[j]
    BY <1>9
  <2>2. i \in 1..(j - 1) \/ j \in 1..(i - 1)
    BY <1>5, <1>14, <2>1
  <2>3. NamesOf(rq[s].names) \cap NamesOf(rq[t].names) = {}
    BY <1>7, <2>1, <2>2
  <2> QED
    BY <1>10, <2>3
<1>15. req' \in [Requests -> Request] /\ locked' \in [Names -> BOOLEAN]
  <2>1. \A s \in Requests : (IF s \in G THEN Grant(M, s).req[s] ELSE rq[s]) \in Request
    BY <1>12, <1>13
  <2> QED
    BY <1>12, <2>1
<1>16. /\ waitting' \in Seq(Requests) /\ DOMAIN waitting' = 1..k
       /\ \A i \in 1..k : waitting'[i] = w[f[i]]
  BY <1>5, <1>8, <1>12
<1>17. \A i, j \in DOMAIN waitting' : i # j => waitting'[i] # waitting'[j]
  BY <1>5, <1>7, <1>8, <1>16
<1>18. \A i \in DOMAIN waitting' :
         /\ waitting'[i] \notin G /\ waitting'[i] # r
         /\ req[waitting'[i]].phase = "waitting"
  BY <1>5, <1>8, <1>9, <1>16
<1>19. \A n \in Names :
         locked'[n] <=> L[n] \/ \E s \in G : n \in NamesOf(req[s].names)
  BY <1>10, <1>12
<1>20. \A s \in Requests \ G : req'[s] = rq[s]
  BY <1>12
<1>21. \A s \in G : /\ s # r /\ req[s].phase = "waitting" /\ Given(req'[s], req[s])
                    /\ \A n \in NamesOf(req[s].names) : ~L[n]
  BY <1>10, <1>13
<1>22. /\ state' = st /\ locked' \in [Names -> BOOLEAN]
       /\ req' \in [Requests -> Request] /\ waitting' \in Seq(Requests)
       /\ \A i, j \in DOMAIN waitting' : i # j => waitting'[i] # waitting'[j]
  BY <1>12, <1>15, <1>16, <1>17
<1>23. G \in SUBSET Requests
  BY <1>9
<1>24. WokenTo(r, L, rq, G)
  BY <1>14, <1>18, <1>19, <1>20, <1>21 DEF WokenTo
<1> QED
  BY <1>22, <1>23, <1>24

-----------------------------------------------------------------------------
(***************************************************************************)
(* The handlers of the manager.                                            *)
(***************************************************************************)

(* The names that are locked *)
LockedNames == {n \in Names : locked[n]}

(* Who is at the head of the queue *)
LEMMA AtHead ==
  ASSUME LayerInv, NEW r \in Requests, NEW call, Turn(r, call)
  PROVE  /\ inbox # <<>> /\ Head(inbox) = r /\ req[r].call = call
         /\ req[r].phase = IF call = "unlock" THEN "unlock" ELSE "called"
         /\ req[r] \in Request /\ Early(req[r]) /\ Addressed(req[r])
<1>1. /\ inbox \in Seq(Requests) /\ inbox # <<>> /\ r = Head(inbox)
      /\ req[r].call = call
  BY DEF Turn, LayerInv, TypeOK
<1>2. 1 \in DOMAIN inbox /\ inbox[1] = r
  BY <1>1
<1>3. req[r].phase \in {"called", "unlock"}
  BY <1>2 DEF LayerInv, Queued
<1>4. req[r] \in Request /\ Early(req[r]) /\ Addressed(req[r])
  BY DEF LayerInv, TypeOK, RequestsOK
<1>5. req[r].phase = IF call = "unlock" THEN "unlock" ELSE "called"
  BY <1>1, <1>3, <1>4 DEF Early
<1> QED
  BY <1>1, <1>4, <1>5

(* Before and after a turn, with nothing else happening *)
LEMMA Unturned ==
  ASSUME LayerInv, MaxMakes = 1
  PROVE  /\ \A n \in Names : state[n] \in {Nil, <<n, 1>>}
         /\ \A n \in Names : state[n] # Nil => spawned[n] = 1
         /\ \A s \in Requests : Owned(req[s]) \subseteq LockedNames
         /\ \A n \in Names : locked[n] <=> n \in LockedNames
         /\ waitting \in Seq(Requests)
         /\ \A i, j \in DOMAIN waitting : i # j => waitting[i] # waitting[j]
         /\ \A i \in DOMAIN waitting : req[waitting[i]].phase = "waitting"
         /\ state \in [Names -> Cells \cup {Nil}] /\ locked \in [Names -> BOOLEAN]
         /\ cell \in [Cells -> [t : State, patches : Seq(Patches),
                                status : {"none", "up", "leaving", "gone"}]]
         /\ req \in [Requests -> Request]
<1>1. \A s \in Requests : Owned(req[s]) \subseteq LockedNames
  BY DEF LayerInv, Locks, Owned, LockedNames
<1> QED
  BY <1>1 DEF LayerInv, Made, Queued, TypeOK, LockedNames

LEMMA HandleLockKeeps ==
  ASSUME LayerInv, NEW r \in Requests, HandleLock(r), MaxMakes = 1
  PROVE  LayerInv' /\ Steady
<1>1. /\ inbox # <<>> /\ Head(inbox) = r /\ req[r].call = "lock"
      /\ req[r].phase = "called" /\ req[r] \in Request /\ Early(req[r])
  BY AtHead DEF HandleLock
<1>2. /\ req[r].addrs = <<>> /\ req[r].todo = {} /\ req[r].old = <<>>
      /\ req[r].names \in Queries
  BY <1>1 DEF Early
<1>3. /\ inbox' = Tail(inbox) /\ spawned' = spawned /\ cell' = cell /\ copy' = copy
      /\ SetManager(LockNames(Manager, r))
  BY DEF HandleLock, EndTurn
<1>4. CASE CanLock(Manager, r)
  <2> DEFINE q == Grant(Manager, r).req[r]
  <2>1. /\ q \in Request /\ Kept(q, req[r]) /\ q.todo = req[r].todo
        /\ q.phase = "granted"
        /\ q.addrs = [i \in DOMAIN req[r].names |-> state[req[r].names[i]]]
    <3> PICK st, lk, w, rq : st = state /\ lk = locked /\ w = waitting /\ rq = req
      OBVIOUS
    <3>1. st \in [Names -> Cells \cup {Nil}] /\ rq \in [Requests -> Request]
      BY Unturned
    <3>2. Early(rq[r]) /\ rq[r].phase \in {"called", "waitting"} /\ rq[r].call = "lock"
      BY <1>1
    <3> DEFINE M == [state |-> st, locked |-> lk, waitting |-> w, req |-> rq]
    <3>3. Manager = M
      BY DEF Manager
    <3>4. LET g == Grant(M, r).req[r]
          IN  /\ g \in Request /\ Kept(g, rq[r]) /\ g.todo = rq[r].todo
              /\ g.phase = "granted"
              /\ g.addrs = [i \in DOMAIN rq[r].names |-> st[rq[r].names[i]]]
      BY <3>1, <3>2, GrantIs
    <3> HIDE DEF M
    <3> QED
      BY <3>3, <3>4
  <2>2. Grant(Manager, r) =
          [state |-> state, waitting |-> waitting,
           locked |-> [n \in Names |-> locked[n] \/ n \in NamesOf(req[r].names)],
           req |-> [req EXCEPT ![r] = q]]
    <3> DEFINE a == QueryStates(Manager, Manager.req[r].names)
               lk == [n \in Names |-> locked[n] \/ n \in NamesOf(req[r].names)]
    <3>1. Grant(Manager, r) =
            [Manager EXCEPT !.locked = lk, !.req[r].phase = "granted", !.req[r].addrs = a]
      BY DEF Grant, Manager
    <3> HIDE DEF a, lk
    <3>2. Grant(Manager, r) =
            [state |-> state, locked |-> lk, waitting |-> waitting,
             req |-> [req EXCEPT ![r].phase = "granted", ![r].addrs = a]]
      BY <3>1 DEF Manager
    <3> DEFINE rn == [req EXCEPT ![r].phase = "granted", ![r].addrs = a]
    <3>3. q = rn[r]
      BY <3>2
    <3>4. rn \in [Requests -> {rn[s] : s \in Requests}]
          /\ \A s \in Requests : s # r => rn[s] = req[s]
      BY Unturned
    <3> HIDE DEF q, rn
    <3>5. \A s \in Requests : rn[s] = [req EXCEPT ![r] = q][s]
      BY <3>3, <3>4, Unturned
    <3>6. rn = [req EXCEPT ![r] = q]
      BY <3>4, <3>5, Unturned
    <3>7. [req EXCEPT ![r].phase = "granted", ![r].addrs = a] = [req EXCEPT ![r] = q]
      BY <3>6 DEF rn
    <3> QED
      BY <3>2, <3>7 DEF lk
  <2> HIDE DEF q
  <2>3. /\ state' = state /\ waitting' = waitting
        /\ locked' = [n \in Names |-> locked[n] \/ n \in NamesOf(req[r].names)]
        /\ req' = [req EXCEPT ![r] = q]
    BY <1>3, <1>4, <2>2 DEF SetManager, LockNames
  <2>4. /\ req' \in [Requests -> Request] /\ req'[r] = q
        /\ \A s \in Requests : s # r => req'[s] = req[s]
    BY <2>1, <2>3, Unturned
  <2>5. Given(req'[r], req[r])
    BY <1>1, <2>1, <2>3, <2>4 DEF Given
  <2>6. \A n \in NamesOf(req[r].names) : n \notin LockedNames
    BY <1>4 DEF CanLock, Manager, LockedNames
  <2>7. TurnOf(r, {r}, LockedNames)
    <3>1. \A n \in Names : locked'[n] <=> n \in LockedNames \/ n \in NamesOf(req[r].names)
      BY <2>3, Unturned
    <3>2. \A s \in Requests \ {r} : Owned(req'[s]) \subseteq LockedNames
      BY <2>4, Unturned
    <3> QED
      BY <1>3, <2>3, <2>4, <2>5, <2>6, <3>1, <3>2, Unturned DEF TurnOf
  <2>8. MakesOf(r)
    BY <1>3, <2>3, Unturned DEF MakesOf
  <2>9. QueueOf(r, {r})
    BY <1>1, <1>3, <2>3, Unturned DEF QueueOf
  <2>10. locked' \in [Names -> BOOLEAN]
    BY <2>3, Unturned
  <2> QED
    BY <1>3, <2>3, <2>7, <2>8, <2>9, <2>10, Unturned, TurnKeeps
<1>5. CASE ~CanLock(Manager, r)
  <2> DEFINE q == [req[r] EXCEPT !.phase = "waitting"]
  <2>1. LockNames(Manager, r) =
          [state |-> state, waitting |-> Append(waitting, r), locked |-> locked,
           req |-> [req EXCEPT ![r] = q]]
    BY <1>5, Unturned DEF LockNames, Manager
  <2>2. /\ q \in Request /\ Kept(q, req[r]) /\ q.todo = {} /\ q.addrs = <<>>
        /\ q.phase = "waitting" /\ q.old = <<>> /\ q.call = "lock" /\ q.names \in Queries
    BY <1>1, <1>2 DEF Kept, Request, Phase
  <2> HIDE DEF q
  <2>3. /\ state' = state /\ waitting' = Append(waitting, r) /\ locked' = locked
        /\ req' = [req EXCEPT ![r] = q]
    BY <1>3, <2>1 DEF SetManager
  <2>4. /\ req' \in [Requests -> Request] /\ req'[r] = q
        /\ \A s \in Requests : s # r => req'[s] = req[s]
    BY <2>2, <2>3, Unturned
  <2>5. Early(q) /\ Addressed(q)
    BY <2>2 DEF Early, Addressed, Using, Closing
  <2>6. Turned(q, req[r])
    BY <1>1, <1>2, <2>2, <2>5 DEF Turned, Using
  <2>7. Owned(q) = {}
    BY <2>2 DEF Owned
  <2>8. TurnOf(r, {}, LockedNames)
    BY <1>3, <2>3, <2>4, <2>6, <2>7, Unturned DEF TurnOf
  <2>9. MakesOf(r)
    BY <1>3, <2>3, Unturned DEF MakesOf
  <2>10. QueueOf(r, {})
    <3>1. /\ waitting' \in Seq(Requests) /\ DOMAIN waitting' = 1..(Len(waitting) + 1)
          /\ waitting'[Len(waitting) + 1] = r /\ DOMAIN waitting = 1..Len(waitting)
          /\ \A i \in DOMAIN waitting :
               waitting'[i] = waitting[i] /\ waitting[i] # r /\ Len(waitting) \in Nat
      BY <1>1, <2>3, Unturned
    <3>2. \A i \in DOMAIN waitting' : i \in DOMAIN waitting \/ i = Len(waitting) + 1
      BY <3>1, Unturned
    <3>3. \A i, j \in DOMAIN waitting' : i # j => waitting'[i] # waitting'[j]
      BY <3>1, <3>2, Unturned
    <3> QED
      BY <1>1, <1>3, <2>2, <2>4, <3>1, <3>2, <3>3, Unturned DEF QueueOf
  <2> QED
    BY <1>3, <2>3, <2>8, <2>9, <2>10, Unturned, TurnKeeps
<1> QED
  BY <1>4, <1>5

(* What becomes of a call that is no lock *)
LEMMA EndsTurn ==
  ASSUME LayerInv, MaxMakes = 1, NEW r \in Requests,
         inbox # <<>>, Head(inbox) = r, inbox' = Tail(inbox), UNCHANGED <<spawned, copy>>,
         NEW ph \in {"spawning", "done", "failed"}, req[r].phase = "called",
         ph = "spawning" => req[r].call = "newstate",
         req' = [req EXCEPT ![r].phase = ph], locked' = locked, waitting' = waitting,
         state' \in [Names -> Cells \cup {Nil}],
         \A n \in Names : state'[n] \in {Nil, state[n]},
         cell' \in [Cells -> [t : State, patches : Seq(Patches),
                              status : {"none", "up", "leaving", "gone"}]],
         \A c \in Cells : cell'[c].t = cell[c].t /\ cell'[c].patches = cell[c].patches
  PROVE  LayerInv' /\ Steady
<1> DEFINE q == [req[r] EXCEPT !.phase = ph]
<1>1. req[r] \in Request /\ Early(req[r]) /\ Addressed(req[r])
  BY DEF LayerInv, TypeOK, RequestsOK
<1>2. req[r].addrs = <<>> /\ req[r].todo = {} /\ req[r].old = <<>>
      /\ req[r].call # "unlock"
  BY <1>1 DEF Early
<1>3. /\ q \in Request /\ Kept(q, req[r]) /\ q.todo = {} /\ q.addrs = <<>>
      /\ q.phase = ph /\ q.old = <<>>
  BY <1>1, <1>2 DEF Kept, Request, Phase
<1>4. /\ req' \in [Requests -> Request] /\ req'[r] = q
      /\ \A s \in Requests : s # r => req'[s] = req[s]
  BY <1>3, Unturned
<1> HIDE DEF q
<1>5. Early(q)
  BY <1>1, <1>2, <1>3 DEF Early, Using, Kept
<1>6. Addressed(q)
  BY <1>3 DEF Addressed, Using, Closing
<1>7. Turned(q, req[r])
  BY <1>2, <1>3, <1>5, <1>6 DEF Turned, Using
<1>8. Owned(q) = {}
  BY <1>3 DEF Owned
<1>9. \A n \in Names : /\ state'[n] \in {Nil, <<n, 1>>}
                       /\ state'[n] # Nil => spawned[n] = 1
  BY Unturned
<1>10. TurnOf(r, {}, LockedNames)
  BY <1>4, <1>7, <1>8, <1>9, Unturned DEF TurnOf
<1>11. MakesOf(r)
  BY <1>9 DEF MakesOf
<1>12. QueueOf(r, {})
  BY Unturned DEF QueueOf
<1> QED
  BY <1>10, <1>11, <1>12, Unturned, TurnKeeps

LEMMA HandleNewKeeps ==
  ASSUME LayerInv, NEW r \in Requests, HandleNew(r), MaxMakes = 1
  PROVE  LayerInv' /\ Steady
<1>1. /\ inbox # <<>> /\ Head(inbox) = r /\ req[r].call = "newstate"
      /\ req[r].phase = "called"
  BY AtHead DEF HandleNew
<1>2. PICK ph \in {"spawning", "failed"} : req' = [req EXCEPT ![r].phase = ph]
  BY DEF HandleNew
<1>3. /\ inbox' = Tail(inbox)
      /\ UNCHANGED <<state, locked, waitting, spawned, cell, copy>>
  BY DEF HandleNew, EndTurn
<1> QED
  BY <1>1, <1>2, <1>3, EndsTurn, Unturned

LEMMA HandleReleaseKeeps ==
  ASSUME LayerInv, NEW r \in Requests, HandleRelease(r), MaxMakes = 1
  PROVE  LayerInv' /\ Steady
<1> DEFINE n == req[r].names[1]
<1>1. /\ inbox # <<>> /\ Head(inbox) = r /\ req[r].call = "releasestate"
      /\ req[r].phase = "called" /\ Early(req[r])
  BY AtHead DEF HandleRelease
<1>2. n \in Names
  BY <1>1 DEF Early
<1>3. /\ inbox' = Tail(inbox) /\ req' = [req EXCEPT ![r].phase = "done"]
      /\ UNCHANGED <<locked, waitting, spawned, copy>>
      /\ state' = [state EXCEPT ![n] = Nil]
      /\ cell' = IF state[n] = Nil THEN cell
                 ELSE [cell EXCEPT ![state[n]].status = "leaving"]
  BY DEF HandleRelease, EndTurn
<1> HIDE DEF n
<1>4. /\ state' \in [Names -> Cells \cup {Nil}]
      /\ \A m \in Names : state'[m] \in {Nil, state[m]}
  BY <1>2, <1>3, Unturned
<1>5. /\ cell' \in [Cells -> [t : State, patches : Seq(Patches),
                              status : {"none", "up", "leaving", "gone"}]]
      /\ \A c \in Cells : cell'[c].t = cell[c].t /\ cell'[c].patches = cell[c].patches
  <2>1. state[n] # Nil => state[n] \in Cells
    BY <1>2, Unturned
  <2> QED
    BY <1>3, <2>1, Unturned, ZenonT(40)
<1> QED
  BY <1>1, <1>3, <1>4, <1>5, EndsTurn, Unturned

(* A turn that ends with try_wakup *)
LEMMA WakesKeep ==
  ASSUME LayerInv, MaxMakes = 1, NEW r \in Requests, req[r].phase # "waitting",
         NEW st \in [Names -> Cells \cup {Nil}], NEW L \in [Names -> BOOLEAN],
         NEW rq \in [Requests -> Request], \A s \in Requests : s # r => rq[s] = req[s],
         TryWakup([state |-> st, locked |-> L, waitting |-> waitting, req |-> rq]),
         Turned(rq[r], req[r]), copy' = copy,
         \A s \in Requests : \A n \in Owned(rq[s]) : L[n],
         \A n \in Names : st[n] \in {Nil, <<n, 1>>} /\ (st[n] # Nil => spawned'[n] = 1),
         \/ spawned' = spawned
         \/ \E n \in Names : /\ r \in Asked(n) /\ rq[r].phase \notin {"called", "spawning"}
                             /\ spawned' = [spawned EXCEPT ![n] = 1],
         \/ inbox # <<>> /\ Head(inbox) = r /\ inbox' = Tail(inbox)
         \/ inbox' = inbox /\ req[r].phase \in {"spawning", "patched"},
         cell' \in [Cells -> [t : State, patches : Seq(Patches),
                              status : {"none", "up", "leaving", "gone"}]],
         \A c \in Cells : cell'[c].t = cell[c].t /\ cell'[c].patches = cell[c].patches
  PROVE  LayerInv' /\ Steady
<1> DEFINE K == {n \in Names : L[n]}
<1>1. /\ state' = st /\ locked' \in [Names -> BOOLEAN]
      /\ req' \in [Requests -> Request] /\ waitting' \in Seq(Requests)
      /\ \A i, j \in DOMAIN waitting' : i # j => waitting'[i] # waitting'[j]
      /\ \E G \in SUBSET Requests : WokenTo(r, L, rq, G)
  BY Woken, Zenon
<1>A. PICK G \in SUBSET Requests : WokenTo(r, L, rq, G)
  BY <1>1
<1>2. /\ \A s \in G : /\ s # r /\ req[s].phase = "waitting"
                      /\ Given(req'[s], req[s])
                      /\ \A n \in NamesOf(req[s].names) : ~L[n]
      /\ \A s \in Requests \ G : req'[s] = rq[s]
      /\ \A s, t \in G :
           s # t => NamesOf(req[s].names) \cap NamesOf(req[t].names) = {}
      /\ \A n \in Names :
           locked'[n] <=> L[n] \/ \E s \in G : n \in NamesOf(req[s].names)
      /\ \A i \in DOMAIN waitting' :
           /\ waitting'[i] \notin G /\ waitting'[i] # r
           /\ req[waitting'[i]].phase = "waitting"
  BY <1>A DEF WokenTo
<1>3. r \notin G /\ req'[r] = rq[r]
  BY <1>2
<1>4. \A s \in G : NamesOf(req[s].names) \cap K = {}
  BY <1>2
<1>5. \A n \in Names : n \in K <=> L[n]
  OBVIOUS
<1>6. \A s \in Requests \ G : Owned(req'[s]) \subseteq K
  <2>1. \A q : Owned(q) \subseteq Names
    BY DEF Owned
  <2> QED
    BY <1>2, <1>5, <2>1
<1> HIDE DEF K
<1>7. TurnOf(r, G, K)
  <2>1. \A s \in Requests \ G :
          req'[s] = req[s] \/ (s = r /\ Turned(req'[s], req[s]))
    BY <1>2, <1>3
  <2>2. \A n \in Names :
          locked'[n] <=> n \in K \/ \E s \in G : n \in NamesOf(req[s].names)
    BY <1>2, <1>5
  <2> QED
    BY <1>1, <1>2, <1>4, <1>6, <2>1, <2>2 DEF TurnOf
<1>8. MakesOf(r)
  BY <1>1, <1>3 DEF MakesOf
<1>9. QueueOf(r, G)
  BY <1>1, <1>2 DEF QueueOf
<1>10. state' \in [Names -> Cells \cup {Nil}]
  BY <1>1
<1> QED
  BY <1>1, <1>7, <1>8, <1>9, <1>10, TurnKeeps

(* A cell is started or told to exit. *)
LEMMA CellStatus ==
  ASSUME LayerInv, MaxMakes = 1, NEW c \in Cells,
         NEW up \in {"none", "up", "leaving", "gone"},
         cell' = [cell EXCEPT ![c].status = up]
  PROVE  /\ cell' \in [Cells -> [t : State, patches : Seq(Patches),
                                 status : {"none", "up", "leaving", "gone"}]]
         /\ \A d \in Cells : cell'[d].t = cell[d].t /\ cell'[d].patches = cell[d].patches
<1>1. cell \in [Cells -> [t : State, patches : Seq(Patches),
                          status : {"none", "up", "leaving", "gone"}]]
  BY DEF LayerInv, TypeOK
<1> QED
  BY <1>1

(* What the manager begins with when a cell was made *)
LEMMA SpawnTurn ==
  ASSUME NEW n, NEW c, NEW r
  PROVE  [Manager EXCEPT !.state[n] = c, !.locked[n] = FALSE, !.req[r].phase = "done"]
           = [state |-> [state EXCEPT ![n] = c], locked |-> [locked EXCEPT ![n] = FALSE],
              waitting |-> waitting, req |-> [req EXCEPT ![r].phase = "done"]]
<1> PICK M : M = Manager
  OBVIOUS
<1> DEFINE X == [M EXCEPT !.state[n] = c, !.locked[n] = FALSE, !.req[r].phase = "done"]
           a == [state EXCEPT ![n] = c]
           b == [locked EXCEPT ![n] = FALSE]
           d == [req EXCEPT ![r].phase = "done"]
<1>1. M = [state |-> state, locked |-> locked, waitting |-> waitting, req |-> req]
  BY DEF Manager
<1>2. X.state = a
  BY <1>1
<1>3. X.locked = b
  BY <1>1
<1>4. X.req = d
  BY <1>1
<1>5. X = [M EXCEPT !.state = [M.state EXCEPT ![n] = c],
                    !.locked = [M.locked EXCEPT ![n] = FALSE],
                    !.req = [M.req EXCEPT ![r].phase = "done"]]
  BY Zenon
<1>6. PICK x, y, z : X = [M EXCEPT !.state = x, !.locked = y, !.req = z]
  BY <1>5
<1> HIDE DEF X, a, b, d
<1>7. X = [state |-> X.state, locked |-> X.locked, waitting |-> X.waitting, req |-> X.req]
  BY <1>1, <1>6
<1>8. X.waitting = waitting
  BY <1>1, <1>6
<1>9. X = [state |-> a, locked |-> b, waitting |-> waitting, req |-> d]
  BY <1>2, <1>3, <1>4, <1>7, <1>8
<1> QED
  BY <1>9 DEF X, a, b, d

LEMMA SpawnedKeeps ==
  ASSUME LayerInv, NEW r \in Requests, Spawned(r), MaxMakes = 1
  PROVE  LayerInv' /\ Steady
<1> DEFINE n == req[r].names[1]
           c == <<n, spawned[n] + 1>>
           st == [state EXCEPT ![n] = c]
           L == [locked EXCEPT ![n] = FALSE]
           rq == [req EXCEPT ![r].phase = "done"]
<1>1. /\ req[r].phase = "spawning" /\ req[r] \in Request /\ Early(req[r])
      /\ req \in [Requests -> Request] /\ spawned \in [Names -> 0..1]
  BY DEF Spawned, LayerInv, TypeOK, RequestsOK
<1>2. /\ req[r].call = "newstate" /\ req[r].addrs = <<>> /\ req[r].todo = {}
      /\ req[r].old = <<>> /\ n \in Names /\ req[r].names = <<n>>
  BY <1>1 DEF Early
<1>3. r \in Asked(n) /\ spawned[n] = 0
  <2>1. r \in Asked(n)
    BY <1>2 DEF Asked
  <2> QED
    BY <1>1, <1>2, <2>1 DEF LayerInv, Made
<1>4. /\ TryWakup([Manager EXCEPT !.state[n] = c, !.locked[n] = FALSE,
                                  !.req[r].phase = "done"])
      /\ spawned' = [spawned EXCEPT ![n] = @ + 1]
      /\ cell' = [cell EXCEPT ![c].status = "up"] /\ inbox' = inbox /\ copy' = copy
  BY DEF Spawned
<1>5. c = <<n, 1>> /\ c \in Cells
  BY <1>2, <1>3, OneCell
<1>6. spawned' = [spawned EXCEPT ![n] = 1]
  BY <1>3, <1>4
<1>7. /\ st \in [Names -> Cells \cup {Nil}] /\ L \in [Names -> BOOLEAN]
      /\ st[n] = <<n, 1>> /\ \A m \in Names : m # n => st[m] = state[m]
      /\ L[n] = FALSE /\ \A m \in Names : m # n => L[m] = locked[m]
  BY <1>2, <1>5, Unturned
<1>8. /\ rq \in [Requests -> Request] /\ \A s \in Requests : s # r => rq[s] = req[s]
      /\ rq[r] = [req[r] EXCEPT !.phase = "done"]
  BY <1>1 DEF Request, Phase
<1>9. [Manager EXCEPT !.state[n] = c, !.locked[n] = FALSE, !.req[r].phase = "done"]
        = [state |-> st, locked |-> L, waitting |-> waitting, req |-> rq]
  BY SpawnTurn
<1>10. /\ cell' \in [Cells -> [t : State, patches : Seq(Patches),
                               status : {"none", "up", "leaving", "gone"}]]
       /\ \A d \in Cells : cell'[d].t = cell[d].t /\ cell'[d].patches = cell[d].patches
  BY <1>4, <1>5, CellStatus
<1> HIDE DEF n, c, st, L, rq
<1>11. /\ Kept(rq[r], req[r]) /\ rq[r].phase = "done" /\ rq[r].addrs = <<>>
       /\ rq[r].todo = {} /\ rq[r].call = "newstate" /\ rq[r].names = <<n>>
  BY <1>1, <1>2, <1>8 DEF Kept, Request
<1>12. Turned(rq[r], req[r])
  <2>1. Early(rq[r])
    BY <1>2, <1>11 DEF Early, Using
  <2>2. Addressed(rq[r])
    BY <1>11 DEF Addressed, Using, Closing
  <2> QED
    BY <1>2, <1>11, <2>1, <2>2 DEF Turned, Using
<1>13. ASSUME NEW s \in Requests, NEW m \in Owned(rq[s]) PROVE L[m]
  <2>1. Owned(rq[r]) = {}
    BY <1>11 DEF Owned
  <2>2. s # r /\ m \in Owned(req[s])
    BY <1>8, <2>1
  <2>3. m \in Names /\ spawned[m] = 1 /\ locked[m]
    BY <2>2 DEF LayerInv, Made, Locks, Owned
  <2> QED
    BY <1>3, <1>7, <2>3
<1>14. \A m \in Names : st[m] \in {Nil, <<m, 1>>} /\ (st[m] # Nil => spawned'[m] = 1)
  BY <1>1, <1>2, <1>6, <1>7, Unturned
<1>15. TryWakup([state |-> st, locked |-> L, waitting |-> waitting, req |-> rq])
  BY <1>4, <1>9
<1>16. /\ req[r].phase # "waitting" /\ req[r].phase \in {"spawning", "patched"}
       /\ rq[r].phase \notin {"called", "spawning"}
  BY <1>1, <1>11
<1>17. \E m \in Names : /\ r \in Asked(m) /\ rq[r].phase \notin {"called", "spawning"}
                         /\ spawned' = [spawned EXCEPT ![m] = 1]
  BY <1>2, <1>3, <1>6, <1>16
<1>18. inbox' = inbox /\ req[r].phase \in {"spawning", "patched"} /\ copy' = copy
  BY <1>4, <1>16
<1> QED
  BY <1>7, <1>8, <1>10, <1>12, <1>13, <1>14, <1>15, <1>16, <1>17, <1>18, WakesKeep, Zenon

(* What unlock does to locks and requests when all patches are made, *)
EndOf(L, rq, r, F) ==
  [Free([state |-> state, locked |-> L, waitting |-> waitting, req |-> rq], F)
     EXCEPT !.req[r].todo = {}, !.req[r].phase = "done"]
EndIs(L, rq, r, F) ==
  [state |-> state, locked |-> [n \in Names |-> L[n] /\ n \notin F],
   waitting |-> waitting, req |-> [rq EXCEPT ![r].todo = {}, ![r].phase = "done"]]

LEMMA UnlockEnd ==
  ASSUME NEW L, NEW rq, NEW r, NEW F
  PROVE  EndOf(L, rq, r, F) = EndIs(L, rq, r, F)
<1> DEFINE M == [state |-> state, locked |-> L, waitting |-> waitting, req |-> rq]
           b == [n \in Names |-> L[n] /\ n \notin F]
           d == [rq EXCEPT ![r].todo = {}, ![r].phase = "done"]
<1>1. Free(M, F) = [M EXCEPT !.locked = b]
  BY DEF Free
<1> HIDE DEF b
<1>2. PICK N : N = Free(M, F)
  OBVIOUS
<1>3. N = [state |-> state, locked |-> b, waitting |-> waitting, req |-> rq]
  BY <1>1, <1>2
<1> DEFINE X == [N EXCEPT !.req[r].todo = {}, !.req[r].phase = "done"]
<1>4. X.req = d
  BY <1>3
<1> HIDE DEF d
<1>5. PICK x, y : X = [[N EXCEPT !.req = x] EXCEPT !.req = y]
  <2>1. X = [[N EXCEPT !.req = [N.req EXCEPT ![r].todo = {}]]
               EXCEPT !.req[r].phase = "done"]
    BY <1>3
  <2> QED
    BY <2>1
<1> HIDE DEF X
<1>6. X = [state |-> state, locked |-> b, waitting |-> waitting, req |-> X.req]
  BY <1>3, <1>5
<1>7. X = [state |-> state, locked |-> b, waitting |-> waitting, req |-> d]
  BY <1>4, <1>6
<1> QED
  BY <1>2, <1>7 DEF X, b, d, EndOf, EndIs

(* and when the next one is to be made. *)
OnTo(L, rq, r, F, n) ==
  SetManager([Free([state |-> state, locked |-> L, waitting |-> waitting,
                    req |-> rq], F) EXCEPT
                !.req[r].todo = @ \ F, !.req[r].at = state[n],
                !.req[r].phase = IF state[n] = Nil THEN "failed" ELSE "patch"])

LEMMA UnlockOn ==
  ASSUME NEW L, NEW rq, NEW r, NEW F, NEW n, OnTo(L, rq, r, F, n)
  PROVE  /\ state' = state /\ waitting' = waitting
         /\ locked' = [m \in Names |-> L[m] /\ m \notin F]
         /\ req' = [rq EXCEPT ![r].todo = @ \ F, ![r].at = state[n],
                      ![r].phase = IF state[n] = Nil THEN "failed" ELSE "patch"]
<1> DEFINE M == [state |-> state, locked |-> L, waitting |-> waitting, req |-> rq]
           b == [m \in Names |-> L[m] /\ m \notin F]
<1>1. PICK a, ph : a = state[n] /\ ph = IF state[n] = Nil THEN "failed" ELSE "patch"
  OBVIOUS
<1>2. Free(M, F) = [M EXCEPT !.locked = b]
  BY DEF Free
<1> HIDE DEF b
<1>3. PICK N : N = Free(M, F)
  OBVIOUS
<1>4. N = [state |-> state, locked |-> b, waitting |-> waitting, req |-> rq]
  BY <1>2, <1>3
<1> DEFINE X == [N EXCEPT !.req[r].todo = @ \ F, !.req[r].at = a, !.req[r].phase = ph]
<1>5. SetManager(X)
  BY <1>1, <1>3 DEF OnTo
<1>6. X.req = [rq EXCEPT ![r].todo = @ \ F, ![r].at = a, ![r].phase = ph]
  BY <1>4
<1>7. X.state = state /\ X.locked = b /\ X.waitting = waitting
  BY <1>4
<1> HIDE DEF X
<1> QED
  BY <1>1, <1>5, <1>6, <1>7 DEF SetManager, b
(* The names a request has still to unlock are those of states it has. *)
LEMMA ClosingOwns ==
  ASSUME LayerInv, MaxMakes = 1, NEW r \in Requests, req[r].phase \in Closing
  PROVE  req[r].todo \subseteq Owned(req[r])
<1> PICK p : p = req[r]
  OBVIOUS
<1>1. p \in Request /\ Addressed(p) /\ p.phase \in Closing
  BY DEF LayerInv, TypeOK, RequestsOK
<1>2. /\ Len(p.addrs) = Len(p.names) /\ p.todo \subseteq NamesOf(p.names)
      /\ \A i \in DOMAIN p.addrs : p.addrs[i] \in {Nil, <<p.names[i], 1>>} /\ p.addrs[i] # Nil
      /\ p.names \in Seq(Names) /\ p.addrs \in Seq(Cells \cup {Nil})
  BY <1>1 DEF Addressed, Request
<1>3. \A i \in DOMAIN p.names : p.names[i] \in Names /\ i \in DOMAIN p.addrs
                                 /\ p.addrs[i] = <<p.names[i], 1>>
  BY <1>2
<1>4. \A n \in p.todo : \E i \in DOMAIN p.names : n = p.names[i]
  BY <1>2 DEF NamesOf
<1>5. p.todo \subseteq Owned(p)
  BY <1>3, <1>4 DEF Owned
<1> QED
  BY <1>5

(* A turn that goes on with unlock: a name that is no longer to unlock is
   free. *)
LEMMA UnlockKeeps ==
  ASSUME LayerInv, MaxMakes = 1, NEW r \in Requests,
         req[r].phase \in {"unlock", "patched"},
         NEW L \in [Names -> BOOLEAN], NEW rq \in [Requests -> Request],
         \A s \in Requests : s # r => rq[s] = req[s],
         Kept(rq[r], req[r]), rq[r].addrs = req[r].addrs, rq[r].todo \subseteq req[r].todo,
         \A n \in req[r].todo \cap DOMAIN req[r].patch :
           n \in rq[r].todo <=> ~(req[r].phase = "patched" /\ req[r].at = <<n, 1>>),
         \A n \in Names : L[n] <=> locked[n] /\ n \notin req[r].todo \ rq[r].todo,
         UnlockNames([state |-> state, locked |-> L, waitting |-> waitting, req |-> rq], r),
         UNCHANGED <<spawned, cell, copy>>,
         \/ inbox # <<>> /\ Head(inbox) = r /\ inbox' = Tail(inbox)
         \/ inbox' = inbox /\ req[r].phase \in {"spawning", "patched"}
  PROVE  LayerInv' /\ Steady
<1> PICK p : p = rq[r]
  OBVIOUS
<1> DEFINE M == [state |-> state, locked |-> L, waitting |-> waitting, req |-> rq]
           patched == p.todo \cap DOMAIN p.patch
           others == p.todo \ patched
<1>1. /\ req[r] \in Request /\ Early(req[r]) /\ Addressed(req[r])
      /\ req[r].call # "newstate" /\ p \in Request
      /\ Kept(p, req[r]) /\ p.addrs = req[r].addrs /\ p.todo \subseteq req[r].todo
  BY DEF LayerInv, TypeOK, RequestsOK, Early
<1>2. req[r].todo \subseteq Owned(req[r])
  BY ClosingOwns DEF Closing
<1>3. /\ \A s \in Requests : s # r => Owned(req[s]) \cap Owned(req[r]) = {}
      /\ \A s \in Requests : \A n \in Owned(req[s]) : n \in Names /\ locked[n]
  BY DEF LayerInv, Locks, Owned
<1>4. /\ p.patch = req[r].patch
      /\ \A n \in req[r].todo \cap DOMAIN req[r].patch :
           n \in patched <=> ~(req[r].phase = "patched" /\ req[r].at = <<n, 1>>)
  BY <1>1 DEF Kept
<1>5. M.req[r] = p
  OBVIOUS
<1> HIDE DEF M
<1>6. \/ /\ patched = {}
         /\ TryWakup([Free(M, others) EXCEPT !.req[r].todo = {}, !.req[r].phase = "done"])
      \/ \E n \in patched, F \in SUBSET others :
           SetManager([Free(M, F) EXCEPT
                         !.req[r].todo = @ \ F, !.req[r].at = M.state[n],
                         !.req[r].phase = IF M.state[n] = Nil THEN "failed"
                                          ELSE "patch"])
  BY <1>5 DEF UnlockNames, M
<1>7. CASE /\ patched = {}
           /\ TryWakup([Free(M, others) EXCEPT !.req[r].todo = {}, !.req[r].phase = "done"])
  <2> DEFINE K == [n \in Names |-> L[n] /\ n \notin others]
             rn == [rq EXCEPT ![r].todo = {}, ![r].phase = "done"]
  <2>1. TryWakup([state |-> state, locked |-> K, waitting |-> waitting, req |-> rn])
    <3> PICK F : F = others
      OBVIOUS
    <3>1. EndOf(L, rq, r, F) = EndIs(L, rq, r, F)
      BY UnlockEnd
    <3>2. EndIs(L, rq, r, F) = [state |-> state, locked |-> K, waitting |-> waitting,
                                req |-> rn]
      BY Zenon DEF EndIs
    <3>3. TryWakup(EndOf(L, rq, r, F))
      BY <1>7, Zenon DEF EndOf, M
    <3> HIDE DEF K, rn
    <3> QED
      BY <3>1, <3>2, <3>3
  <2>2. /\ K \in [Names -> BOOLEAN] /\ rn \in [Requests -> Request]
        /\ \A s \in Requests : s # r => rn[s] = req[s]
        /\ rn[r] = [p EXCEPT !.todo = {}, !.phase = "done"]
        /\ \A n \in Names : K[n] <=> L[n] /\ n \notin others
    BY <1>1 DEF Request, Phase
  <2> HIDE DEF K, rn
  <2>3. /\ Kept(rn[r], req[r]) /\ rn[r].addrs = req[r].addrs /\ rn[r].todo = {}
        /\ rn[r].phase = "done"
    BY <1>1, <2>2 DEF Kept, Request
  <2>4. Early(rn[r])
    BY <1>1, <2>3 DEF Early, Using, Kept
  <2>5. Addressed(rn[r])
    BY <2>3 DEF Addressed, Using, Closing
  <2>6. Turned(rn[r], req[r])
    BY <1>4, <1>7, <2>3, <2>4, <2>5 DEF Turned, Using
  <2>7. ASSUME NEW s \in Requests, NEW n \in Owned(rn[s]) PROVE K[n]
    <3>1. s # r
      BY <2>3 DEF Owned, Using
    <3>2. n \in Owned(req[s]) /\ n \in Names /\ locked[n] /\ n \notin req[r].todo
      BY <1>2, <1>3, <2>2, <2>7, <3>1
    <3> QED
      BY <1>1, <2>2, <3>2
  <2>8. \A n \in Names : state[n] \in {Nil, <<n, 1>>} /\ (state[n] # Nil => spawned'[n] = 1)
    BY Unturned
  <2>9. /\ state \in [Names -> Cells \cup {Nil}] /\ copy' = copy /\ spawned' = spawned
        /\ cell' \in [Cells -> [t : State, patches : Seq(Patches),
                                status : {"none", "up", "leaving", "gone"}]]
        /\ \A c \in Cells : cell'[c].t = cell[c].t /\ cell'[c].patches = cell[c].patches
    BY Unturned
  <2>10. req[r].phase # "waitting"
    OBVIOUS
  <2>11. \/ inbox # <<>> /\ Head(inbox) = r /\ inbox' = Tail(inbox)
         \/ inbox' = inbox /\ req[r].phase \in {"spawning", "patched"}
    OBVIOUS
  <2>12. \/ spawned' = spawned
         \/ \E n \in Names : /\ r \in Asked(n) /\ rn[r].phase \notin {"called", "spawning"}
                             /\ spawned' = [spawned EXCEPT ![n] = 1]
    BY <2>9
  <2>13. /\ K \in [Names -> BOOLEAN] /\ rn \in [Requests -> Request]
         /\ \A s \in Requests : s # r => rn[s] = req[s]
    BY <2>2
  <2> HIDE DEF M, patched, others
  <2> QED
    BY <2>1, <2>6, <2>7, <2>8, <2>9, <2>10, <2>11, <2>12, <2>13, WakesKeep, Zenon
<1>8. CASE \E n \in patched, F \in SUBSET others :
           SetManager([Free(M, F) EXCEPT
                         !.req[r].todo = @ \ F, !.req[r].at = M.state[n],
                         !.req[r].phase = IF M.state[n] = Nil THEN "failed"
                                          ELSE "patch"])
  <2>1. PICK n \in patched, F \in SUBSET others :
           SetManager([Free(M, F) EXCEPT
                         !.req[r].todo = @ \ F, !.req[r].at = state[n],
                         !.req[r].phase = IF state[n] = Nil THEN "failed"
                                          ELSE "patch"])
    <3>1. M.state = state
      BY DEF M
    <3> QED
      BY <1>8, <3>1
  <2>2. /\ state' = state /\ waitting' = waitting
        /\ locked' = [m \in Names |-> L[m] /\ m \notin F]
        /\ req' = [rq EXCEPT ![r].todo = @ \ F, ![r].at = state[n],
                     ![r].phase = IF state[n] = Nil THEN "failed" ELSE "patch"]
    <3>1. OnTo(L, rq, r, F, n)
      BY <2>1, Zenon DEF M, OnTo
    <3> HIDE DEF M, patched, others
    <3> QED
      BY <3>1, UnlockOn
  <2> DEFINE K == {m \in Names : L[m] /\ m \notin F}
             q == req'[r]
  <2>3. n \in Names /\ n \in p.todo /\ n \in DOMAIN p.patch /\ n \notin F
    BY <1>1 DEF Request
  <2>4. state[n] \in {Nil, <<n, 1>>} /\ state[n] \in Cells \cup {Nil}
    BY <2>3, Unturned
  <2>5. /\ q = [p EXCEPT !.todo = p.todo \ F, !.at = state[n],
                         !.phase = IF state[n] = Nil THEN "failed" ELSE "patch"]
        /\ \A s \in Requests : s # r => req'[s] = req[s]
    BY <2>2
  <2>6. q \in Request
    <3> PICK a, ph, td : a = state[n] /\ td = p.todo \ F
                         /\ ph = IF state[n] = Nil THEN "failed" ELSE "patch"
      OBVIOUS
    <3>1. /\ q = [p EXCEPT !.todo = td, !.at = a, !.phase = ph]
          /\ a \in Cells \cup {Nil} /\ td \in SUBSET Names /\ ph \in Phase
      BY <1>1, <2>4, <2>5 DEF Request, Phase
    <3> HIDE DEF q
    <3> QED
      BY <1>1, <3>1 DEF Request
  <2>7. req' \in [Requests -> Request]
    BY <2>2, <2>5, <2>6
  <2>8. /\ Kept(q, req[r]) /\ q.addrs = req[r].addrs /\ q.todo = p.todo \ F
        /\ q.phase \in {"failed", "patch"} /\ q.at = state[n]
        /\ q.phase = "patch" => q.at = <<n, 1>>
    BY <1>1, <2>4, <2>5 DEF Kept, Request
  <2> HIDE DEF q
  <2>9. Early(q)
    BY <1>1, <2>8 DEF Early, Using, Kept
  <2>10. Addressed(q)
    <3>1. req[r].phase \in Closing
      BY DEF Closing
    <3>2. /\ req[r].names \in Queries /\ Len(req[r].addrs) = Len(req[r].names)
          /\ \A i \in DOMAIN req[r].addrs :
               req[r].addrs[i] \in {Nil, <<req[r].names[i], 1>>}
          /\ \A i \in DOMAIN req[r].addrs : req[r].addrs[i] # Nil
          /\ req[r].todo \subseteq NamesOf(req[r].names)
          /\ DOMAIN req[r].patch \subseteq NamesOf(req[r].names)
      BY <1>1, <3>1 DEF Addressed
    <3>3. /\ q.names = req[r].names /\ q.patch = req[r].patch /\ p.patch = req[r].patch
          /\ q.todo \subseteq NamesOf(q.names)
      BY <1>1, <2>8, <3>2 DEF Kept
    <3>4. q.phase = "patch" => \E m \in q.todo \cap DOMAIN q.patch : q.at = <<m, 1>>
      BY <2>3, <2>8, <3>3
    <3> QED
      BY <2>8, <3>2, <3>3, <3>4 DEF Addressed, Using, Closing
  <2>11. Turned(q, req[r])
    <3>1. \A m \in req[r].todo \cap DOMAIN req[r].patch :
            m \in q.todo <=> ~(req[r].phase = "patched" /\ req[r].at = <<m, 1>>)
      BY <1>4, <2>8
    <3> QED
      BY <1>1, <2>8, <2>9, <2>10, <3>1 DEF Turned, Using
  <2>12. \A s \in Requests : Owned(req'[s]) \subseteq K
    <3>1. Owned(req'[r]) \subseteq K
      <4>1. Owned(req'[r]) \subseteq q.todo
        BY <2>8 DEF Owned, Using, q
      <4>2. \A m \in q.todo : m \in Names /\ L[m] /\ m \notin F
        BY <1>1, <1>2, <1>3, <2>8
      <4> QED
        BY <4>1, <4>2
    <3>2. ASSUME NEW s \in Requests, s # r PROVE Owned(req'[s]) \subseteq K
      <4>1. req'[s] = req[s]
        BY <2>5, <3>2
      <4>2. \A m \in Owned(req[s]) : m \in Names /\ locked[m] /\ m \notin req[r].todo
        BY <1>2, <1>3, <3>2
      <4>3. F \subseteq req[r].todo
        BY <1>1
      <4>4. \A m \in Owned(req[s]) : m \in Names /\ L[m] /\ m \notin F
        BY <4>2, <4>3
      <4> QED
        BY <4>1, <4>4
    <3> QED
      BY <3>1, <3>2
  <2>13. TurnOf(r, {}, K)
    <3>1. \A m \in Names : locked'[m] <=> m \in K
      BY <2>2
    <3> HIDE DEF K
    <3> QED
      BY <2>2, <2>5, <2>7, <2>11, <2>12, <3>1, Unturned DEF TurnOf, q
  <2>14. MakesOf(r)
    BY <2>2, Unturned DEF MakesOf
  <2>15. QueueOf(r, {})
    BY <2>2, Unturned DEF QueueOf
  <2>16. locked' \in [Names -> BOOLEAN] /\ state' \in [Names -> Cells \cup {Nil}]
         /\ cell' \in [Cells -> [t : State, patches : Seq(Patches),
                                 status : {"none", "up", "leaving", "gone"}]]
    BY <2>2, Unturned
  <2> HIDE DEF K
  <2> QED
    BY <2>13, <2>14, <2>15, <2>16, TurnKeeps
<1> QED
  BY <1>6, <1>7, <1>8
LEMMA HandleUnlockKeeps ==
  ASSUME LayerInv, NEW r \in Requests, HandleUnlock(r), MaxMakes = 1
  PROVE  LayerInv' /\ Steady
<1> PICK L, rq : L = locked /\ rq = req
  OBVIOUS
<1>1. /\ inbox # <<>> /\ Head(inbox) = r /\ req[r].phase = "unlock"
      /\ req[r] \in Request
  BY AtHead DEF HandleUnlock
<1>2. /\ UnlockNames(Manager, r) /\ inbox' = Tail(inbox)
      /\ UNCHANGED <<spawned, cell, copy>>
  BY DEF HandleUnlock, EndTurn
<1>3. Manager = [state |-> state, locked |-> L, waitting |-> waitting, req |-> rq]
  BY DEF Manager
<1>4. UnlockNames([state |-> state, locked |-> L, waitting |-> waitting, req |-> rq], r)
  BY <1>2, <1>3
<1>5. L \in [Names -> BOOLEAN] /\ rq \in [Requests -> Request]
  BY Unturned
<1>6. /\ \A s \in Requests : s # r => rq[s] = req[s]
      /\ Kept(rq[r], req[r]) /\ rq[r].addrs = req[r].addrs /\ rq[r].todo \subseteq req[r].todo
  BY DEF Kept
<1>7. \A n \in req[r].todo \cap DOMAIN req[r].patch :
        n \in rq[r].todo <=> ~(req[r].phase = "patched" /\ req[r].at = <<n, 1>>)
  BY <1>1
<1>8. \A n \in Names : L[n] <=> locked[n] /\ n \notin req[r].todo \ rq[r].todo
  BY <1>5
<1>9. req[r].phase \in {"unlock", "patched"}
  BY <1>1
<1>10. \/ inbox # <<>> /\ Head(inbox) = r /\ inbox' = Tail(inbox)
       \/ inbox' = inbox /\ req[r].phase \in {"spawning", "patched"}
  BY <1>1, <1>2
<1> QED
  BY <1>2, <1>4, <1>5, <1>6, <1>7, <1>8, <1>9, <1>10, UnlockKeeps, Zenon

(* unlock goes on: one more name is free. *)
ResumeOf(L, rq, r, n) ==
  [Free([state |-> state, locked |-> L, waitting |-> waitting, req |-> rq], {n})
     EXCEPT !.req[r].todo = @ \ {n}, !.req[r].at = Nil]
ResumeIs(L, rq, r, n) ==
  [state |-> state, locked |-> [m \in Names |-> L[m] /\ m \notin {n}],
   waitting |-> waitting, req |-> [rq EXCEPT ![r].todo = @ \ {n}, ![r].at = Nil]]

LEMMA ResumeFrom ==
  ASSUME NEW L, NEW rq, NEW r, NEW n
  PROVE  ResumeOf(L, rq, r, n) = ResumeIs(L, rq, r, n)
<1> DEFINE M == [state |-> state, locked |-> L, waitting |-> waitting, req |-> rq]
           b == [m \in Names |-> L[m] /\ m \notin {n}]
           d == [rq EXCEPT ![r].todo = @ \ {n}, ![r].at = Nil]
<1>1. Free(M, {n}) = [M EXCEPT !.locked = b]
  BY DEF Free
<1> HIDE DEF b
<1>2. PICK N : N = Free(M, {n})
  OBVIOUS
<1>3. N = [state |-> state, locked |-> b, waitting |-> waitting, req |-> rq]
  BY <1>1, <1>2
<1> DEFINE X == [N EXCEPT !.req[r].todo = @ \ {n}, !.req[r].at = Nil]
<1>4. X.req = d
  BY <1>3
<1> HIDE DEF d
<1>5. PICK x, y : X = [[N EXCEPT !.req = x] EXCEPT !.req = y]
  <2>1. X = [[N EXCEPT !.req = [N.req EXCEPT ![r].todo = @ \ {n}]]
               EXCEPT !.req[r].at = Nil]
    BY <1>3
  <2> QED
    BY <2>1
<1> HIDE DEF X
<1>6. X = [state |-> state, locked |-> b, waitting |-> waitting, req |-> X.req]
  BY <1>3, <1>5
<1>7. X = [state |-> state, locked |-> b, waitting |-> waitting, req |-> d]
  BY <1>4, <1>6
<1> QED
  BY <1>2, <1>7 DEF X, b, d, ResumeOf, ResumeIs

LEMMA ResumeUnlockKeeps ==
  ASSUME LayerInv, NEW r \in Requests, ResumeUnlock(r), MaxMakes = 1
  PROVE  LayerInv' /\ Steady
<1>1. /\ req[r].phase = "patched" /\ req[r] \in Request /\ Addressed(req[r])
      /\ req \in [Requests -> Request]
  BY DEF ResumeUnlock, PatchDone, LayerInv, TypeOK, RequestsOK
<1>2. PICK n \in req[r].todo \cap DOMAIN req[r].patch : req[r].at = <<n, 1>>
  BY <1>1 DEF Addressed
<1>3. n \in Names /\ req[r].at[1] = n
  BY <1>1, <1>2 DEF Request
<1> PICK K, ro : K = locked /\ ro = req
  OBVIOUS
<1>4. /\ UnlockNames(ResumeOf(K, ro, r, n), r)
      /\ UNCHANGED <<spawned, inbox, cell, copy>>
  <2>1. /\ UnlockNames([Free(Manager, {req[r].at[1]}) EXCEPT
                          !.req[r].todo = @ \ {req[r].at[1]}, !.req[r].at = Nil], r)
        /\ UNCHANGED <<spawned, inbox, cell, copy>>
    BY DEF ResumeUnlock
  <2>2. [Free(Manager, {req[r].at[1]}) EXCEPT
           !.req[r].todo = @ \ {req[r].at[1]}, !.req[r].at = Nil] = ResumeOf(K, ro, r, n)
    BY <1>3, Zenon DEF Manager, ResumeOf
  <2> QED
    BY <2>1, <2>2
<1>A. PICK L, rq :
                 /\ L = [m \in Names |-> K[m] /\ m \notin {n}]
                 /\ rq = [ro EXCEPT ![r].todo = @ \ {n}, ![r].at = Nil]
  OBVIOUS
<1>5. ResumeOf(K, ro, r, n)
        = [state |-> state, locked |-> L, waitting |-> waitting, req |-> rq]
  <2>1. ResumeOf(K, ro, r, n) = ResumeIs(K, ro, r, n)
    BY ResumeFrom
  <2> QED
    BY <1>A, <2>1 DEF ResumeIs
<1>6. UnlockNames([state |-> state, locked |-> L, waitting |-> waitting, req |-> rq], r)
  BY <1>4, <1>5
<1>7. /\ L \in [Names -> BOOLEAN] /\ \A m \in Names : L[m] <=> locked[m] /\ m # n
      /\ \A s \in Requests : s # r => rq[s] = req[s]
      /\ rq[r] = [req[r] EXCEPT !.todo = req[r].todo \ {n}, !.at = Nil]
      /\ rq \in [Requests -> {rq[s] : s \in Requests}]
  <2>1. L \in [Names -> BOOLEAN] /\ \A m \in Names : L[m] <=> locked[m] /\ m # n
    BY <1>A, Unturned
  <2>2. \A s \in Requests : s # r => rq[s] = req[s]
    BY <1>1, <1>A
  <2>3. rq[r] = [req[r] EXCEPT !.todo = req[r].todo \ {n}, !.at = Nil]
    BY <1>1, <1>A
  <2>4. rq = [s \in Requests |-> rq[s]]
    BY <1>1, <1>A
  <2> QED
    BY <2>1, <2>2, <2>3, <2>4
<1>8. rq[r] \in Request
  <2> PICK q, p, td : q = rq[r] /\ p = req[r] /\ td = req[r].todo \ {n}
    OBVIOUS
  <2>1. q = [p EXCEPT !.todo = td, !.at = Nil] /\ p \in Request
    BY <1>1, <1>7
  <2>2. td \in SUBSET Names
    BY <1>1 DEF Request
  <2>3. q \in Request
    BY <2>1, <2>2 DEF Request
  <2> QED
    BY <2>3
<1>9. rq \in [Requests -> Request]
  BY <1>1, <1>7, <1>8
<1>10. /\ Kept(rq[r], req[r]) /\ rq[r].addrs = req[r].addrs
       /\ rq[r].todo = req[r].todo \ {n}
  BY <1>1, <1>7 DEF Kept, Request
<1>11. rq[r].todo \subseteq req[r].todo
  BY <1>10
<1>12. \A m \in req[r].todo \cap DOMAIN req[r].patch :
         m \in rq[r].todo <=> ~(req[r].phase = "patched" /\ req[r].at = <<m, 1>>)
  BY <1>1, <1>2, <1>10
<1>13. \A m \in Names : L[m] <=> locked[m] /\ m \notin req[r].todo \ rq[r].todo
  BY <1>2, <1>7, <1>10
<1>14. \A s \in Requests : s # r => rq[s] = req[s]
  BY <1>7
<1>15. req[r].phase \in {"unlock", "patched"}
  BY <1>1
<1>16. L \in [Names -> BOOLEAN]
  BY <1>7
<1>17. \/ inbox # <<>> /\ Head(inbox) = r /\ inbox' = Tail(inbox)
       \/ inbox' = inbox /\ req[r].phase \in {"spawning", "patched"}
  BY <1>1, <1>4
<1>18. UNCHANGED <<spawned, cell, copy>>
  BY <1>4
<1>19. Kept(rq[r], req[r]) /\ rq[r].addrs = req[r].addrs
  BY <1>10
<1> QED
  BY <1>6, <1>9, <1>11, <1>12, <1>13, <1>14, <1>15, <1>16, <1>17, <1>18, <1>19,
     UnlockKeeps, Zenon
-----------------------------------------------------------------------------
(***************************************************************************)
(* Cells and workers: a step of one request.                               *)
(***************************************************************************)

LEMMA StepRequests ==
  ASSUME LayerInv, NEW r \in Requests, NEW q \in Request,
         req' = [req EXCEPT ![r] = q], Early(q), Addressed(q),
         Owned(q) \subseteq Owned(req[r]), UNCHANGED <<locked, waitting>>,
         req[r].phase \notin {"called", "waitting", "unlock"},
         inbox' = inbox \/ (inbox' = Append(inbox, r) /\ q.phase \in {"called", "unlock"})
  PROVE  /\ req' \in [Requests -> Request] /\ req'[r] = q
         /\ \A s \in Requests : s # r => req'[s] = req[s]
         /\ RequestsOK' /\ Queued' /\ Locks'
         /\ inbox' \in Seq(Requests)
<1>1. /\ req' \in [Requests -> Request] /\ req'[r] = q
      /\ \A s \in Requests : s # r => req'[s] = req[s]
  BY DEF LayerInv, TypeOK
<1>2. RequestsOK'
  BY <1>1 DEF LayerInv, RequestsOK
<1>3. /\ inbox \in Seq(Requests) /\ waitting \in Seq(Requests)
      /\ \A i \in DOMAIN inbox : inbox[i] \in Requests /\ inbox[i] # r
      /\ \A i \in DOMAIN waitting : waitting[i] \in Requests /\ waitting[i] # r
  BY DEF LayerInv, TypeOK, Queued
<1>4. /\ inbox' \in Seq(Requests)
      /\ \A i, j \in DOMAIN inbox' : i # j => inbox'[i] # inbox'[j]
      /\ \A i \in DOMAIN inbox' : req'[inbox'[i]].phase \in {"called", "unlock"}
  <2>1. CASE inbox' = inbox
    BY <1>1, <1>3, <2>1 DEF LayerInv, Queued
  <2>2. CASE inbox' = Append(inbox, r) /\ q.phase \in {"called", "unlock"}
    <3>1. /\ inbox' \in Seq(Requests) /\ Len(inbox) \in Nat
          /\ DOMAIN inbox' = 1..(Len(inbox) + 1) /\ DOMAIN inbox = 1..Len(inbox)
          /\ inbox'[Len(inbox) + 1] = r
          /\ \A i \in DOMAIN inbox : inbox'[i] = inbox[i]
      BY <1>3, <2>2
    <3>2. \A i \in DOMAIN inbox' : i \in DOMAIN inbox \/ i = Len(inbox) + 1
      BY <3>1
    <3>3. \A i \in DOMAIN inbox : req'[inbox[i]].phase \in {"called", "unlock"}
      BY <1>1, <1>3 DEF LayerInv, Queued
    <3>4. \A i, j \in DOMAIN inbox : i # j => inbox[i] # inbox[j]
      BY DEF LayerInv, Queued
    <3>5. \A i, j \in DOMAIN inbox' : i # j => inbox'[i] # inbox'[j]
      BY <1>3, <3>1, <3>2, <3>4
    <3>6. \A i \in DOMAIN inbox' : req'[inbox'[i]].phase \in {"called", "unlock"}
      BY <1>1, <2>2, <3>1, <3>2, <3>3
    <3> QED
      BY <3>1, <3>5, <3>6
  <2> QED
    BY <2>1, <2>2
<1>5. /\ \A i, j \in DOMAIN waitting' : i # j => waitting'[i] # waitting'[j]
      /\ \A i \in DOMAIN waitting' : req'[waitting'[i]].phase = "waitting"
  BY <1>1, <1>3 DEF LayerInv, Queued
<1>6. \A s \in Requests : Owned(req'[s]) \subseteq Owned(req[s])
  BY <1>1
<1>7. Locks'
  BY <1>6 DEF LayerInv, Locks
<1> QED
  BY <1>1, <1>2, <1>4, <1>5, <1>7 DEF Queued

LEMMA StepMade ==
  ASSUME LayerInv, NEW r \in Requests, NEW q \in Request, req' = [req EXCEPT ![r] = q],
         UNCHANGED <<state, spawned>>, q.names = req[r].names, q.addrs = req[r].addrs,
         q.call = "newstate" <=> req[r].call = "newstate",
         q.phase \notin {"called", "spawning"}
  PROVE  Made'
<1>1. /\ req'[r] = q
      /\ \A s \in Requests : s # r => req'[s] = req[s]
  BY DEF LayerInv, TypeOK
<1>2. \A s \in Requests : /\ req'[s].names = req[s].names /\ req'[s].addrs = req[s].addrs
                          /\ req'[s].call = "newstate" <=> req[s].call = "newstate"
  BY <1>1
<1>3. \A n : Asked(n)' = Asked(n)
  BY <1>2 DEF Asked
<1>4. \A n \in Names : \A s \in Asked(n) :
        req'[s].phase \in {"called", "spawning"} => spawned[n] = 0
  BY <1>1 DEF LayerInv, Made, Asked
<1> QED
  BY <1>2, <1>3, <1>4 DEF LayerInv, Made

(* Where nothing happens to cells, copies and differences *)
LEMMA StepData ==
  ASSUME LayerInv, MaxMakes = 1, NEW r \in Requests, NEW q \in Request,
         req' = [req EXCEPT ![r] = q], copy' = copy,
         \A c \in Cells : cell'[c].t = cell[c].t /\ cell'[c].patches = cell[c].patches,
         q.patch = req[r].patch, q.worker = req[r].worker, q.todo = req[r].todo,
         q.addrs = req[r].addrs, q.call = "unlock" <=> req[r].call = "unlock",
         q.phase # "patched", req[r].phase # "patched", View(q)'
  PROVE  Tables' /\ CopyIsAVersion' /\ Views' /\ Bounded'
<1>1. /\ req'[r] = q /\ \A s \in Requests : s # r => req'[s] = req[s]
  BY DEF LayerInv, TypeOK
<1>2. Tables'
  BY DEF LayerInv, Tables
<1>3. ASSUME NEW s \in Requests, NEW c \in Cells, Pending(s, c)
      PROVE  /\ Pending(s, c)' /\ req'[s].worker = req[s].worker
             /\ req'[s].patch = req[s].patch
  BY <1>1, <1>3 DEF Pending
<1>4. ASSUME NEW w \in Workers, NEW n \in Names PROVE CopyOf(w, n)'
  <2>1. CopyOf(w, n) /\ <<n, 1>> \in Cells
    BY CopiesAre, OneCell DEF LayerInv
  <2> QED
    BY <1>3, <2>1, CopyKept
<1>5. CopyIsAVersion'
  BY <1>4 DEF CopyIsAVersion, CopyOf
<1>6. ASSUME NEW s \in Requests PROVE View(req[s])'
  <2>1. CASE s = r
    BY <1>1, <2>1, ViewOf
  <2>2. CASE s # r
    <3> PICK p : p = req[s]
      OBVIOUS
    <3>1. View(p) /\ p \in Request /\ Addressed(p)
      BY DEF LayerInv, TypeOK, RequestsOK, Views
    <3>2. \A n \in Owned(p) : <<n, 1>> \in Cells
      BY OneCell DEF Owned
    <3>3. View(p)'
      BY <3>1, <3>2, ViewKept
    <3> QED
      BY <1>1, <2>2, <3>3, ViewOf
  <2> QED
    BY <2>1, <2>2
<1>7. Views'
  BY <1>6 DEF Views
<1>8. /\ \A s \in Requests : req'[s].patch = req[s].patch
      /\ \A s \in Requests : req'[s].call = "unlock" <=> req[s].call = "unlock"
  BY <1>1
<1>9. Closed' = Closed
  BY <1>8 DEF Closed
<1>10. Bounded'
  BY <1>8, <1>9 DEF LayerInv, Bounded
<1> QED
  BY <1>2, <1>5, <1>7, <1>10
(* Nothing happens but to the status of a cell, if that. *)
LEMMA StillKeeps ==
  ASSUME LayerInv, MaxMakes = 1,
         UNCHANGED <<state, locked, waitting, spawned, inbox, copy, req>>,
         cell' \in [Cells -> [t : State, patches : Seq(Patches),
                              status : {"none", "up", "leaving", "gone"}]],
         \A c \in Cells : cell'[c].t = cell[c].t /\ cell'[c].patches = cell[c].patches
  PROVE  LayerInv' /\ Steady
<1>1. TypeOK'
  BY DEF LayerInv, TypeOK
<1>2. RequestsOK' /\ Queued' /\ Locks'
  BY DEF LayerInv, RequestsOK, Queued, Locks
<1>3. Made'
  <2>1. \A n : Asked(n)' = Asked(n)
    BY DEF Asked
  <2> QED
    BY <2>1 DEF LayerInv, Made
<1>4. Tables'
  BY DEF LayerInv, Tables
<1>5. CopyIsAVersion'
  <2>1. ASSUME NEW w \in Workers, NEW n \in Names PROVE CopyOf(w, n)'
    <3>1. CopyOf(w, n) /\ <<n, 1>> \in Cells
      BY CopiesAre, OneCell DEF LayerInv
    <3>2. \A s \in Requests : Pending(s, <<n, 1>>) => Pending(s, <<n, 1>>)'
      BY DEF Pending
    <3> QED
      BY <3>1, <3>2, CopyKept
  <2> QED
    BY <2>1 DEF CopyIsAVersion, CopyOf
<1>6. Views'
  <2>1. ASSUME NEW s \in Requests PROVE View(req[s])'
    <3> PICK p : p = req[s]
      OBVIOUS
    <3>1. View(p) /\ p \in Request /\ Addressed(p) /\ req'[s] = p
      BY DEF LayerInv, TypeOK, RequestsOK, Views
    <3>2. \A n \in Owned(p) : <<n, 1>> \in Cells
      BY OneCell DEF Owned
    <3>3. View(p)'
      BY <3>1, <3>2, ViewKept
    <3> QED
      BY <3>1, <3>3, ViewOf
  <2> QED
    BY <2>1 DEF Views
<1>7. Bounded'
  <2>1. Closed' = Closed
    BY DEF Closed
  <2> QED
    BY <2>1 DEF LayerInv, Bounded
<1>8. Steady
  <2>1. Settled
    BY DEF Settled, Pending
  <2> QED
    BY <2>1 DEF Steady, AsBefore
<1> QED
  BY <1>1, <1>2, <1>3, <1>4, <1>5, <1>6, <1>7, <1>8 DEF LayerInv

LEMMA CellExitKeeps ==
  ASSUME LayerInv, NEW c \in Cells, CellExit(c), MaxMakes = 1
  PROVE  LayerInv' /\ Steady
<1>1. /\ UNCHANGED <<state, locked, waitting, spawned, inbox, copy, req>>
      /\ cell' = [cell EXCEPT ![c].status = "gone"]
  BY DEF CellExit
<1>2. /\ cell' \in [Cells -> [t : State, patches : Seq(Patches),
                              status : {"none", "up", "leaving", "gone"}]]
      /\ \A d \in Cells : cell'[d].t = cell[d].t /\ cell'[d].patches = cell[d].patches
  BY <1>1, CellStatus
<1> QED
  BY <1>1, <1>2, StillKeeps

(* A step that only one request notices *)
LEMMA OwnKeeps ==
  ASSUME LayerInv, MaxMakes = 1, NEW r \in Requests, NEW q \in Request,
         req' = [req EXCEPT ![r] = q],
         UNCHANGED <<state, locked, waitting, spawned, inbox, cell, copy>>,
         Early(q), Addressed(q), Owned(q) \subseteq Owned(req[r]), View(q)',
         req[r].phase \notin {"called", "waitting", "unlock", "patched"},
         q.phase \notin {"called", "spawning", "patched"},
         Kept(q, [req[r] EXCEPT !.old = q.old]),
         q.todo = req[r].todo, q.addrs = req[r].addrs
  PROVE  /\ LayerInv' /\ Settled
         /\ req[r].phase # "work" /\ q.phase # "work" => Steady
<1>1. /\ q.worker = req[r].worker /\ q.call = req[r].call /\ q.names = req[r].names
      /\ q.patch = req[r].patch
  BY DEF Kept, LayerInv, TypeOK, Request
<1>2. \A c \in Cells : cell'[c].t = cell[c].t /\ cell'[c].patches = cell[c].patches
  OBVIOUS
<1>3. /\ req' \in [Requests -> Request] /\ RequestsOK' /\ Queued' /\ Locks'
      /\ inbox' \in Seq(Requests)
  BY StepRequests
<1>4. Made'
  BY <1>1, StepMade
<1>5. Tables' /\ CopyIsAVersion' /\ Views' /\ Bounded'
  BY <1>1, <1>2, StepData
<1>6. TypeOK'
  BY <1>3 DEF LayerInv, TypeOK
<1>7. req'[r] = q /\ \A s \in Requests : s # r => req'[s] = req[s]
  BY DEF LayerInv, TypeOK
<1>8. Settled /\ (req[r].phase # "work" /\ q.phase # "work" => Steady)
  <2>1. /\ req[r].phase # "patched" /\ q.phase # "patched"
        /\ q.todo = req[r].todo /\ q.addrs = req[r].addrs
    OBVIOUS
  <2> QED
    BY <1>1, <1>2, <1>7, <2>1, StepSettled
<1> QED
  BY <1>3, <1>4, <1>5, <1>6, <1>8 DEF LayerInv

(* An error ends the coroutine. *)
LEMMA FailKeeps ==
  ASSUME LayerInv, MaxMakes = 1, NEW r \in Requests,
         req' = [req EXCEPT ![r].phase = "failed"],
         UNCHANGED <<state, locked, waitting, spawned, inbox, cell, copy>>,
         req[r].phase \in (Using \cup {"start"}) \ {"work"}
  PROVE  LayerInv' /\ Steady
<1> PICK p : p = req[r]
  OBVIOUS
<1> PICK q : q = [p EXCEPT !.phase = "failed"]
  OBVIOUS
<1>1. /\ p \in Request /\ Early(p) /\ Addressed(p)
      /\ req' = [req EXCEPT ![r] = q]
  BY DEF LayerInv, TypeOK, RequestsOK
<1>2. /\ q \in Request /\ Kept(q, p) /\ q.phase = "failed" /\ q.todo = p.todo
      /\ q.addrs = p.addrs /\ q.old = p.old
  BY <1>1 DEF Request, Phase, Kept
<1>3. p.todo = {} /\ p.call \in {"newstate", "releasestate", "lock"} /\ p.call # "newstate"
  BY <1>1 DEF Early, Addressed, Using, Request
<1>4. Early(q)
  BY <1>2, <1>3 DEF Early, Using, Kept
<1>5. Addressed(q)
  BY <1>2 DEF Addressed, Using, Closing
<1>6. Owned(q) = {}
  BY <1>2, <1>3 DEF Owned, Using
<1>7. View(q)'
  BY <1>2 DEF View, Using
<1>8. Kept(q, [p EXCEPT !.old = q.old])
  BY <1>1, <1>2 DEF Kept, Request
<1>9. /\ p.phase \notin {"called", "waitting", "unlock", "patched"}
      /\ q.phase \notin {"called", "spawning", "patched"}
  BY <1>2 DEF Using
<1> QED
  BY <1>1, <1>2, <1>4, <1>5, <1>6, <1>7, <1>8, <1>9, OwnKeeps
(* The reply of a cell *)
LEMMA ReplyIs ==
  ASSUME LayerInv, NEW c \in Cells, NEW v \in Nat
  PROVE  /\ Version(c) \in Nat /\ cell[c].t \in State /\ cell[c].patches \in Seq(Patches)
         /\ Reply(c, v) \in [version : Nat, t : Seq(State), patches : Seq(Patches)]
<1>1. /\ cell[c].t \in State /\ cell[c].patches \in Seq(Patches)
      /\ Len(cell[c].patches) \in Nat
  BY DEF LayerInv, TypeOK
<1>2. Version(c) = Len(cell[c].patches) /\ Version(c) \in Nat
  BY <1>1 DEF Version
<1>3. v \in 1..Version(c) =>
        SubSeq(cell[c].patches, v + 1, Version(c)) \in Seq(Patches)
  BY <1>1, <1>2, SubSeqProperties
<1> QED
  BY <1>1, <1>2, <1>3 DEF Reply

LEMMA CellQueryKeeps ==
  ASSUME LayerInv, NEW r \in Requests, CellQuery(r), MaxMakes = 1
  PROVE  LayerInv' /\ Steady
<1> PICK p : p = req[r]
  OBVIOUS
<1> DEFINE c == p.addrs[Len(p.old) + 1]
<1>1. /\ p.phase = "query" /\ p \in Request /\ Early(p) /\ Addressed(p) /\ View(p)
      /\ UNCHANGED <<state, locked, waitting, spawned, inbox, cell, copy>>
  BY DEF CellQuery, LayerInv, TypeOK, RequestsOK, Views
<1>2. CASE cell[c].status = "gone"
  <2>1. req' = [req EXCEPT ![r].phase = "failed"]
    BY <1>2 DEF CellQuery
  <2> QED
    BY <1>1, <2>1, FailKeeps DEF Using
<1>3. CASE cell[c].status # "gone"
  <2> PICK a : a = Reply(c, p.v)
    OBVIOUS
  <2> PICK q : q = [p EXCEPT !.phase = "answered", !.answer = a]
    OBVIOUS
  <2>1. req' = [req EXCEPT ![r] = q]
    <3>1. req' = [req EXCEPT ![r].phase = "answered", ![r].answer = a]
      BY <1>3 DEF CellQuery
    <3> QED
      BY <3>1 DEF LayerInv, TypeOK
  <2>2. p.phase \in Using /\ p.phase \in {"query", "answered"}
    BY <1>1 DEF Using
  <2>3. c \in Cells
    BY <1>1, <2>2, SeenCells
  <2>4. p.v \in Nat
    BY <1>1 DEF Request
  <2>5. a \in [version : Nat, t : Seq(State), patches : Seq(Patches)]
    BY <2>3, <2>4, ReplyIs
  <2>6. /\ q \in Request /\ Kept(q, p) /\ q.phase = "answered" /\ q.todo = p.todo
        /\ q.addrs = p.addrs /\ q.old = p.old /\ q.v = p.v /\ q.answer = a
    BY <1>1, <2>5 DEF Request, Phase, Kept
  <2>7. Early(q)
    BY <1>1, <2>2, <2>6 DEF Early, Using, Kept
  <2>8. Addressed(q)
    BY <1>1, <2>2, <2>6 DEF Addressed, Using, Closing, Kept
  <2>9. Owned(q) = Owned(p)
    BY <2>2, <2>6 DEF Owned, Using
  <2>10. View(q)
    <3>1. q.worker = p.worker /\ q.names = p.names
      BY <2>6 DEF Kept
    <3>2. ASSUME NEW i \in DOMAIN q.old
          PROVE  /\ q.old[i] = cell[q.addrs[i]].t
                 /\ copy[q.worker][q.names[i]] =
                      [version |-> Version(q.addrs[i]), t |-> cell[q.addrs[i]].t]
      <4>1. /\ p.old[i] = cell[p.addrs[i]].t
            /\ copy[p.worker][p.names[i]] =
                 [version |-> Version(p.addrs[i]), t |-> cell[p.addrs[i]].t]
        BY <1>1, <2>2, <2>6 DEF View
      <4> QED
        BY <2>6, <3>1, <4>1
    <3>3. LET v == copy[q.worker][q.names[Len(q.old) + 1]].version
          IN  q.v = IF v = -1 THEN 0 ELSE v
      BY <1>1, <2>6, <3>1, ZenonT(40) DEF View
    <3>4. q.answer = Reply(q.addrs[Len(q.old) + 1], q.v)
      BY <2>6
    <3> QED
      BY <3>2, <3>3, <3>4 DEF View
  <2>11. View(q)'
    BY <1>1, <2>6, <2>8, <2>10, ViewKept
  <2>12. Kept(q, [p EXCEPT !.old = q.old])
    BY <1>1, <2>6 DEF Kept, Request
  <2>13. /\ p.phase \notin {"called", "waitting", "unlock", "patched"}
         /\ q.phase \notin {"called", "spawning", "patched"}
    BY <1>1, <2>6
  <2> QED
    BY <1>1, <2>1, <2>6, <2>7, <2>8, <2>9, <2>11, <2>12, <2>13, OwnKeeps
<1> QED
  BY <1>2, <1>3

LEMMA StartQueryKeeps ==
  ASSUME LayerInv, NEW r \in Requests, StartQuery(r), MaxMakes = 1
  PROVE  LayerInv' /\ Steady
<1> PICK p : p = req[r]
  OBVIOUS
<1>1. /\ p.phase = "granted" /\ p \in Request /\ Early(p) /\ Addressed(p) /\ View(p)
      /\ UNCHANGED <<state, locked, waitting, spawned, inbox, cell, copy>>
  BY DEF StartQuery, LayerInv, TypeOK, RequestsOK, Views
<1>2. CASE Count(p.addrs) = 0
  <2>1. req' = [req EXCEPT ![r].phase = "failed"]
    BY <1>2 DEF StartQuery
  <2> QED
    BY <1>1, <2>1, FailKeeps DEF Using
<1>3. CASE Count(p.addrs) # 0
  <2> DEFINE x == copy[p.worker][p.names[1]].version
  <2> PICK v : v = IF x = -1 THEN 0 ELSE x
    OBVIOUS
  <2> PICK q : q = [p EXCEPT !.phase = "query", !.v = v]
    OBVIOUS
  <2>1. req' = [req EXCEPT ![r] = q]
    <3>1. req' = [req EXCEPT ![r].phase = "query", ![r].v = v]
      BY <1>3 DEF StartQuery, Send
    <3> QED
      BY <3>1 DEF LayerInv, TypeOK
  <2>2. /\ p.phase \in Using /\ p.old = <<>> /\ p.addrs \in Seq(Cells \cup {Nil})
        /\ Count(p.addrs) \in 0..Len(p.addrs)
    <3>1. p.phase \in Using /\ p.old = <<>> /\ p.addrs \in Seq(Cells \cup {Nil})
      BY <1>1 DEF Using, Addressed, Request
    <3> QED
      BY <3>1, CountIs
  <2>3. p.names[1] \in Names /\ p.worker \in Workers
    <3>1. p.names \in Seq(Names) /\ Len(p.names) = Len(p.addrs) /\ Len(p.addrs) # 0
          /\ p.worker \in Workers
      <4>1. /\ p.names \in Seq(Names) /\ p.addrs \in Seq(Cells \cup {Nil})
            /\ p.worker \in Workers
        BY <1>1 DEF Request
      <4>2. Len(p.addrs) = Len(p.names)
        BY <1>1, <2>2 DEF Addressed
      <4>3. Len(p.addrs) # 0
        BY <1>3, <2>2, <4>1
      <4> QED
        BY <4>1, <4>2, <4>3
    <3> QED
      BY <3>1
  <2>4. v \in Nat
    <3>1. x \in Nat \cup {-1}
      BY <2>3 DEF LayerInv, TypeOK
    <3> QED
      BY <3>1
  <2>5. /\ q \in Request /\ Kept(q, p) /\ q.phase = "query" /\ q.todo = p.todo
        /\ q.addrs = p.addrs /\ q.old = <<>> /\ q.v = v
    BY <1>1, <2>2, <2>4 DEF Request, Phase, Kept
  <2>6. Early(q)
    BY <1>1, <2>2, <2>5 DEF Early, Using, Kept
  <2>7. Addressed(q)
    <3> PICK k : k = Count(p.addrs)
      OBVIOUS
    <3>1. Count(q.addrs) = k
      BY <2>5, ZenonT(20)
    <3>2. k # 0
      BY <1>3, ZenonT(20)
    <3> PICK m : m = Len(p.addrs)
      OBVIOUS
    <3>3. m \in Nat
      BY <2>2
    <3>4. k \in 0..m
      BY <2>2, ZenonT(20)
    <3>5. 0 < k
      BY <3>2, <3>3, <3>4
    <3>6. Len(q.old) = 0
      BY <2>5
    <3>7. Len(q.old) < Count(q.addrs)
      BY <3>1, <3>5, <3>6
    <3> QED
      BY <1>1, <2>2, <2>5, <3>7 DEF Addressed, Using, Closing, Kept
  <2>8. Owned(q) = Owned(p)
    BY <2>2, <2>5, ZenonT(40) DEF Owned, Using
  <2>9. View(q)'
    <3>1. /\ Len(q.old) + 1 = 1 /\ q.worker = p.worker /\ q.names = p.names /\ copy' = copy
          /\ DOMAIN q.old = {}
      <4>1. q.worker = p.worker /\ q.names = p.names
        BY <2>5 DEF Kept
      <4>2. q.old = <<>> /\ copy' = copy
        BY <1>1, <2>5
      <4>3. Len(q.old) + 1 = 1 /\ DOMAIN q.old = {}
        BY <4>2
      <4> QED
        BY <4>1, <4>2, <4>3
    <3>2. LET z == copy'[q.worker][q.names[Len(q.old) + 1]].version
          IN  q.v = IF z = -1 THEN 0 ELSE z
      BY <2>5, <3>1
    <3> QED
      BY <2>5, <3>1, <3>2 DEF View
  <2>10. Kept(q, [p EXCEPT !.old = q.old])
    BY <1>1, <2>5 DEF Kept, Request
  <2>11. /\ p.phase \notin {"called", "waitting", "unlock", "patched"}
         /\ q.phase \notin {"called", "spawning", "patched"}
    BY <1>1, <2>5
  <2> QED
    BY <1>1, <2>1, <2>5, <2>6, <2>7, <2>8, <2>9, <2>10, <2>11, OwnKeeps
<1> QED
  BY <1>2, <1>3

(* A call is made of what state_mgr knows. *)
LEMMA CallKeeps ==
  ASSUME LayerInv, NEW r \in Requests, MaxMakes = 1,
         NEW call \in {"newstate", "releasestate", "lock"}, NEW ns \in Seq(Names),
         call = "lock" => ns \in Queries,
         call # "lock" => \E n \in Names : ns = <<n>>,
         call = "newstate" => \E n \in Names : /\ ns = <<n>> /\ Asked(n) = {}
                                               /\ n \notin Boot,
         Call(r, call, ns)
  PROVE  LayerInv' /\ Steady
<1> PICK p : p = req[r]
  OBVIOUS
<1>1. /\ p.phase = "start" /\ p \in Request /\ Early(p) /\ Addressed(p)
      /\ UNCHANGED <<state, locked, waitting, spawned, cell, copy>>
  BY DEF Call, LayerInv, TypeOK, RequestsOK
<1>2. CASE ~(Len(inbox) < QueueLen)
  <2>1. req' = [req EXCEPT ![r].phase = "failed"] /\ inbox' = inbox
    BY <1>2 DEF Call
  <2> QED
    BY <1>1, <2>1, FailKeeps
<1>3. CASE Len(inbox) < QueueLen
  <2> PICK q : q = [p EXCEPT !.phase = "called", !.call = call, !.names = ns]
    OBVIOUS
  <2>1. req' = [req EXCEPT ![r] = q] /\ inbox' = Append(inbox, r)
    <3>1. /\ req' = [req EXCEPT ![r].phase = "called", ![r].call = call, ![r].names = ns]
          /\ inbox' = Append(inbox, r)
      BY <1>3 DEF Call
    <3> QED
      BY <3>1 DEF LayerInv, TypeOK
  <2>2. /\ p.addrs = <<>> /\ p.todo = {} /\ p.old = <<>>
        /\ p.call # "newstate" /\ p.call # "unlock"
    BY <1>1 DEF Early
  <2>3. /\ q \in Request /\ q.phase = "called" /\ q.todo = {} /\ q.addrs = <<>>
        /\ q.old = <<>> /\ q.call = call /\ q.names = ns /\ q.worker = p.worker
        /\ q.patch = p.patch
    BY <1>1, <2>2 DEF Request, Phase
  <2>4. Early(q)
    BY <2>3 DEF Early, Using
  <2>5. Addressed(q)
    BY <2>3 DEF Addressed, Using, Closing
  <2>6. Owned(q) = {}
    BY <2>3 DEF Owned
  <2>7. View(q)'
    BY <2>3 DEF View, Using
  <2>8. /\ req' \in [Requests -> Request] /\ RequestsOK' /\ Queued' /\ Locks'
        /\ inbox' \in Seq(Requests) /\ req'[r] = q
        /\ \A s \in Requests : s # r => req'[s] = req[s]
    BY <1>1, <2>1, <2>3, <2>4, <2>5, <2>6, StepRequests
  <2>9. Made'
    <3>1. \A s \in Requests : req'[s].addrs = req[s].addrs
      BY <2>2, <2>3, <2>8
    <3>2. ASSUME NEW n \in Names
          PROVE  \/ Asked(n)' = Asked(n)
                 \/ Asked(n)' = {r} /\ Asked(n) = {} /\ n \notin Boot
      <4>1. r \notin Asked(n)
        BY <2>2 DEF Asked
      <4>2. Asked(n)' = IF call = "newstate" /\ ns = <<n>> THEN Asked(n) \cup {r} ELSE Asked(n)
        <5>1. \A s \in Requests : s # r => (s \in Asked(n)' <=> s \in Asked(n))
          BY <2>8 DEF Asked
        <5>2. r \in Asked(n)' <=> call = "newstate" /\ ns = <<n>>
          BY <2>3, <2>8 DEF Asked
        <5>3. Asked(n) \subseteq Requests /\ Asked(n)' \subseteq Requests
          BY DEF Asked
        <5>4. CASE call = "newstate" /\ ns = <<n>>
          <6>1. Asked(n)' = Asked(n) \cup {r}
            BY <5>1, <5>2, <5>3, <5>4
          <6> QED
            BY <5>4, <6>1
        <5>5. CASE ~(call = "newstate" /\ ns = <<n>>)
          <6>1. Asked(n)' = Asked(n)
            <7>1. r \notin Asked(n)'
              BY <5>2, <5>5
            <7>2. \A s \in Requests : s \in Asked(n)' <=> s \in Asked(n)
              BY <4>1, <5>1, <7>1
            <7> QED
              BY <5>3, <7>2
          <6> QED
            BY <5>5, <6>1
        <5> QED
          BY <5>4, <5>5
      <4>3. call = "newstate" /\ ns = <<n>> => Asked(n) = {} /\ n \notin Boot
        OBVIOUS
      <4> QED
        BY <4>2, <4>3
    <3>3. ASSUME NEW n \in Names, NEW s \in Asked(n)',
                 req'[s].phase \in {"called", "spawning"}
          PROVE  spawned[n] = 0
      <4>1. CASE s \in Asked(n)
        <5>1. s # r /\ s \in Requests
          BY <2>2, <4>1 DEF Asked
        <5> QED
          BY <2>8, <3>3, <4>1, <5>1 DEF LayerInv, Made
      <4>2. CASE s \notin Asked(n)
        <5>1. Asked(n) = {} /\ n \notin Boot
          BY <3>2, <3>3, <4>2
        <5>2. spawned[n] \in 0..1 /\ spawned[n] # 1
          BY <5>1 DEF LayerInv, TypeOK, Made
        <5> QED
          BY <5>2
      <4> QED
        BY <4>1, <4>2
    <3>4. ASSUME NEW n \in Names
          PROVE  /\ spawned[n] = 1 => n \in Boot \/ Asked(n)' # {}
                 /\ n \in Boot => Asked(n)' = {}
                 /\ \A s, t \in Asked(n)' : s = t
      BY <3>2 DEF LayerInv, Made
    <3> QED
      BY <1>1, <3>1, <3>3, <3>4 DEF LayerInv, Made
  <2>10. Tables' /\ CopyIsAVersion' /\ Views' /\ Bounded'
    BY <1>1, <2>1, <2>2, <2>3, <2>7, StepData
  <2>11. TypeOK'
    BY <1>1, <2>8 DEF LayerInv, TypeOK
  <2>12. Steady
    <3>1. \A c \in Cells : cell'[c].t = cell[c].t
      BY <1>1
    <3>2. /\ q.addrs = p.addrs /\ q.todo = p.todo /\ q.patch = p.patch
          /\ p.phase \notin {"patched", "work"} /\ q.phase \notin {"patched", "work"}
      BY <1>1, <2>2, <2>3
    <3> QED
      BY <2>8, <3>1, <3>2, StepSettled, ZenonT(40)
  <2> QED
    BY <2>8, <2>9, <2>10, <2>11, <2>12 DEF LayerInv
<1> QED
  BY <1>2, <1>3

LEMMA BeginKeeps ==
  ASSUME LayerInv, NEW r \in Requests, Query(r) \/ New(r) \/ Release(r), MaxMakes = 1
  PROVE  LayerInv' /\ Steady
<1>1. CASE Query(r)
  <2>1. PICK ns \in Queries : Call(r, "lock", ns)
    BY <1>1 DEF Query
  <2>2. ns \in Seq(Names)
    BY StarreAssumption
  <2> QED
    BY <2>1, <2>2, CallKeeps
<1>2. CASE New(r)
  <2>1. PICK n \in Names : /\ Cardinality(Asked(n)) + (IF n \in Boot THEN 1 ELSE 0) < 1
                           /\ Call(r, "newstate", <<n>>)
    BY <1>2 DEF New
  <2>2. IsFiniteSet(Asked(n))
    BY StarreAssumption, FS_Subset DEF Asked
  <2>3. Cardinality(Asked(n)) \in Nat /\ (Cardinality(Asked(n)) = 0 <=> Asked(n) = {})
    BY <2>2, FS_CardinalityType, FS_EmptySet
  <2>4. Asked(n) = {} /\ n \notin Boot
    BY <2>1, <2>3
  <2>5. <<n>> \in Seq(Names)
    OBVIOUS
  <2> QED
    BY <2>1, <2>4, <2>5, CallKeeps
<1>3. CASE Release(r)
  <2>1. PICK n \in Names : Call(r, "releasestate", <<n>>)
    BY <1>3 DEF Release
  <2>2. <<n>> \in Seq(Names)
    OBVIOUS
  <2> QED
    BY <2>1, <2>2, CallKeeps
<1> QED
  BY <1>1, <1>2, <1>3
LEMMA FirstOfMore ==
  ASSUME NEW ds \in Seq(Patches), NEW d \in Patches, NEW v \in 0..Len(ds)
  PROVE  SubSeq(Append(ds, d), 1, v) = SubSeq(ds, 1, v)
<1> PICK e : e = Append(ds, d)
  OBVIOUS
<1>1. /\ Len(ds) \in Nat /\ v \in Nat /\ v <= Len(ds)
      /\ e \in Seq(Patches) /\ Len(e) = Len(ds) + 1
      /\ \A i \in 1..Len(ds) : e[i] = ds[i]
  OBVIOUS
<1>2. /\ SubSeq(ds, 1, v) \in Seq(Patches) /\ Len(SubSeq(ds, 1, v)) = v
      /\ \A i \in 1..v : SubSeq(ds, 1, v)[i] = ds[i]
  BY <1>1, SubSeqProperties
<1>3. /\ SubSeq(e, 1, v) \in Seq(Patches) /\ Len(SubSeq(e, 1, v)) = v
      /\ \A i \in 1..v : SubSeq(e, 1, v)[i] = e[i]
  BY <1>1, SubSeqProperties
<1>4. \A i \in 1..v : SubSeq(e, 1, v)[i] = SubSeq(ds, 1, v)[i]
  BY <1>1, <1>2, <1>3
<1> QED
  BY <1>2, <1>3, <1>4, SeqEqual

LEMMA PatchState ==
  ASSUME NEW t \in State, NEW d \in Patches
  PROVE  Patch(t, d) \in State
<1>1. d \in [DOMAIN d -> Numbers]
  BY DEF Patches
<1> QED
  BY <1>1 DEF Patch, State

(* No other request has a difference that a cell is yet to have. *)
LEMMA OnePending ==
  ASSUME LayerInv, MaxMakes = 1, NEW r \in Requests, NEW n \in Owned(req[r]),
         NEW s \in Requests, Pending(s, <<n, 1>>)
  PROVE  s = r
<1>1. n \in Names /\ n \in req[s].todo
  BY DEF Pending, Owned
<1>2. n \in Owned(req[s])
  BY <1>1 DEF Owned, Pending
<1> QED
  BY <1>2 DEF LayerInv, Locks

LEMMA CellPatchKeeps ==
  ASSUME LayerInv, NEW r \in Requests, CellPatch(r), MaxMakes = 1
  PROVE  LayerInv'
<1> PICK p : p = req[r]
  OBVIOUS
<1> PICK q : q = [p EXCEPT !.phase = "patched"]
  OBVIOUS
<1>1. /\ p.phase = "patch" /\ p \in Request /\ Early(p) /\ Addressed(p)
      /\ UNCHANGED <<state, locked, waitting, spawned, inbox, copy>>
      /\ req' = [req EXCEPT ![r] = q]
  BY DEF CellPatch, LayerInv, TypeOK, RequestsOK
<1>2. PICK n \in p.todo \cap DOMAIN p.patch : p.at = <<n, 1>>
  BY <1>1 DEF Addressed
<1> PICK c, d : c = <<n, 1>> /\ d = p.patch[n]
  OBVIOUS
<1>3. /\ n \in Names /\ c \in Cells /\ d \in Patches /\ n \in Owned(p) /\ c[1] = n
  <2>1. n \in Names
    BY <1>1 DEF Request
  <2>2. d \in Patches
    BY <1>1 DEF Request
  <2>3. n \in Owned(p)
    BY <1>1, ClosingOwns DEF Closing
  <2> QED
    BY <2>1, <2>2, <2>3, OneCell
<1>4. cell' = [cell EXCEPT ![c].patches = Append(@, d), ![c].t = Patch(@, d)]
  BY <1>2, <1>3 DEF CellPatch
<1>5. /\ cell[c].t \in State /\ cell[c].patches \in Seq(Patches)
      /\ Len(cell[c].patches) \in Nat
      /\ cell[c].t = PatchAll(NewTable(c), cell[c].patches)
  BY <1>3 DEF LayerInv, TypeOK, Tables
<1>6. Patch(cell[c].t, d) \in State
  BY <1>3, <1>5, PatchState
<1>7. /\ cell' \in [Cells -> [t : State, patches : Seq(Patches),
                              status : {"none", "up", "leaving", "gone"}]]
      /\ cell'[c].t = Patch(cell[c].t, d) /\ cell'[c].patches = Append(cell[c].patches, d)
      /\ \A e \in Cells : e # c => cell'[e] = cell[e]
  <2> PICK x, y : x = Patch(cell[c].t, d) /\ y = Append(cell[c].patches, d)
    OBVIOUS
  <2>1. x \in State /\ y \in Seq(Patches)
    BY <1>3, <1>5, <1>6
  <2>2. cell' = [cell EXCEPT ![c].patches = y, ![c].t = x]
    BY <1>3, <1>4 DEF LayerInv, TypeOK
  <2>3. cell' = [cell EXCEPT ![c] = [cell[c] EXCEPT !.patches = y, !.t = x]]
    BY <1>3, <2>2 DEF LayerInv, TypeOK
  <2> QED
    BY <1>3, <2>1, <2>3, ZenonT(40) DEF LayerInv, TypeOK
<1>8. /\ q \in Request /\ Kept(q, p) /\ q.phase = "patched" /\ q.todo = p.todo
      /\ q.addrs = p.addrs /\ q.at = p.at
  BY <1>1 DEF Request, Phase, Kept
<1>9. Early(q)
  <2>1. p.call # "newstate"
    BY <1>1 DEF Early
  <2> QED
    BY <1>1, <1>8, <2>1 DEF Early, Using, Kept
<1>10. Addressed(q)
  <2>1. p.phase \in Closing /\ p.phase \notin Using
    BY <1>1 DEF Closing, Using
  <2> QED
    BY <1>1, <1>2, <1>8, <2>1 DEF Addressed, Using, Closing, Kept
<1>11. Owned(q) = Owned(p)
  BY <1>1, <1>8 DEF Owned, Using
<1>12. /\ req' \in [Requests -> Request] /\ RequestsOK' /\ Queued' /\ Locks'
       /\ inbox' \in Seq(Requests) /\ req'[r] = q
       /\ \A s \in Requests : s # r => req'[s] = req[s]
  BY <1>1, <1>8, <1>9, <1>10, <1>11, StepRequests
<1>13. Made'
  BY <1>1, <1>8, StepMade DEF Kept
<1>14. Tables'
  <2>1. cell'[c].t = PatchAll(NewTable(c), cell'[c].patches)
    BY <1>3, <1>5, <1>7, PatchAllNext
  <2>2. \A e \in Cells : cell'[e].t = PatchAll(NewTable(e), cell'[e].patches)
    BY <1>7, <2>1 DEF LayerInv, Tables
  <2> QED
    BY <2>2 DEF Tables
<1>15. ASSUME NEW w \in Workers, NEW m \in Names PROVE CopyOf(w, m)'
  <2>1. CopyOf(w, m) /\ <<m, 1>> \in Cells
    BY CopiesAre, OneCell DEF LayerInv
  <2>2. CASE m # n
    <3>1. <<m, 1>> # c /\ cell'[<<m, 1>>] = cell[<<m, 1>>]
      BY <1>7, <2>1, <2>2
    <3>2. ASSUME NEW s \in Requests, Pending(s, <<m, 1>>)
          PROVE  /\ Pending(s, <<m, 1>>)' /\ req'[s].worker = req[s].worker
                 /\ req'[s].patch = req[s].patch
      <4>1. CASE s # r
        BY <1>12, <3>2, <4>1 DEF Pending
      <4>2. CASE s = r
        <5>1. /\ req[s] = p /\ req'[s] = q /\ q.todo = p.todo /\ q.patch = p.patch
              /\ q.addrs = p.addrs /\ q.at # <<m, 1>> /\ q.worker = p.worker
          BY <1>2, <1>8, <1>12, <3>1, <4>2 DEF Kept
        <5> QED
          BY <3>2, <5>1 DEF Pending
      <4> QED
        BY <4>1, <4>2
    <3> QED
      BY <1>1, <2>1, <3>1, <3>2, CopyKept
  <2>3. CASE m = n
    <3> DEFINE v == copy[w][n].version
               k == Len(cell[c].patches)
    <3>1. /\ Version(c) = k /\ k \in Nat /\ Version(c)' = k + 1
      BY <1>5, <1>7 DEF Version
    <3>2. /\ copy' = copy /\ v \in Nat \cup {-1}
      BY <1>1, <1>3 DEF LayerInv, TypeOK
    <3>3. CASE v = -1
      BY <2>3, <3>2, <3>3 DEF CopyOf
    <3>4. CASE v # -1 /\ v <= k
      <4>1. copy[w][n].t = PatchAll(NewTable(c), SubSeq(cell[c].patches, 1, v))
        BY <2>1, <2>3, <3>1, <3>4 DEF CopyOf
      <4>2. SubSeq(cell'[c].patches, 1, v) = SubSeq(cell[c].patches, 1, v)
        <5>1. v \in 0..Len(cell[c].patches)
          BY <3>1, <3>2, <3>4
        <5> QED
          BY <1>3, <1>5, <1>7, <5>1, FirstOfMore
      <4>3. v <= Version(c)'
        BY <3>1, <3>2, <3>4
      <4> QED
        BY <2>3, <3>2, <4>1, <4>2, <4>3 DEF CopyOf
    <3>5. CASE v # -1 /\ ~(v <= k)
      <4>1. PICK s \in Requests : /\ v = k + 1 /\ Pending(s, c)
                                  /\ copy[w][n].t = Patch(cell[c].t, req[s].patch[n])
        BY <2>1, <2>3, <3>1, <3>5 DEF CopyOf
      <4>2. s = r
        BY <1>3, <4>1, OnePending
      <4>3. copy[w][n].t = cell'[c].t
        BY <1>7, <4>1, <4>2
      <4>4. SubSeq(cell'[c].patches, 1, v) = cell'[c].patches
        BY <1>3, <1>5, <1>7, <4>1
      <4>5. copy[w][n].t = PatchAll(NewTable(c), SubSeq(cell'[c].patches, 1, v))
        BY <1>3, <1>14, <4>3, <4>4 DEF Tables
      <4> QED
        BY <2>3, <3>1, <3>2, <4>1, <4>5 DEF CopyOf
    <3> QED
      BY <3>3, <3>4, <3>5
  <2> QED
    BY <2>2, <2>3
<1>16. CopyIsAVersion'
  BY <1>15 DEF CopyIsAVersion, CopyOf
<1>17. Views'
  <2>1. ASSUME NEW s \in Requests PROVE View(req[s])'
    <3>1. CASE s = r
      <4>1. View(q)'
        BY <1>8 DEF View, Using
      <4> QED
        BY <1>12, <3>1, <4>1, ViewOf
    <3>2. CASE s # r
      <4> PICK o : o = req[s]
        OBVIOUS
      <4>1. View(o) /\ o \in Request /\ Addressed(o)
        BY DEF LayerInv, TypeOK, RequestsOK, Views
      <4>2. n \notin Owned(o)
        BY <1>3, <3>2 DEF LayerInv, Locks
      <4>3. \A m \in Owned(o) : <<m, 1>> \in Cells /\ <<m, 1>> # c
        BY <4>2, OneCell DEF Owned
      <4>4. View(o)'
        BY <1>1, <1>7, <4>1, <4>3, ViewKept
      <4> QED
        BY <1>12, <3>2, <4>4, ViewOf
    <3> QED
      BY <3>1, <3>2
  <2> QED
    BY <2>1 DEF Views
<1>18. Bounded'
  <2>1. \A s \in Requests : req'[s].call = req[s].call /\ req'[s].patch = req[s].patch
    BY <1>8, <1>12 DEF Kept
  <2>2. Closed' = Closed
    BY <2>1 DEF Closed
  <2>3. ASSUME NEW f \in Fields PROVE cell'[c].t[f] <= Cardinality(Closed)
    <3>1. cell[c].t[f] <= Cardinality(Closed)
      BY <1>3 DEF LayerInv, Bounded
    <3>2. f \in DOMAIN d => d[f] <= Cardinality(Closed)
      BY <1>2 DEF LayerInv, Bounded
    <3> QED
      BY <1>7, <3>1, <3>2 DEF Patch
  <2> QED
    BY <1>7, <2>1, <2>2, <2>3 DEF LayerInv, Bounded
<1>19. TypeOK'
  BY <1>1, <1>7, <1>12 DEF LayerInv, TypeOK
<1> QED
  BY <1>12, <1>13, <1>14, <1>16, <1>17, <1>18, <1>19 DEF LayerInv
(* What a worker makes of an answer is what the cell has. *)
NextName(q) == q.names[Len(q.old) + 1]

LEMMA UpdateIs ==
  ASSUME LayerInv, MaxMakes = 1, NEW r \in Requests, req[r].phase = "answered",
         NEW n, n = NextName(req[r]), NEW w, w = req[r].worker
  PROVE  /\ n \in Names /\ w \in Workers /\ <<n, 1>> \in Cells /\ n \in Owned(req[r])
         /\ req[r].addrs[Len(req[r].old) + 1] = <<n, 1>>
         /\ Len(req[r].old) + 1 \in DOMAIN req[r].names
         /\ ~Useless(copy[w][n], req[r].answer)
         /\ UpdateState(copy[w][n], req[r].answer)
              = [version |-> Version(<<n, 1>>), t |-> cell[<<n, 1>>].t]
         /\ \A s \in Requests : ~Pending(s, <<n, 1>>)
<1> PICK p, c, i : p = req[r] /\ c = <<n, 1>> /\ i = Len(p.old) + 1
  OBVIOUS
<1>1. /\ p.phase = "answered" /\ p \in Request /\ Addressed(p) /\ View(p)
      /\ p.phase \in Using /\ p.phase \in {"query", "answered"}
  BY DEF LayerInv, TypeOK, RequestsOK, Views, Using
<1>2. /\ i \in DOMAIN p.addrs /\ i \in DOMAIN p.names /\ p.names[i] = n
      /\ n \in Names /\ p.addrs[i] = c /\ c \in Cells /\ w \in Workers
  BY <1>1, SeenCells DEF NextName, Request
<1>3. n \in Owned(p)
  BY <1>1, <1>2 DEF Owned
<1>4. ASSUME NEW s \in Requests, Pending(s, c) PROVE FALSE
  <2>1. s = r
    BY <1>3, <1>4, OnePending
  <2>2. p.todo = {}
    BY <1>1 DEF Addressed
  <2> QED
    BY <1>4, <2>1, <2>2 DEF Pending
<1> PICK old, V, ps : /\ old = copy[w][n] /\ V = Version(c) /\ ps = cell[c].patches
  OBVIOUS
<1>5. /\ old \in [version : Nat \cup {-1}, t : State] /\ CopyOf(w, n)
      /\ ps \in Seq(Patches) /\ V = Len(ps) /\ V \in Nat
      /\ cell[c].t = PatchAll(NewTable(c), ps)
  BY <1>2, CopiesAre DEF LayerInv, TypeOK, Tables, Version
<1>6. old.version # -1 =>
        /\ old.version \in 0..V
        /\ old.t = PatchAll(NewTable(c), SubSeq(ps, 1, old.version))
  BY <1>4, <1>5 DEF CopyOf
<1>7. /\ p.v = IF old.version = -1 THEN 0 ELSE old.version
      /\ p.answer = Reply(c, p.v)
  BY <1>1, <1>2 DEF View
<1> PICK a : a = p.answer
  OBVIOUS
<1>8. /\ a.version = V
      /\ a.t = IF p.v \in 1..V THEN <<>> ELSE <<cell[c].t>>
      /\ a.patches = IF p.v \in 1..V THEN SubSeq(ps, p.v + 1, V) ELSE <<>>
  <2>1. Reply(c, p.v) =
          [version |-> V, t |-> IF p.v \in 1..V THEN <<>> ELSE <<cell[c].t>>,
           patches |-> IF p.v \in 1..V THEN SubSeq(ps, p.v + 1, V) ELSE <<>>]
    BY DEF Reply
  <2> PICK x, y : /\ x = IF p.v \in 1..V THEN <<>> ELSE <<cell[c].t>>
                  /\ y = IF p.v \in 1..V THEN SubSeq(ps, p.v + 1, V) ELSE <<>>
    OBVIOUS
  <2>2. a = [version |-> V, t |-> x, patches |-> y]
    BY <1>7, <2>1
  <2>3. a.version = V /\ a.t = x /\ a.patches = y
    BY <2>2
  <2> QED
    BY <2>3
<1>9. CASE old.version = V
  <2>1. old.t = cell[c].t
    <3>1. SubSeq(ps, 1, V) = ps /\ V # -1
      BY <1>5
    <3> QED
      BY <1>5, <1>6, <1>9, <3>1
  <2>2. old = [version |-> V, t |-> cell[c].t]
    BY <1>5, <1>9, <2>1
  <2> QED
    BY <1>2, <1>3, <1>4, <1>8, <1>9, <2>2 DEF UpdateState, Useless
<1>10. CASE old.version # V /\ p.v \notin 1..V
  <2>1. a.t = <<cell[c].t>> /\ a.t # <<>> /\ a.t[1] = cell[c].t
    BY <1>8, <1>10
  <2> QED
    BY <1>2, <1>3, <1>4, <1>8, <1>10, <2>1 DEF UpdateState, Useless
<1>11. CASE old.version # V /\ p.v \in 1..V
  <2>1. /\ old.version # -1 /\ p.v = old.version /\ old.version \in 0..V
        /\ old.version + 1 <= V
    <3> PICK k, u : k = old.version /\ u = p.v
      OBVIOUS
    <3>1. u = IF k = -1 THEN 0 ELSE k
      BY <1>7, Zenon
    <3>2. k # V /\ u \in 1..V
      BY <1>11, Zenon
    <3>3. k # -1
      BY <3>1, <3>2
    <3>4. k \in 0..V
      BY <1>6, <3>3, Zenon
    <3>5. V \in Nat
      BY <1>5, Zenon
    <3>6. u = k /\ k + 1 <= V
      BY <3>1, <3>2, <3>3, <3>4, <3>5
    <3> QED
      BY <3>3, <3>4, <3>6
  <2>2. a.t = <<>> /\ a.patches = SubSeq(ps, old.version + 1, V)
    BY <1>8, <1>11, <2>1
  <2>3. a.patches # <<>>
    <3> PICK m : m = old.version + 1
      OBVIOUS
    <3>1. V = Len(ps) /\ ps \in Seq(Patches) /\ V \in Nat
      BY <1>5
    <3>2. m \in 1..V
      BY <2>1, <3>1
    <3>3. SubSeq(ps, m, V) # <<>>
      BY <3>1, <3>2, RestNotEmpty
    <3> QED
      BY <2>2, <3>3
  <2>4. PatchAll(old.t, a.patches) = cell[c].t
    <3> PICK k : k = old.version
      OBVIOUS
    <3>1. k \in 0..Len(ps)
      BY <1>5, <2>1
    <3>2. PatchAll(PatchAll(NewTable(c), SubSeq(ps, 1, k)), SubSeq(ps, k + 1, Len(ps)))
            = PatchAll(NewTable(c), ps)
      BY <1>5, <3>1, PatchAllTwice
    <3>3. /\ old.t = PatchAll(NewTable(c), SubSeq(ps, 1, k))
          /\ a.patches = SubSeq(ps, k + 1, Len(ps))
      BY <1>5, <1>6, <2>1, <2>2
    <3> QED
      BY <1>5, <3>2, <3>3
  <2> QED
    BY <1>2, <1>3, <1>4, <1>8, <1>11, <2>2, <2>3, <2>4 DEF UpdateState, Useless
<1> QED
  BY <1>9, <1>10, <1>11

SendsAs(rq, r, o, i, K, v) ==
  Send([rq EXCEPT ![r] = o], r, i, K)
    = [rq EXCEPT ![r] = [o EXCEPT !.phase = "query", !.v = v]]

LEMMA SendIs ==
  ASSUME NEW rq, NEW r \in DOMAIN rq, NEW o, NEW i, NEW K, NEW v,
         v = IF K[o.names[i]].version = -1 THEN 0 ELSE K[o.names[i]].version
  PROVE  SendsAs(rq, r, o, i, K, v)
<1> PICK R : R = [rq EXCEPT ![r] = o]
  OBVIOUS
<1>1. R[r] = o /\ DOMAIN R = DOMAIN rq /\ \A s \in DOMAIN rq : s # r => R[s] = rq[s]
  OBVIOUS
<1>2. Send(R, r, i, K) = [[R EXCEPT ![r].phase = "query"] EXCEPT ![r].v = v]
  BY <1>1 DEF Send
<1> PICK o1 : o1 = [o EXCEPT !.phase = "query"]
  OBVIOUS
<1>3. [R EXCEPT ![r].phase = "query"] = [R EXCEPT ![r] = o1]
  BY <1>1
<1> PICK R1 : R1 = [R EXCEPT ![r] = o1]
  OBVIOUS
<1>4. R1[r] = o1 /\ DOMAIN R1 = DOMAIN rq /\ \A s \in DOMAIN rq : s # r => R1[s] = rq[s]
  BY <1>1
<1> PICK o2 : o2 = [o1 EXCEPT !.v = v]
  OBVIOUS
<1>5. Send(R, r, i, K) = [R1 EXCEPT ![r] = o2]
  BY <1>2, <1>3, <1>4
<1>6. [R1 EXCEPT ![r] = o2] = [rq EXCEPT ![r] = o2]
  BY <1>4
<1> QED
  BY <1>5, <1>6 DEF SendsAs

(* What a request is when it has one more state *)
Receives(r, p, n, K, t, ph, v) ==
  /\ K = [copy[p.worker] EXCEPT ![n] = [version |-> Version(<<n, 1>>), t |-> t]]
  /\ copy' = [copy EXCEPT ![p.worker] = K]
  /\ req' = [req EXCEPT ![r] =
       [p EXCEPT !.old = Append(p.old, t),
                 !.answer = NoReply, !.phase = ph, !.v = v]]
  /\ IF Len(p.old) + 1 < Count(p.addrs)
     THEN LET x == K[p.names[Len(p.old) + 2]].version
          IN  ph = "query" /\ v = IF x = -1 THEN 0 ELSE x
     ELSE ph = "work" /\ v = p.v

LEMMA ReceiveIs ==
  ASSUME LayerInv, NEW r \in Requests, Receive(r), MaxMakes = 1,
         NEW p, p = req[r], NEW n, n = NextName(p),
         NEW t, t = cell[<<n, 1>>].t
  PROVE  /\ p.phase = "answered"
         /\ UNCHANGED <<state, locked, waitting, spawned, inbox, cell>>
         /\ \E K, ph, v : Receives(r, p, n, K, t, ph, v)
<1> DEFINE w == p.worker
           i == Len(p.old) + 1
           a == p.answer
           c == <<n, 1>>
           new == [version |-> Version(c), t |-> cell[c].t]
<1>1. /\ p.phase = "answered" /\ req \in [Requests -> Request] /\ p \in Request
      /\ copy \in [Workers -> [Names -> [version : Nat \cup {-1}, t : State]]]
      /\ UNCHANGED <<state, locked, waitting, spawned, inbox, cell>>
  BY DEF Receive, LayerInv, TypeOK
<1>2. /\ n \in Names /\ w \in Workers /\ ~Useless(copy[w][n], a)
      /\ UpdateState(copy[w][n], a) = new
  BY <1>1, UpdateIs
<1>3. n = p.names[i]
  BY DEF NextName
<1> PICK K : K = [copy[w] EXCEPT ![n] = new]
  OBVIOUS
<1> DEFINE R == [req EXCEPT ![r].old = Append(@, K[n].t), ![r].answer = NoReply]
<1>4. K = [copy[w] EXCEPT ![n] = UpdateState(@, a)]
  BY <1>1, <1>2
<1>5. /\ copy' = [copy EXCEPT ![w] = K]
      /\ req' = IF i < Count(p.addrs) THEN Send(R, r, i + 1, K)
                ELSE [R EXCEPT ![r].phase = "work"]
  BY <1>2, <1>3, <1>4, Zenon DEF Receive
<1>6. K[n].t = t /\ copy[w] \in [Names -> [version : Nat \cup {-1}, t : State]]
  BY <1>1, <1>2
<1>7. R = [req EXCEPT ![r] = [p EXCEPT !.old = Append(p.old, t), !.answer = NoReply]]
  <2>1. R = [req EXCEPT ![r].old = Append(@, t), ![r].answer = NoReply]
    BY <1>6
  <2>2. req[r] = p
    OBVIOUS
  <2> HIDE DEF R
  <2>3. R = [req EXCEPT ![r] = [[p EXCEPT !.old = Append(p.old, t)] EXCEPT !.answer = NoReply]]
    BY <1>1, <2>1, <2>2
  <2> QED
    BY <2>3
<1>8. i + 1 = Len(p.old) + 2
  BY <1>1 DEF Request
<1> HIDE DEF R, i
<1>9. CASE i < Count(p.addrs)
  <2> DEFINE x == K[p.names[i + 1]].version
  <2> PICK v : v = IF x = -1 THEN 0 ELSE x
    OBVIOUS
  <2> PICK o : o = [p EXCEPT !.old = Append(p.old, t), !.answer = NoReply]
    OBVIOUS
  <2>1. o.names = p.names /\ R = [req EXCEPT ![r] = o]
    BY <1>1, <1>7 DEF Request
  <2>2. req' = Send(R, r, i + 1, K)
    BY <1>5, <1>9
  <2>3. req' = [req EXCEPT ![r] = [o EXCEPT !.phase = "query", !.v = v]]
    <3> PICK k, rq : k = i + 1 /\ rq = req
      OBVIOUS
    <3>1. /\ r \in DOMAIN rq
          /\ v = IF K[o.names[k]].version = -1 THEN 0 ELSE K[o.names[k]].version
      BY <1>1, <2>1
    <3>2. SendsAs(rq, r, o, k, K, v)
      BY <3>1, SendIs
    <3>3. req' = Send([rq EXCEPT ![r] = o], r, k, K)
      BY <2>1, <2>2
    <3> QED
      BY <3>2, <3>3 DEF SendsAs
  <2>4. v = IF K[p.names[Len(p.old) + 2]].version = -1 THEN 0
            ELSE K[p.names[Len(p.old) + 2]].version
    BY <1>8
  <2> QED
    BY <1>1, <1>5, <1>9, <2>3, <2>4 DEF i, Receives
<1>10. CASE ~(i < Count(p.addrs))
  <2>1. req' = [R EXCEPT ![r].phase = "work"]
    BY <1>5, <1>10
  <2>2. req' = [req EXCEPT ![r] = [p EXCEPT !.old = Append(p.old, t), !.answer = NoReply,
                                            !.phase = "work", !.v = p.v]]
    BY <1>1, <1>7, <2>1 DEF Request
  <2> QED
    BY <1>1, <1>5, <1>10, <2>2 DEF i, Receives
<1> QED
  BY <1>9, <1>10
LEMMA ReceiveKeeps ==
  ASSUME LayerInv, NEW r \in Requests, Receive(r), MaxMakes = 1
  PROVE  LayerInv'
<1> PICK p : p = req[r]
  OBVIOUS
<1> PICK n, w : n = NextName(p) /\ w = p.worker
  OBVIOUS
<1> PICK c : c = <<n, 1>>
  OBVIOUS
<1> PICK t, V : t = cell[c].t /\ V = Version(c)
  OBVIOUS
<1>1. /\ p.phase = "answered" /\ p \in Request /\ Early(p) /\ Addressed(p) /\ View(p)
      /\ p.phase \in Using /\ p.phase \in {"query", "answered"}
      /\ UNCHANGED <<state, locked, waitting, spawned, inbox, cell>>
  BY DEF Receive, LayerInv, TypeOK, RequestsOK, Views, Using
<1>2. /\ n \in Names /\ w \in Workers /\ c \in Cells /\ n \in Owned(p)
      /\ p.addrs[Len(p.old) + 1] = c /\ Len(p.old) + 1 \in DOMAIN p.names
      /\ \A s \in Requests : ~Pending(s, c)
  BY <1>1, UpdateIs
<1>C. PICK K, ph, v : Receives(r, p, n, K, t, ph, v)
  BY ReceiveIs
<1>3. /\ K = [copy[w] EXCEPT ![n] = [version |-> V, t |-> t]]
      /\ copy' = [copy EXCEPT ![w] = K]
  BY <1>C DEF Receives
<1>4. /\ req' = [req EXCEPT ![r] =
           [p EXCEPT !.old = Append(p.old, t),
                     !.answer = NoReply, !.phase = ph, !.v = v]]
      /\ IF Len(p.old) + 1 < Count(p.addrs)
         THEN LET x == K[p.names[Len(p.old) + 2]].version
              IN  ph = "query" /\ v = IF x = -1 THEN 0 ELSE x
         ELSE ph = "work" /\ v = p.v
  BY <1>C DEF Receives
<1>A. PICK q : q = [p EXCEPT !.old = Append(p.old, t), !.answer = NoReply,
                             !.phase = ph, !.v = v]
  OBVIOUS
<1>B. PICK k : k = Len(p.old)
  OBVIOUS
<1>5. req' = [req EXCEPT ![r] = q]
  BY <1>4, <1>A
<1>6. /\ t \in State /\ V \in Nat /\ V = Len(cell[c].patches)
      /\ cell[c].patches \in Seq(Patches)
      /\ t = PatchAll(NewTable(c), cell[c].patches)
      /\ copy[w] \in [Names -> [version : Nat \cup {-1}, t : State]]
      /\ copy \in [Workers -> [Names -> [version : Nat \cup {-1}, t : State]]]
  BY <1>2 DEF LayerInv, TypeOK, Tables, Version
<1>7. /\ K \in [Names -> [version : Nat \cup {-1}, t : State]]
      /\ K[n] = [version |-> V, t |-> t]
      /\ \A m \in Names : m # n => K[m] = copy[w][m]
  BY <1>2, <1>3, <1>6
<1>8. /\ copy' \in [Workers -> [Names -> [version : Nat \cup {-1}, t : State]]]
      /\ copy'[w] = K /\ \A u \in Workers : u # w => copy'[u] = copy[u]
  BY <1>2, <1>3, <1>6, <1>7
<1>9. /\ p.names \in Seq(Names) /\ p.addrs \in Seq(Cells \cup {Nil})
      /\ Len(p.addrs) = Len(p.names) /\ p.old \in Seq(State) /\ k \in Nat
      /\ DOMAIN p.old = 1..k /\ Count(p.addrs) \in 0..Len(p.addrs) /\ k < Count(p.addrs)
      /\ p.todo = {} /\ p.v \in Nat
  <2>1. p.names \in Seq(Names) /\ p.addrs \in Seq(Cells \cup {Nil}) /\ p.old \in Seq(State)
        /\ p.v \in Nat
    BY <1>1 DEF Request
  <2>2. Count(p.addrs) \in 0..Len(p.addrs)
    BY <2>1, CountIs
  <2> QED
    BY <1>1, <1>B, <2>1, <2>2 DEF Addressed
<1>10. \A i, j \in DOMAIN p.names : p.names[i] = p.names[j] => i = j
  BY <1>1, StarreAssumption DEF Addressed, IsInjective
<1>11. /\ ph \in {"query", "work"} /\ v \in Nat
       /\ ph = "query" => /\ k + 1 < Count(p.addrs)
                          /\ LET x == K[p.names[k + 2]].version
                             IN  v = IF x = -1 THEN 0 ELSE x
       /\ ph = "work" => k + 1 = Count(p.addrs)
  <2>1. CASE k + 1 < Count(p.addrs)
    <3>1. ph = "query" /\ LET x == K[p.names[k + 2]].version
                          IN  v = IF x = -1 THEN 0 ELSE x
      BY <1>4, <1>B, <2>1
    <3>2. p.names[k + 2] \in Names
      BY <1>9, <2>1
    <3>3. K[p.names[k + 2]].version \in Nat \cup {-1}
      BY <1>7, <3>2
    <3> QED
      BY <2>1, <3>1, <3>3
  <2>2. CASE ~(k + 1 < Count(p.addrs))
    <3>1. ph = "work" /\ v = p.v
      BY <1>4, <1>B, <2>2
    <3> QED
      BY <1>9, <2>2, <3>1
  <2> QED
    BY <2>1, <2>2
<1>12. NoReply \in [version : Nat, t : Seq(State), patches : Seq(Patches)]
  BY DEF NoReply
<1>13. q \in Request
  <2> PICK x, y : x = Append(p.old, t) /\ y = NoReply
    OBVIOUS
  <2>1. /\ x \in Seq(State) /\ y \in [version : Nat, t : Seq(State), patches : Seq(Patches)]
        /\ ph \in Phase /\ v \in Nat
    BY <1>6, <1>9, <1>11, <1>12 DEF Phase
  <2>2. q = [p EXCEPT !.old = x, !.answer = y, !.phase = ph, !.v = v]
    BY <1>A
  <2> QED
    BY <1>1, <2>1, <2>2 DEF Request
<1>14. /\ Kept(q, [p EXCEPT !.old = q.old]) /\ q.old = Append(p.old, t) /\ q.phase = ph
       /\ q.v = v /\ q.todo = p.todo /\ q.addrs = p.addrs /\ q.answer = NoReply
       /\ q.worker = p.worker /\ q.call = p.call /\ q.names = p.names /\ q.patch = p.patch
  BY <1>1, <1>A DEF Kept, Request
<1>15. /\ Len(q.old) = k + 1 /\ DOMAIN q.old = 1..(k + 1) /\ q.old[k + 1] = t
       /\ \A j \in 1..k : q.old[j] = p.old[j]
  BY <1>6, <1>9, <1>14, <1>B
<1>16. q.phase \in Using /\ q.phase \in {"query", "work"}
  BY <1>11, <1>14 DEF Using
<1>17. Early(q)
  BY <1>1, <1>14, <1>16 DEF Early, Using
<1>18. Addressed(q)
  <2>1. q.phase = "query" => Len(q.old) < Count(q.addrs)
    BY <1>11, <1>14, <1>15
  <2>2. q.phase = "work" => Len(q.old) = Count(q.addrs) /\ q.old # <<>>
    BY <1>9, <1>11, <1>14, <1>15
  <2> QED
    BY <1>1, <1>9, <1>14, <1>16, <2>1, <2>2 DEF Addressed, Using, Closing
<1>19. Owned(q) = Owned(p)
  BY <1>1, <1>14, <1>16 DEF Owned
<1>20. View(q)'
  <2>1. ASSUME NEW j \in DOMAIN q.old
        PROVE  /\ q.old[j] = cell'[q.addrs[j]].t
               /\ copy'[q.worker][q.names[j]] =
                    [version |-> Version(q.addrs[j])', t |-> cell'[q.addrs[j]].t]
    <3>1. CASE j = k + 1
      <4>1. q.addrs[j] = c /\ q.names[j] = n
        BY <1>2, <1>14, <1>B, <3>1 DEF NextName
      <4> QED
        BY <1>1, <1>7, <1>8, <1>14, <1>15, <3>1, <4>1 DEF Version
    <3>2. CASE j \in 1..k
      <4>1. /\ p.old[j] = cell[p.addrs[j]].t
            /\ copy[w][p.names[j]] =
                 [version |-> Version(p.addrs[j]), t |-> cell[p.addrs[j]].t]
        BY <1>1, <1>9, <3>2 DEF View
      <4>2. /\ j \in DOMAIN p.names /\ p.names[j] \in Names /\ j # k + 1
            /\ k + 1 \in DOMAIN p.names /\ p.names[k + 1] = n
        <5>1. k + 1 \in DOMAIN p.names /\ p.names[k + 1] = n
          BY <1>2, <1>B DEF NextName
        <5> QED
          BY <1>9, <3>2, <5>1
      <4>3. copy'[w][p.names[j]] = copy[w][p.names[j]]
        BY <1>7, <1>8, <1>10, <4>2
      <4>4. Version(p.addrs[j])' = Version(p.addrs[j]) /\ cell' = cell
        BY <1>1 DEF Version
      <4>5. /\ q.old[j] = p.old[j] /\ q.addrs[j] = p.addrs[j]
            /\ copy'[q.worker][q.names[j]] = copy'[w][p.names[j]]
        BY <1>1, <1>14, <1>15, <3>2
      <4> QED
        BY <4>1, <4>3, <4>4, <4>5
    <3> QED
      BY <1>9, <1>15, <3>1, <3>2
  <2>2. q.phase = "query" =>
          LET x == copy'[q.worker][q.names[Len(q.old) + 1]].version
          IN  q.v = IF x = -1 THEN 0 ELSE x
    <3>1. Len(q.old) + 1 = k + 2
      BY <1>9, <1>15
    <3> QED
      BY <1>8, <1>11, <1>14, <3>1
  <2> QED
    BY <1>16, <2>1, <2>2 DEF View
<1>21. /\ req' \in [Requests -> Request] /\ RequestsOK' /\ Queued' /\ Locks'
       /\ inbox' \in Seq(Requests) /\ req'[r] = q
       /\ \A s \in Requests : s # r => req'[s] = req[s]
  <2>1. p.phase \notin {"called", "waitting", "unlock"} /\ Owned(q) \subseteq Owned(p)
    BY <1>1, <1>19
  <2> QED
    BY <1>1, <1>5, <1>13, <1>17, <1>18, <2>1, StepRequests
<1>22. Made'
  BY <1>1, <1>5, <1>13, <1>14, <1>16, StepMade
<1>23. Tables'
  BY <1>1 DEF LayerInv, Tables
<1>24. ASSUME NEW u \in Workers, NEW m \in Names PROVE CopyOf(u, m)'
  <2>1. CopyOf(u, m) /\ <<m, 1>> \in Cells
    BY CopiesAre, OneCell DEF LayerInv
  <2>2. CASE u = w /\ m = n
    <3>1. copy'[u][m] = [version |-> V, t |-> t]
      BY <1>7, <1>8, <2>2
    <3>2. V <= Version(c)' /\ cell' = cell
      BY <1>1, <1>6 DEF Version
    <3>3. SubSeq(cell[c].patches, 1, V) = cell[c].patches
      BY <1>6
    <3>4. copy'[u][m].t = PatchAll(NewTable(c), SubSeq(cell'[c].patches, 1, V))
      <4>1. copy'[u][m].t = t
        BY <3>1
      <4>2. SubSeq(cell'[c].patches, 1, V) = cell[c].patches
        BY <3>2, <3>3
      <4> QED
        BY <1>6, <4>1, <4>2
    <3> QED
      BY <2>2, <3>1, <3>2, <3>4 DEF CopyOf
  <2>3. CASE ~(u = w /\ m = n)
    <3>1. copy'[u][m] = copy[u][m]
      BY <1>7, <1>8, <2>3
    <3>2. ASSUME NEW s \in Requests, Pending(s, <<m, 1>>)
          PROVE  /\ Pending(s, <<m, 1>>)' /\ req'[s].worker = req[s].worker
                 /\ req'[s].patch = req[s].patch
      <4>1. s # r
        BY <1>9, <3>2 DEF Pending
      <4> QED
        BY <1>21, <3>2, <4>1 DEF Pending
    <3> QED
      BY <1>1, <2>1, <3>1, <3>2, CopyKept
  <2> QED
    BY <2>2, <2>3
<1>25. CopyIsAVersion'
  BY <1>24 DEF CopyIsAVersion, CopyOf
<1>26. Views'
  <2>1. ASSUME NEW s \in Requests PROVE View(req[s])'
    <3>1. CASE s = r
      BY <1>20, <1>21, <3>1, ViewOf
    <3>2. CASE s # r
      <4> PICK o : o = req[s]
        OBVIOUS
      <4>1. View(o) /\ o \in Request /\ Addressed(o) /\ o.worker \in Workers
        BY DEF LayerInv, TypeOK, RequestsOK, Views, Request
      <4>2. n \notin Owned(o)
        BY <1>2, <3>2 DEF LayerInv, Locks
      <4>3. \A m \in Owned(o) : m \in Names /\ m # n
        BY <4>2 DEF Owned
      <4>4. \A m \in Owned(o) : copy'[o.worker][m] = copy[o.worker][m]
        BY <1>7, <1>8, <4>1, <4>3
      <4>5. View(o)'
        BY <1>1, <4>1, <4>4, ViewKept
      <4> QED
        BY <1>21, <3>2, <4>5, ViewOf
    <3> QED
      BY <3>1, <3>2
  <2> QED
    BY <2>1 DEF Views
<1>27. Bounded'
  <2>1. \A s \in Requests : req'[s].call = req[s].call /\ req'[s].patch = req[s].patch
    BY <1>14, <1>21
  <2>2. Closed' = Closed
    BY <2>1 DEF Closed
  <2> QED
    BY <1>1, <2>1, <2>2 DEF LayerInv, Bounded
<1>28. TypeOK'
  BY <1>1, <1>8, <1>21 DEF LayerInv, TypeOK
<1> QED
  BY <1>21, <1>22, <1>23, <1>25, <1>26, <1>27, <1>28 DEF LayerInv
(* What a request makes of its states when it closes: of the states changed (ch)
   the differences (pt), and the copies its worker will have. *)
Closes(r, p, fs, ch, pt, ph) ==
  /\ fs \in [1..Len(p.old) -> Edits]
  /\ ch = {p.names[i] : i \in {j \in 1..Len(p.old) : fs[j] # {}}}
  /\ pt = [n \in ch |-> pt[n]]
  /\ \A i \in 1..Len(p.old) : fs[i] # {} =>
       /\ pt[p.names[i]] = Diff(p.old[i], Edit(p.old[i], fs[i]))
       /\ copy'[p.worker][p.names[i]] =
            Advance(copy[p.worker][p.names[i]], Edit(p.old[i], fs[i]))
  /\ \A m \in Names \ ch : copy'[p.worker][m] = copy[p.worker][m]
  /\ \A u \in Workers : u # p.worker => copy'[u] = copy[u]
  /\ copy' = [u \in Workers |-> copy'[u]]
  /\ copy'[p.worker] = [n \in Names |-> copy'[p.worker][n]]
  /\ req' = [req EXCEPT ![r] = [p EXCEPT !.phase = ph, !.call = "unlock",
                                         !.todo = NamesOf(p.names), !.patch = pt]]
  /\ \/ ph = "unlock" /\ Len(p.old) = Len(p.names) /\ inbox' = Append(inbox, r)
     \/ ph = "failed" /\ inbox' = inbox

LEMMA CloseIs ==
  ASSUME LayerInv, NEW r \in Requests, Close(r), MaxMakes = 1, NEW p, p = req[r]
  PROVE  /\ p.phase = "work"
         /\ UNCHANGED <<state, locked, waitting, spawned, cell>>
         /\ \E fs, ch, pt, ph : Closes(r, p, fs, ch, pt, ph)
<1> DEFINE k == Len(req[r].old)
           w == req[r].worker
<1>1. /\ p.phase = "work" /\ p \in Request /\ Addressed(p) /\ p.phase \in Using
      /\ UNCHANGED <<state, locked, waitting, spawned, cell>>
      /\ req \in [Requests -> Request] /\ w \in Workers
      /\ copy \in [Workers -> [Names -> [version : Nat \cup {-1}, t : State]]]
  BY DEF Close, LayerInv, TypeOK, RequestsOK, Using, Request
<1>2. k \in Nat /\ DOMAIN p.old = 1..k /\ \A i \in 1..k : i \in DOMAIN p.names /\ p.names[i] \in Names
  <2>1. \A i \in DOMAIN p.old : i \in DOMAIN p.names /\ p.names[i] \in Names
    BY <1>1, SeenCells
  <2>2. k \in Nat /\ DOMAIN p.old = 1..k
    BY <1>1 DEF Request
  <2> QED
    BY <2>1, <2>2
<1>3. \A i, j \in DOMAIN p.names : p.names[i] = p.names[j] => i = j
  BY <1>1, StarreAssumption DEF Addressed, IsInjective
<1> DEFINE New1(fs) == [i \in 1..k |-> Edit(req[r].old[i], fs[i])]
           Index(n) == CHOOSE i \in 1..k : req[r].names[i] = n
           Changed(fs) == {req[r].names[i] : i \in {j \in 1..k : fs[j] # {}}}
           Sent == k = Len(req[r].names) /\ Len(inbox) < QueueLen
<1>4. PICK fs \in [1..k -> Edits] :
        /\ copy' = [copy EXCEPT ![w] = [n \in Names |->
             IF n \in Changed(fs) THEN Advance(@[n], New1(fs)[Index(n)]) ELSE @[n]]]
        /\ req' = [req EXCEPT
             ![r].phase = IF Sent THEN "unlock" ELSE "failed",
             ![r].call = "unlock",
             ![r].todo = NamesOf(req[r].names),
             ![r].patch = [n \in Changed(fs) |->
                             Diff(req[r].old[Index(n)], New1(fs)[Index(n)])]]
        /\ inbox' = IF Sent THEN Append(inbox, r) ELSE inbox
  BY DEF Close
<1> PICK ch, pt, ph, K :
        /\ ch = Changed(fs)
        /\ pt = [n \in ch |-> Diff(req[r].old[Index(n)], New1(fs)[Index(n)])]
        /\ ph = IF Sent THEN "unlock" ELSE "failed"
        /\ K = [n \in Names |->
                  IF n \in ch THEN Advance(copy[w][n], New1(fs)[Index(n)]) ELSE copy[w][n]]
  OBVIOUS
<1>5. \A i \in 1..k : Index(p.names[i]) = i
  BY <1>2, <1>3
<1>6. copy' = [copy EXCEPT ![w] = K]
  BY <1>1, <1>4
<1>7. /\ \A i \in 1..k : fs[i] # {} => p.names[i] \in ch
      /\ \A i \in 1..k : New1(fs)[i] = Edit(p.old[i], fs[i])
      /\ ch \subseteq Names
  BY <1>2
<1> HIDE DEF Index, New1, Changed
<1>8. \A i \in 1..k : fs[i] # {} =>
       /\ pt[p.names[i]] = Diff(p.old[i], Edit(p.old[i], fs[i]))
       /\ copy'[w][p.names[i]] = Advance(copy[w][p.names[i]], Edit(p.old[i], fs[i]))
  BY <1>1, <1>5, <1>6, <1>7
<1>9. /\ \A m \in Names \ ch : copy'[w][m] = copy[w][m]
      /\ \A u \in Workers : u # w => copy'[u] = copy[u]
      /\ copy' = [u \in Workers |-> copy'[u]] /\ copy'[w] = K /\ DOMAIN pt = ch
  BY <1>1, <1>6
<1>14. copy'[w] = [n \in Names |-> copy'[w][n]] /\ pt = [n \in ch |-> pt[n]]
  BY <1>9
<1>10. req' = [req EXCEPT ![r] = [p EXCEPT !.phase = ph, !.call = "unlock",
                                          !.todo = NamesOf(p.names), !.patch = pt]]
  <2>1. req' = [req EXCEPT ![r].phase = ph, ![r].call = "unlock",
                           ![r].todo = NamesOf(p.names), ![r].patch = pt]
    BY <1>4
  <2> QED
    BY <1>1, <2>1
<1>11. \/ ph = "unlock" /\ k = Len(p.names) /\ inbox' = Append(inbox, r)
       \/ ph = "failed" /\ inbox' = inbox
  BY <1>4
<1>12. ch = {p.names[i] : i \in {j \in 1..k : fs[j] # {}}}
  BY DEF Changed
<1>13. Closes(r, p, fs, ch, pt, ph)
  BY <1>4, <1>8, <1>9, <1>10, <1>11, <1>12, <1>14, ZenonT(30) DEF Closes
<1> QED
  BY <1>1, <1>13

(* A request closes once. *)
LEMMA OneMoreClosed ==
  ASSUME LayerInv, NEW r \in Requests, req[r].phase = "work",
         req'[r].call = "unlock", \A s \in Requests : s # r => req'[s] = req[s]
  PROVE  /\ Cardinality(Closed) \in Nat /\ Cardinality(Closed)' = Cardinality(Closed) + 1
         /\ Cardinality(Closed) + 1 <= Cardinality(Requests) /\ Cardinality(Requests) \in Nat
<1>1. req[r].call # "unlock"
  BY DEF LayerInv, RequestsOK, Early, Using
<1>2. Closed' = Closed \cup {r} /\ r \notin Closed /\ Closed \subseteq Requests
      /\ Closed' \subseteq Requests
  BY <1>1 DEF Closed
<1>3. IsFiniteSet(Closed) /\ IsFiniteSet(Requests)
  BY <1>2, FS_Subset, StarreAssumption
<1>4. Cardinality(Closed \cup {r}) = Cardinality(Closed) + 1
  BY <1>2, <1>3, FS_AddElement
<1>5. Cardinality(Closed) \in Nat /\ Cardinality(Requests) \in Nat
  BY <1>3, FS_CardinalityType
<1>6. Cardinality(Closed \cup {r}) <= Cardinality(Requests)
  BY <1>2, <1>3, FS_Subset
<1> QED
  BY <1>2, <1>4, <1>5, <1>6
LEMMA EditIs ==
  ASSUME NEW t \in State, NEW F \in Edits, NEW B \in Nat, NEW R \in Nat, B + 1 <= R,
         R = Cardinality(Requests), \A f \in Fields : t[f] <= B
  PROVE  /\ Edit(t, F) \in State /\ \A f \in Fields : Edit(t, F)[f] <= B + 1
         /\ Diff(t, Edit(t, F)) \in Patches
         /\ \A f \in DOMAIN Diff(t, Edit(t, F)) : Diff(t, Edit(t, F))[f] <= B + 1
<1> PICK e : e = Edit(t, F)
  OBVIOUS
<1>1. /\ \A f \in Fields : t[f] \in Nat /\ t[f] <= B
      /\ R + MaxMakes \in Nat /\ B + 1 <= R + MaxMakes /\ Numbers = 0..(R + MaxMakes)
  BY StarreAssumption DEF State, Numbers
<1>2. \A f \in Fields : e[f] \in Nat /\ e[f] <= B + 1 /\ e[f] \in Numbers
  BY <1>1 DEF Edit
<1>3. e \in State
  BY <1>2 DEF Edit, State
<1> PICK d : d = Diff(t, e)
  OBVIOUS
<1>4. /\ DOMAIN d \subseteq Fields /\ \A f \in DOMAIN d : d[f] = e[f]
      /\ d = [f \in DOMAIN d |-> d[f]]
  BY DEF Diff
<1>5. d \in [DOMAIN d -> Numbers]
  BY <1>2, <1>4
<1>6. d \in Patches
  BY <1>4, <1>5 DEF Patches
<1>7. \A f \in DOMAIN d : d[f] <= B + 1
  BY <1>2, <1>4
<1> QED
  BY <1>2, <1>3, <1>6, <1>7

(* What a request has when it closes. *)
WorkOf(p) ==
  /\ Len(p.old) \in Nat /\ DOMAIN p.old = 1..Len(p.old) /\ p.worker \in Workers
  /\ p.todo = {}
  /\ \A i \in 1..Len(p.old) :
       /\ p.names[i] \in Names /\ p.addrs[i] = <<p.names[i], 1>>
       /\ p.addrs[i] \in Cells /\ p.names[i] \in Owned(p)
       /\ i \in DOMAIN p.names /\ i \in DOMAIN p.addrs
       /\ p.old[i] = cell[p.addrs[i]].t
       /\ copy[p.worker][p.names[i]] =
            [version |-> Version(p.addrs[i]), t |-> cell[p.addrs[i]].t]
  /\ Len(p.old) = Len(p.names) =>
       \A i \in DOMAIN p.addrs : i \in 1..Len(p.old) /\ p.addrs[i] # Nil
  /\ \A i, j \in DOMAIN p.names : p.names[i] = p.names[j] => i = j

(* A request that works works on what the cells have. *)
LEMMA WorksOn ==
  ASSUME LayerInv, NEW r \in Requests, MaxMakes = 1, NEW p, p = req[r], p.phase = "work"
  PROVE  WorkOf(p)
<1>1. /\ p \in Request /\ Addressed(p) /\ View(p) /\ p.phase \in Using
      /\ p.addrs \in Seq(Cells \cup {Nil}) /\ p.names \in Seq(Names)
  BY DEF LayerInv, TypeOK, RequestsOK, Views, Using, Request
<1>2. /\ Len(p.old) \in Nat /\ DOMAIN p.old = 1..Len(p.old) /\ p.worker \in Workers
      /\ p.todo = {}
  BY <1>1 DEF Request, Addressed
<1>3. \A i \in 1..Len(p.old) :
        /\ p.names[i] \in Names /\ p.addrs[i] = <<p.names[i], 1>> /\ p.addrs[i] \in Cells
        /\ i \in DOMAIN p.names /\ i \in DOMAIN p.addrs
  BY <1>1, <1>2, SeenCells
<1>4. \A i \in 1..Len(p.old) : p.names[i] \in Owned(p)
  BY <1>1, <1>3 DEF Owned
<1>5. \A i \in 1..Len(p.old) :
        /\ p.old[i] = cell[p.addrs[i]].t
        /\ copy[p.worker][p.names[i]] =
             [version |-> Version(p.addrs[i]), t |-> cell[p.addrs[i]].t]
  BY <1>1, <1>2 DEF View
<1>6. Len(p.old) = Len(p.names) =>
        \A i \in DOMAIN p.addrs : i \in 1..Len(p.old) /\ p.addrs[i] # Nil
  <2>1. Len(p.addrs) = Len(p.names)
    BY <1>1 DEF Addressed
  <2> QED
    BY <1>1, <1>3, <2>1, StarreNil
<1>7. \A i, j \in DOMAIN p.names : p.names[i] = p.names[j] => i = j
  BY <1>1, StarreAssumption DEF Addressed, IsInjective
<1> QED
  BY <1>2, <1>3, <1>4, <1>5, <1>6, <1>7 DEF WorkOf

LEMMA CloseKeeps ==
  ASSUME LayerInv, NEW r \in Requests, Close(r), MaxMakes = 1
  PROVE  LayerInv'
<1>A. PICK p : p = req[r]
  OBVIOUS
<1>1. /\ p.phase = "work" /\ p \in Request /\ Early(p) /\ Addressed(p) /\ p.phase \in Using
      /\ UNCHANGED <<state, locked, waitting, spawned, cell>>
      /\ req \in [Requests -> Request]
      /\ copy \in [Workers -> [Names -> [version : Nat \cup {-1}, t : State]]]
      /\ cell \in [Cells -> [t : State, patches : Seq(Patches),
                             status : {"none", "up", "leaving", "gone"}]]
  BY <1>A DEF Close, LayerInv, TypeOK, RequestsOK, Using
<1>2. PICK fs, ch, pt, ph : Closes(r, p, fs, ch, pt, ph)
  BY <1>A, CloseIs
<1>B. PICK w, k : w = p.worker /\ k = Len(p.old)
  OBVIOUS
<1>3. /\ k \in Nat /\ DOMAIN p.old = 1..k /\ w \in Workers /\ p.todo = {}
      /\ \A i \in 1..k :
           /\ p.names[i] \in Names /\ p.addrs[i] = <<p.names[i], 1>>
           /\ p.addrs[i] \in Cells /\ p.names[i] \in Owned(p)
           /\ i \in DOMAIN p.names /\ i \in DOMAIN p.addrs
           /\ p.old[i] = cell[p.addrs[i]].t
           /\ copy[w][p.names[i]] =
                [version |-> Version(p.addrs[i]), t |-> cell[p.addrs[i]].t]
      /\ k = Len(p.names) => \A i \in DOMAIN p.addrs : i \in 1..k /\ p.addrs[i] # Nil
  <2>1. /\ Len(p.old) \in Nat /\ DOMAIN p.old = 1..Len(p.old) /\ p.worker \in Workers
        /\ p.todo = {}
        /\ \A i \in 1..Len(p.old) :
             /\ p.names[i] \in Names /\ p.addrs[i] = <<p.names[i], 1>>
             /\ p.addrs[i] \in Cells /\ p.names[i] \in Owned(p)
             /\ i \in DOMAIN p.names /\ i \in DOMAIN p.addrs
             /\ p.old[i] = cell[p.addrs[i]].t
             /\ copy[p.worker][p.names[i]] =
                  [version |-> Version(p.addrs[i]), t |-> cell[p.addrs[i]].t]
        /\ Len(p.old) = Len(p.names) =>
             \A i \in DOMAIN p.addrs : i \in 1..Len(p.old) /\ p.addrs[i] # Nil
    <3>1. p = req[r] /\ p.phase = "work"
      BY <1>1, <1>A
    <3>2. WorkOf(p)
      BY <3>1, WorksOn
    <3> QED
      BY <3>2 DEF WorkOf
  <2> QED
    BY <1>B, <2>1
<1>4. /\ fs \in [1..k -> Edits] /\ ch = {p.names[i] : i \in {j \in 1..k : fs[j] # {}}}
      /\ pt = [n \in ch |-> pt[n]] /\ DOMAIN pt = ch
      /\ \A i \in 1..k : fs[i] # {} =>
           /\ pt[p.names[i]] = Diff(p.old[i], Edit(p.old[i], fs[i]))
           /\ copy'[w][p.names[i]] = Advance(copy[w][p.names[i]], Edit(p.old[i], fs[i]))
      /\ \A m \in Names \ ch : copy'[w][m] = copy[w][m]
      /\ \A u \in Workers : u # w => copy'[u] = copy[u]
      /\ copy' = [u \in Workers |-> copy'[u]]
      /\ copy'[w] = [n \in Names |-> copy'[w][n]]
      /\ \/ ph = "unlock" /\ k = Len(p.names) /\ inbox' = Append(inbox, r)
         \/ ph = "failed" /\ inbox' = inbox
  BY <1>2, <1>B DEF Closes
<1>C. PICK q : q = [p EXCEPT !.phase = ph, !.call = "unlock",
                             !.todo = NamesOf(p.names), !.patch = pt]
  OBVIOUS
<1>5. req' = [req EXCEPT ![r] = q]
  BY <1>2, <1>C DEF Closes
<1>6. req'[r] = q /\ \A s \in Requests : s # r => req'[s] = req[s]
  BY <1>1, <1>5
<1>D. PICK B, R : B = Cardinality(Closed) /\ R = Cardinality(Requests)
  OBVIOUS
<1>7. B \in Nat /\ Cardinality(Closed)' = B + 1 /\ B + 1 <= R /\ R \in Nat
  <2>1. q.call = "unlock"
    BY <1>1, <1>C DEF Request
  <2> QED
    BY <1>1, <1>A, <1>D, <1>6, <2>1, OneMoreClosed
<1>8. \A i \in 1..k : LET e == Edit(p.old[i], fs[i])
                      IN  /\ e \in State /\ \A f \in Fields : e[f] <= B + 1
                          /\ Diff(p.old[i], e) \in Patches
                          /\ \A f \in DOMAIN Diff(p.old[i], e) :
                               Diff(p.old[i], e)[f] <= B + 1
  <2> SUFFICES ASSUME NEW i \in 1..k
               PROVE  LET e == Edit(p.old[i], fs[i])
                      IN  /\ e \in State /\ \A f \in Fields : e[f] <= B + 1
                          /\ Diff(p.old[i], e) \in Patches
                          /\ \A f \in DOMAIN Diff(p.old[i], e) :
                               Diff(p.old[i], e)[f] <= B + 1
    OBVIOUS
  <2>1. /\ p.old[i] \in State /\ fs[i] \in Edits
        /\ \A f \in Fields : p.old[i][f] <= B
    BY <1>1, <1>3, <1>4, <1>D, ZenonT(40) DEF LayerInv, Bounded
  <2> QED
    BY <1>7, <1>D, <2>1, EditIs
<1>9. \A n \in ch : \E i \in 1..k : n = p.names[i] /\ fs[i] # {}
  BY <1>4
<1>10. /\ \A n \in ch : n \in Names /\ n \in Owned(p) /\ n \in NamesOf(p.names)
                        /\ pt[n] \in Patches /\ \A f \in DOMAIN pt[n] : pt[n][f] <= B + 1
  <2> SUFFICES ASSUME NEW n \in ch
               PROVE  n \in Names /\ n \in Owned(p) /\ n \in NamesOf(p.names)
                      /\ pt[n] \in Patches /\ \A f \in DOMAIN pt[n] : pt[n][f] <= B + 1
    OBVIOUS
  <2>1. PICK i \in 1..k : n = p.names[i] /\ fs[i] # {}
    BY <1>9
  <2>2. n \in Names /\ n \in Owned(p) /\ n \in NamesOf(p.names)
    BY <1>3, <2>1 DEF NamesOf
  <2>3. pt[n] = Diff(p.old[i], Edit(p.old[i], fs[i]))
    BY <1>4, <2>1
  <2> QED
    BY <1>8, <2>2, <2>3
<1>11. pt \in UNION {[N -> Patches] : N \in SUBSET Names}
  <2>1. pt \in [ch -> Patches] /\ ch \subseteq Names
    BY <1>4, <1>10
  <2> QED
    BY <2>1
<1>12. NamesOf(p.names) \subseteq Names
  BY <1>1 DEF Request, NamesOf
<1>13. q \in Request
  <2> PICK td : td = NamesOf(p.names)
    OBVIOUS
  <2>1. ph \in Phase /\ td \in SUBSET Names
    BY <1>4, <1>12 DEF Phase
  <2>2. q = [p EXCEPT !.phase = ph, !.call = "unlock", !.todo = td, !.patch = pt]
    BY <1>C
  <2> QED
    BY <1>1, <1>11, <2>1, <2>2 DEF Request
<1>14. /\ q.phase = ph /\ q.call = "unlock" /\ q.todo = NamesOf(p.names) /\ q.patch = pt
       /\ q.addrs = p.addrs /\ q.names = p.names /\ q.worker = p.worker /\ q.old = p.old
  BY <1>1, <1>C DEF Request
<1>15. Early(q)
  BY <1>4, <1>14 DEF Early, Using
<1>16. Addressed(q)
  <2>1. /\ p.names \in Queries /\ Len(p.addrs) = Len(p.names)
        /\ \A i \in DOMAIN p.addrs : p.addrs[i] \in {Nil, <<p.names[i], 1>>}
    BY <1>1 DEF Addressed
  <2>2. DOMAIN pt \subseteq NamesOf(p.names)
    BY <1>4, <1>10
  <2>3. ph = "unlock" => \A i \in DOMAIN p.addrs : p.addrs[i] # Nil
    BY <1>3, <1>4
  <2>4. ph \in {"unlock", "failed"}
    BY <1>4
  <2> QED
    BY <1>14, <2>1, <2>2, <2>3, <2>4 DEF Addressed, Using, Closing
<1>17. Owned(q) \subseteq Owned(p)
  BY <1>1, <1>14 DEF Owned
<1>18. /\ req' \in [Requests -> Request] /\ RequestsOK' /\ Queued' /\ Locks'
       /\ inbox' \in Seq(Requests)
  <2>1. p.phase \notin {"called", "waitting", "unlock"}
    BY <1>1
  <2>2. inbox' = inbox \/ (inbox' = Append(inbox, r) /\ q.phase \in {"called", "unlock"})
    BY <1>4, <1>14
  <2> QED
    BY <1>1, <1>5, <1>13, <1>15, <1>16, <1>17, <1>A, <2>1, <2>2, StepRequests
<1>19. Made'
  <2>1. p.call # "newstate" /\ q.phase \notin {"called", "spawning"}
    BY <1>1, <1>4, <1>14 DEF Early
  <2> QED
    BY <1>1, <1>5, <1>13, <1>14, <1>A, <2>1, StepMade
<1>20. Tables'
  BY <1>1 DEF LayerInv, Tables
<1>21. ASSUME NEW u \in Workers, NEW m \in Names PROVE CopyOf(u, m)'
  <2>1. CopyOf(u, m) /\ <<m, 1>> \in Cells
    BY CopiesAre, OneCell DEF LayerInv
  <2>2. CASE u = w /\ m \in ch
    <3>1. PICK i \in 1..k : m = p.names[i] /\ fs[i] # {}
      BY <1>9, <2>2
    <3>2. PICK e, c : e = Edit(p.old[i], fs[i]) /\ c = <<m, 1>>
      OBVIOUS
    <3>3. /\ copy'[w][m] = Advance(copy[w][m], e) /\ pt[m] = Diff(p.old[i], e)
          /\ copy[w][m] = [version |-> Version(c), t |-> cell[c].t]
          /\ p.old[i] = cell[c].t /\ e \in State /\ p.addrs[i] = c
          /\ i \in DOMAIN p.addrs
      BY <1>3, <1>4, <1>8, <3>1, <3>2, ZenonT(40)
    <3>4. copy'[w][m].version = Version(c) + 1 /\ copy'[w][m].t = e
      BY <3>3 DEF Advance
    <3>5. Version(c)' = Version(c) /\ cell' = cell
      BY <1>1 DEF Version
    <3>6. e = Patch(cell'[c].t, req'[r].patch[m])
      BY <1>6, <1>14, <3>3, <3>5, PatchDiff
    <3>7. Pending(r, c)' /\ req'[r].worker = w
      <4>1. m \in NamesOf(p.names) /\ c[1] = m
        BY <1>10, <2>2, <3>2
      <4>2. m \in q.todo \cap DOMAIN q.patch /\ q.phase # "patched"
        BY <1>4, <1>14, <2>2, <4>1
      <4>3. \E j \in DOMAIN q.addrs : q.addrs[j] = c
        BY <1>14, <3>3
      <4> QED
        BY <1>6, <1>14, <1>B, <4>1, <4>2, <4>3 DEF Pending
    <3> QED
      BY <2>2, <3>2, <3>4, <3>5, <3>6, <3>7 DEF CopyOf
  <2>3. CASE ~(u = w /\ m \in ch)
    <3>1. copy'[u][m] = copy[u][m]
      BY <1>4, <2>3
    <3>2. ASSUME NEW s \in Requests, Pending(s, <<m, 1>>)
          PROVE  /\ Pending(s, <<m, 1>>)' /\ req'[s].worker = req[s].worker
                 /\ req'[s].patch = req[s].patch
      <4>1. s # r
        BY <1>3, <1>A, <3>2 DEF Pending
      <4> QED
        BY <1>6, <3>2, <4>1 DEF Pending
    <3> QED
      BY <1>1, <2>1, <3>1, <3>2, CopyKept
  <2> QED
    BY <2>2, <2>3
<1>22. CopyIsAVersion'
  BY <1>21 DEF CopyIsAVersion, CopyOf
<1>23. Views'
  <2>1. ASSUME NEW s \in Requests PROVE View(req[s])'
    <3>1. CASE s = r
      <4>1. View(q)'
        BY <1>4, <1>14 DEF View, Using
      <4> QED
        BY <1>6, <3>1, <4>1, ViewOf
    <3>2. CASE s # r
      <4> PICK o : o = req[s]
        OBVIOUS
      <4>1. View(o) /\ o \in Request /\ Addressed(o) /\ o.worker \in Workers
        BY DEF LayerInv, TypeOK, RequestsOK, Views, Request
      <4>2. \A m \in ch : m \notin Owned(o)
        BY <1>10, <1>A, <3>2 DEF LayerInv, Locks
      <4>3. \A m \in Owned(o) : m \in Names \ ch
        BY <4>2 DEF Owned
      <4>4. \A m \in Owned(o) : copy'[o.worker][m] = copy[o.worker][m]
        BY <1>4, <4>1, <4>3
      <4>5. View(o)'
        BY <1>1, <4>1, <4>4, ViewKept
      <4> QED
        BY <1>6, <3>2, <4>5, ViewOf
    <3> QED
      BY <3>1, <3>2
  <2> QED
    BY <2>1 DEF Views
<1>24. Bounded'
  <2>1. \A c \in Cells, f \in Fields : cell'[c].t[f] <= B + 1
    <3>1. \A c \in Cells, f \in Fields : cell[c].t[f] <= B /\ cell[c].t[f] \in Nat
      BY <1>1, <1>D DEF LayerInv, Bounded, State, Numbers
    <3> QED
      BY <1>1, <1>7, <3>1
  <2>2. ASSUME NEW s \in Requests, NEW n \in DOMAIN req'[s].patch,
               NEW f \in DOMAIN req'[s].patch[n]
        PROVE  req'[s].patch[n][f] <= B + 1
    <3>1. CASE s = r
      BY <1>4, <1>6, <1>10, <1>14, <2>2, <3>1
    <3>2. CASE s # r
      <4>1. req'[s] = req[s]
        BY <1>6, <3>2
      <4>2. req[s].patch[n][f] <= B
        BY <1>D, <2>2, <4>1 DEF LayerInv, Bounded
      <4>3. req[s].patch[n][f] \in Nat
        <5>1. req[s].patch[n] \in Patches
          <6>1. req[s] \in Request
            BY <1>1
          <6>2. n \in DOMAIN req[s].patch
            BY <2>2, <4>1
          <6>3. req[s].patch \in UNION {[N -> Patches] : N \in SUBSET Names}
            BY <6>1 DEF Request
          <6> QED
            BY <6>2, <6>3
        <5>2. req[s].patch[n][f] \in Numbers
          BY <2>2, <4>1, <5>1 DEF Patches
        <5> QED
          BY <5>2 DEF Numbers
      <4> QED
        BY <1>7, <4>1, <4>2, <4>3
    <3> QED
      BY <3>1, <3>2
  <2> QED
    BY <1>7, <2>1, <2>2 DEF Bounded
<1>25. copy' \in [Workers -> [Names -> [version : Nat \cup {-1}, t : State]]]
  <2>1. ASSUME NEW m \in Names PROVE copy'[w][m] \in [version : Nat \cup {-1}, t : State]
    <3>1. CASE m \in ch
      <4>1. PICK i \in 1..k : m = p.names[i] /\ fs[i] # {}
        BY <1>9, <3>1
      <4>2. copy'[w][m] = Advance(copy[w][m], Edit(p.old[i], fs[i]))
            /\ copy[w][m].version \in Nat /\ Edit(p.old[i], fs[i]) \in State
        <5>1. Version(p.addrs[i]) \in Nat
          BY <1>1, <1>3 DEF Version
        <5> QED
          <6>1. copy[w][m] = [version |-> Version(p.addrs[i]), t |-> cell[p.addrs[i]].t]
            BY <1>3, <4>1
          <6>2. copy'[w][m] = Advance(copy[w][m], Edit(p.old[i], fs[i]))
            BY <1>4, <4>1
          <6>3. Edit(p.old[i], fs[i]) \in State
            BY <1>8
          <6> QED
            BY <5>1, <6>1, <6>2, <6>3
      <4> QED
        BY <4>2 DEF Advance
    <3>2. CASE m \notin ch
      <4>1. copy'[w][m] = copy[w][m]
        BY <1>4, <3>2
      <4> QED
        BY <1>1, <1>3, <4>1
    <3> QED
      BY <3>1, <3>2
  <2>2. copy'[w] \in [Names -> [version : Nat \cup {-1}, t : State]]
    BY <1>4, <2>1
  <2>3. \A u \in Workers : copy'[u] \in [Names -> [version : Nat \cup {-1}, t : State]]
    BY <1>1, <1>4, <2>2
  <2> QED
    BY <1>4, <2>3
<1>26. TypeOK'
  BY <1>1, <1>18, <1>25 DEF LayerInv, TypeOK
<1> QED
  BY <1>18, <1>19, <1>20, <1>22, <1>23, <1>24, <1>26 DEF LayerInv

-----------------------------------------------------------------------------
(***************************************************************************)
(* The invariant holds, and the copies of the workers are what they say.   *)
(***************************************************************************)
LEMMA InitCells ==
  ASSUME Init, MaxMakes = 1
  PROVE  /\ cell \in [Cells -> [t : State, patches : Seq(Patches),
                                status : {"none", "up", "leaving", "gone"}]]
         /\ \A c \in Cells : /\ cell[c].t = NewTable(c) /\ cell[c].patches = <<>>
                             /\ \A f \in Fields : cell[c].t[f] = 0
<1>1. Cardinality(Requests) \in Nat
  BY StarreAssumption, FS_CardinalityType
<1>2. 0 \in Numbers
  BY <1>1 DEF Numbers
<1>3. ASSUME NEW c \in Cells
      PROVE  /\ cell[c] \in [t : State, patches : Seq(Patches),
                             status : {"none", "up", "leaving", "gone"}]
             /\ cell[c].t = NewTable(c) /\ cell[c].patches = <<>>
             /\ \A f \in Fields : cell[c].t[f] = 0
  <2>1. c[2] = 1
    BY DEF Cells
  <2>2. cell[c] = [t |-> NewTable(c), patches |-> <<>>,
                   status |-> IF c[1] \in Boot /\ c[2] = 1 THEN "up" ELSE "none"]
    BY DEF Init
  <2>3. \A f \in Fields : NewTable(c)[f] = 0
    BY <2>1 DEF NewTable
  <2>4. NewTable(c) \in State
    BY <1>2, <2>3 DEF NewTable, State
  <2> PICK t : t = NewTable(c)
    OBVIOUS
  <2>5. <<>> \in Seq(Patches)
    OBVIOUS
  <2> QED
    BY <2>2, <2>3, <2>4, <2>5
<1>4. cell = [c \in Cells |-> cell[c]]
  BY DEF Init
<1> QED
  BY <1>3, <1>4

LEMMA RequestIn ==
  ASSUME NEW A1, NEW A2, NEW A3, NEW A4, NEW A5, NEW A6, NEW A7, NEW A8, NEW A9,
         NEW A10, NEW A11, NEW a1 \in A1, NEW a2 \in A2, NEW a3 \in A3, NEW a4 \in A4,
         NEW a5 \in A5, NEW a6 \in A6, NEW a7 \in A7, NEW a8 \in A8, NEW a9 \in A9,
         NEW a10 \in A10, NEW a11 \in A11
  PROVE  [phase |-> a1, worker |-> a2, call |-> a3, names |-> a4, addrs |-> a5, v |-> a6,
          answer |-> a7, old |-> a8, patch |-> a9, todo |-> a10, at |-> a11]
           \in [phase : A1, worker : A2, call : A3, names : A4, addrs : A5, v : A6,
                answer : A7, old : A8, patch : A9, todo : A10, at : A11]
OBVIOUS

LEMMA InitRequest ==
  ASSUME Init, NEW r \in Requests, NEW p, p = req[r]
  PROVE  /\ p.phase = "start" /\ p.call = "lock" /\ p.names = <<>> /\ p.addrs = <<>>
         /\ p.old = <<>> /\ p.patch = <<>> /\ p.todo = {} /\ p \in Request
<1>1. PICK w \in Workers : p =
        [phase |-> "start", worker |-> w, call |-> "lock", names |-> <<>>,
         addrs |-> <<>>, v |-> 0, answer |-> NoReply, old |-> <<>>,
         patch |-> <<>>, todo |-> {}, at |-> Nil]
  BY DEF Init
<1> PICK a, pt : a = NoReply /\ pt = <<>>
  OBVIOUS
<1>2. a \in [version : Nat, t : Seq(State), patches : Seq(Patches)]
  BY DEF NoReply
<1>3. pt \in UNION {[N -> Patches] : N \in SUBSET Names}
  <2>1. pt \in [{} -> Patches]
    OBVIOUS
  <2> QED
    BY <2>1
<1>4. p = [phase |-> "start", worker |-> w, call |-> "lock", names |-> <<>>,
           addrs |-> <<>>, v |-> 0, answer |-> a, old |-> <<>>,
           patch |-> pt, todo |-> {}, at |-> Nil]
  BY <1>1
<1>5. p \in Request
  <2>1. /\ "start" \in Phase /\ <<>> \in Seq(Names) /\ <<>> \in Seq(Cells \cup {Nil})
        /\ <<>> \in Seq(State) /\ {} \in SUBSET Names /\ Nil \in Cells \cup {Nil}
        /\ "lock" \in {"newstate", "releasestate", "lock", "unlock"} /\ 0 \in Nat
    BY DEF Phase
  <2>2. p \in [phase : Phase, worker : Workers,
               call : {"newstate", "releasestate", "lock", "unlock"},
               names : Seq(Names), addrs : Seq(Cells \cup {Nil}), v : Nat,
               answer : [version : Nat, t : Seq(State), patches : Seq(Patches)],
               old : Seq(State), patch : UNION {[N -> Patches] : N \in SUBSET Names},
               todo : SUBSET Names, at : Cells \cup {Nil}]
    <3> PICK C, N, D, E, F, G, H, e, z, td, c, ph :
          /\ C = {"newstate", "releasestate", "lock", "unlock"} /\ N = Nat
          /\ D = Seq(Names) /\ E = Seq(Cells \cup {Nil}) /\ F = Seq(State)
          /\ G = SUBSET Names /\ H = UNION {[M -> Patches] : M \in SUBSET Names}
          /\ e = <<>> /\ z = 0 /\ td = {} /\ c = "lock" /\ ph = "start"
      OBVIOUS
    <3> PICK J, K : /\ J = [version : Nat, t : Seq(State), patches : Seq(Patches)]
                    /\ K = Cells \cup {Nil}
      OBVIOUS
    <3>1. /\ ph \in Phase /\ w \in Workers /\ c \in C /\ e \in D /\ e \in E /\ z \in N
          /\ a \in J /\ e \in F /\ pt \in H /\ td \in G /\ Nil \in K
      BY <1>2, <1>3, <2>1
    <3>2. [phase |-> ph, worker |-> w, call |-> c, names |-> e, addrs |-> e, v |-> z,
           answer |-> a, old |-> e, patch |-> pt, todo |-> td, at |-> Nil]
            \in [phase : Phase, worker : Workers, call : C, names : D, addrs : E, v : N,
                 answer : J, old : F, patch : H, todo : G, at : K]
      BY ONLY <3>1, RequestIn
    <3>3. p = [phase |-> ph, worker |-> w, call |-> c, names |-> e, addrs |-> e, v |-> z,
               answer |-> a, old |-> e, patch |-> pt, todo |-> td, at |-> Nil]
      BY <1>4
    <3> QED
      BY <3>2, <3>3
  <2> QED
    BY <2>2 DEF Request
<1> QED
  BY <1>4, <1>5

LEMMA InitKeeps ==
  ASSUME Init, MaxMakes = 1
  PROVE  LayerInv
<1>1. \A r \in Requests :
        /\ req[r].phase = "start" /\ req[r].call = "lock" /\ req[r].names = <<>>
        /\ req[r].addrs = <<>> /\ req[r].old = <<>> /\ req[r].patch = <<>>
        /\ req[r].todo = {} /\ req[r] \in Request
  BY InitRequest
<1>2. \A n : Asked(n) = {}
  BY <1>1 DEF Asked
<1>3. \A r \in Requests : Owned(req[r]) = {}
  BY <1>1 DEF Owned, Using
<1>4. TypeOK
  <2>1. req \in [Requests -> Request]
    <3>1. req = [r \in Requests |-> req[r]]
      BY DEF Init
    <3> QED
      BY <1>1, <3>1
  <2>2. state \in [Names -> Cells \cup {Nil}] /\ spawned \in [Names -> 0..MaxMakes]
    <3>1. \A n \in Names : <<n, 1>> \in Cells
      BY OneCell
    <3> QED
      BY <3>1 DEF Init
  <2>3. copy \in [Workers -> [Names -> [version : Nat \cup {-1}, t : State]]]
    <3>1. Cardinality(Requests) \in Nat
      BY StarreAssumption, FS_CardinalityType
    <3>2. NoTable \in State
      BY <3>1 DEF NoTable, State, Numbers
    <3> HIDE DEF NoTable
    <3> QED
      BY <3>2 DEF Init
  <2>4. locked \in [Names -> BOOLEAN] /\ waitting \in Seq(Requests) /\ inbox \in Seq(Requests)
    BY DEF Init
  <2> QED
    BY <2>1, <2>2, <2>3, <2>4, InitCells DEF TypeOK
<1>5. RequestsOK
  BY <1>1 DEF RequestsOK, Early, Addressed, Using, Closing
<1>6. Queued
  BY DEF Init, Queued
<1>7. Made
  <2>1. \A n \in Names : /\ state[n] # Nil => state[n] = <<n, 1>> /\ spawned[n] = 1
                         /\ spawned[n] = 1 => n \in Boot
    BY DEF Init
  <2>2. \A r \in Requests : DOMAIN req[r].addrs = {}
    BY <1>1
  <2> QED
    BY <1>2, <2>1, <2>2 DEF Made
<1>8. Locks
  BY <1>3 DEF Locks
<1>9. Tables
  <2> SUFFICES ASSUME NEW c \in Cells
               PROVE  cell[c].t = PatchAll(NewTable(c), cell[c].patches)
    BY DEF Tables
  <2>1. cell[c].t = NewTable(c) /\ cell[c].patches = <<>> /\ cell[c].t \in State
    BY InitCells
  <2> QED
    BY <2>1, PatchAllNone
<1>10. CopyIsAVersion
  BY DEF Init, CopyIsAVersion
<1>11. Views
  BY <1>1 DEF Views, View
<1>12. Bounded
  <2>1. Closed = {}
    BY <1>1 DEF Closed
  <2>2. Cardinality(Closed) = 0
    BY <2>1, FS_EmptySet
  <2>3. \A r \in Requests : DOMAIN req[r].patch = {}
    BY <1>1
  <2>4. \A c \in Cells, f \in Fields : cell[c].t[f] <= 0
    BY InitCells
  <2> QED
    BY <2>2, <2>3, <2>4 DEF Bounded
<1> QED
  BY <1>4, <1>5, <1>6, <1>7, <1>8, <1>9, <1>10, <1>11, <1>12 DEF LayerInv

LEMMA NextKeeps ==
  ASSUME LayerInv, MaxMakes = 1, [Next]_vars
  PROVE  LayerInv'
<1>1. ASSUME NEW r \in Requests, HandleLock(r) PROVE LayerInv'
  BY <1>1, HandleLockKeeps
<1>2. ASSUME NEW r \in Requests, HandleNew(r) PROVE LayerInv'
  BY <1>2, HandleNewKeeps
<1>3. ASSUME NEW r \in Requests, Spawned(r) PROVE LayerInv'
  BY <1>3, SpawnedKeeps
<1>4. ASSUME NEW r \in Requests, HandleRelease(r) PROVE LayerInv'
  BY <1>4, HandleReleaseKeeps
<1>5. ASSUME NEW r \in Requests, HandleUnlock(r) PROVE LayerInv'
  BY <1>5, HandleUnlockKeeps
<1>6. ASSUME NEW r \in Requests, ResumeUnlock(r) PROVE LayerInv'
  BY <1>6, ResumeUnlockKeeps
<1>7. ASSUME NEW r \in Requests, CellQuery(r) PROVE LayerInv'
  BY <1>7, CellQueryKeeps
<1>8. ASSUME NEW r \in Requests, CellPatch(r) PROVE LayerInv'
  BY <1>8, CellPatchKeeps
<1>9. ASSUME NEW c \in Cells, CellExit(c) PROVE LayerInv'
  BY <1>9, CellExitKeeps
<1>10. ASSUME NEW r \in Requests, StartQuery(r) PROVE LayerInv'
  BY <1>10, StartQueryKeeps
<1>11. ASSUME NEW r \in Requests, Receive(r) PROVE LayerInv'
  BY <1>11, ReceiveKeeps
<1>12. ASSUME NEW r \in Requests, Close(r) PROVE LayerInv'
  BY <1>12, CloseKeeps
<1>13. ASSUME NEW r \in Requests, Query(r) \/ New(r) \/ Release(r) PROVE LayerInv'
  BY <1>13, BeginKeeps
<1>14. CASE UNCHANGED vars
  <2>1. UNCHANGED <<state, locked, waitting, spawned, inbox, copy, req>> /\ cell' = cell
    BY <1>14 DEF vars
  <2>2. cell' \in [Cells -> [t : State, patches : Seq(Patches),
                             status : {"none", "up", "leaving", "gone"}]]
    BY <2>1 DEF LayerInv, TypeOK
  <2>3. \A c \in Cells : cell'[c].t = cell[c].t /\ cell'[c].patches = cell[c].patches
    BY <2>1
  <2> QED
    BY <2>1, <2>2, <2>3, StillKeeps
<1> QED
  BY <1>1, <1>2, <1>3, <1>4, <1>5, <1>6, <1>7, <1>8, <1>9, <1>10, <1>11, <1>12, <1>13,
     <1>14 DEF Next, ManagerStep, CellStep, WorkerStep, Begin

LEMMA InvCopies ==
  ASSUME LayerInv
  PROVE  CopiesKept
<1>1. \A r \in Requests : req[r].phase = "work" =>
        \A i \in DOMAIN req[r].old : req[r].old[i] = cell[req[r].addrs[i]].t
  BY DEF LayerInv, Views, View, Using
<1> QED
  BY <1>1 DEF LayerInv, CopiesKept, SeesCurrent

(* In all that happens the copies of the workers are versions of their states,
   and a request works on the current ones (starre.lua, state_mgr.lua,
   state_cell.lua), if the state of a name is made once. *)
THEOREM CopiesCurrent == MaxMakes = 1 => (Spec => []CopiesKept)
<1> SUFFICES ASSUME MaxMakes = 1
             PROVE  Spec => []CopiesKept
  OBVIOUS
<1>1. Init => LayerInv
  BY InitKeeps
<1>2. LayerInv /\ [Next]_vars => LayerInv'
  BY NextKeeps
<1>3. LayerInv => CopiesKept
  BY InvCopies
<1> QED
  BY <1>1, <1>2, <1>3, PTL DEF Spec

-----------------------------------------------------------------------------
(***************************************************************************)
(* Requests are transactions.                                              *)
(***************************************************************************)

(* What the cells that a request has seen have *)
SeenBy(q) == {q.addrs[i] : i \in DOMAIN q.old}
Seeing(r) ==
  /\ WorkOf(req[r])
  /\ Seen(r) = [c \in SeenBy(req[r]) |-> cell[c].t]
  /\ SeenBy(req[r]) \in SUBSET Cells /\ Seen(r) # Nil

(* What the steps of Transactions need to know of a state *)
Readable ==
  /\ \A r, s \in Requests, c \in Cells : Pending(r, c) /\ Pending(s, c) => r = s
  /\ \A r \in Requests : req[r].phase = "work" => Seeing(r)

(* One request at most is about to change a cell. *)
LEMMA LonePending ==
  ASSUME LayerInv, MaxMakes = 1, NEW r \in Requests, NEW s \in Requests, NEW c \in Cells,
         Pending(r, c), Pending(s, c)
  PROVE  r = s
<1>1. c[1] \in Names /\ c = <<c[1], 1>>
  BY OneCell
<1>2. c[1] \in Owned(req[r]) /\ c[1] \in Owned(req[s])
  BY <1>1 DEF Pending, Owned
<1> QED
  BY <1>2 DEF LayerInv, Locks

LEMMA SeesThem ==
  ASSUME LayerInv, MaxMakes = 1, NEW r \in Requests, req[r].phase = "work"
  PROVE  Seeing(r)
<1> PICK p : p = req[r]
  OBVIOUS
<1>1. WorkOf(p)
  BY WorksOn
<1>2. /\ DOMAIN p.old = 1..Len(p.old)
      /\ \A i \in DOMAIN p.old : p.addrs[i] \in Cells /\ p.old[i] = cell[p.addrs[i]].t
  BY <1>1 DEF WorkOf
<1>3. SeenBy(p) \in SUBSET Cells
  BY <1>2 DEF SeenBy
<1>4. Seen(r) = [c \in SeenBy(p) |-> p.old[CHOOSE i \in DOMAIN p.old : p.addrs[i] = c]]
  BY DEF Seen, SeenBy
<1>5. ASSUME NEW c \in SeenBy(p)
      PROVE  p.old[CHOOSE i \in DOMAIN p.old : p.addrs[i] = c] = cell[c].t
  <2>1. \E i \in DOMAIN p.old : p.addrs[i] = c
    BY DEF SeenBy
  <2> PICK j : j = CHOOSE i \in DOMAIN p.old : p.addrs[i] = c
    OBVIOUS
  <2>2. j \in DOMAIN p.old /\ p.addrs[j] = c
    BY <2>1
  <2> QED
    BY <1>2, <2>2
<1>6. Seen(r) = [c \in SeenBy(p) |-> cell[c].t]
  <2> PICK f : f = Seen(r)
    OBVIOUS
  <2>1. f = [c \in SeenBy(p) |-> f[c]]
    BY <1>4
  <2>2. \A c \in SeenBy(p) :
          f[c] = p.old[CHOOSE i \in DOMAIN p.old : p.addrs[i] = c]
    BY <1>4
  <2>3. \A c \in SeenBy(p) : f[c] = cell[c].t
    BY <1>5, <2>2
  <2> QED
    BY <2>1, <2>3
<1>7. \A c \in Cells : cell[c].t \in State
  BY DEF LayerInv, TypeOK
<1>8. Seen(r) \in [SeenBy(p) -> State]
  BY <1>3, <1>6, <1>7
<1>9. Seen(r) # Nil
  BY <1>3, <1>8, StarreNil
<1> QED
  BY <1>1, <1>3, <1>6, <1>9 DEF Seeing

LEMMA InvReadable == MaxMakes = 1 /\ LayerInv => Readable
<1> SUFFICES ASSUME MaxMakes = 1, LayerInv PROVE Readable
  OBVIOUS
<1>1. \A r, s \in Requests, c \in Cells : Pending(r, c) /\ Pending(s, c) => r = s
  BY LonePending
<1>2. \A r \in Requests : req[r].phase = "work" => Seeing(r)
  BY SeesThem
<1> QED
  BY <1>1, <1>2 DEF Readable

(* The value of a cell that nobody is about to change, *)
LEMMA ValueStill ==
  ASSUME NEW c \in Cells, \A r \in Requests : ~Pending(r, c)
  PROVE  Value(c) = cell[c].t
BY DEF Value

(* and of one that somebody is. *)
LEMMA ValueToBe ==
  ASSUME Readable, NEW c \in Cells, NEW r \in Requests, Pending(r, c)
  PROVE  Value(c) = Patch(cell[c].t, req[r].patch[c[1]])
<1> PICK x : x = CHOOSE s \in Requests : Pending(s, c)
  OBVIOUS
<1>1. x \in Requests /\ Pending(x, c)
  OBVIOUS
<1>2. x = r
  BY <1>1 DEF Readable
<1>3. Value(c) = Patch(cell[c].t, req[x].patch[c[1]])
  BY DEF Value
<1> QED
  BY <1>2, <1>3

LEMMA NextStill ==
  ASSUME NEW c \in Cells, \A r \in Requests : ~Pending(r, c)'
  PROVE  Value(c)' = cell'[c].t
BY DEF Value

LEMMA NextToBe ==
  ASSUME Readable', NEW c \in Cells, NEW r \in Requests, Pending(r, c)'
  PROVE  Value(c)' = Patch(cell'[c].t, req'[r].patch[c[1]])
<1> PICK x : x = (CHOOSE s \in Requests : Pending(s, c)')
  OBVIOUS
<1>1. x \in Requests /\ Pending(x, c)'
  OBVIOUS
<1>2. x = r
  BY <1>1 DEF Readable
<1>3. Value(c)' = Patch(cell'[c].t, req'[x].patch[c[1]])
  BY DEF Value
<1> QED
  BY <1>2, <1>3

(* Nothing changes when nothing is settled. *)
LEMMA SettledValues ==
  ASSUME Readable, Readable', NEW c \in Cells, cell'[c].t = cell[c].t,
         \A s \in Requests : /\ Pending(s, c) <=> Pending(s, c)'
                             /\ Pending(s, c) => req'[s].patch = req[s].patch
  PROVE  Value(c)' = Value(c)
<1>1. CASE \A s \in Requests : ~Pending(s, c)
  BY <1>1, ValueStill, NextStill
<1>2. CASE \E s \in Requests : Pending(s, c)
  <2>1. PICK s \in Requests : Pending(s, c)
    BY <1>2
  <2>2. Pending(s, c)' /\ req'[s].patch = req[s].patch
    BY <2>1
  <2>3. Value(c) = Patch(cell[c].t, req[s].patch[c[1]])
    BY <2>1, ValueToBe
  <2>4. Value(c)' = Patch(cell'[c].t, req'[s].patch[c[1]])
    BY <2>2, NextToBe
  <2> QED
    BY <2>2, <2>3, <2>4
<1> QED
  BY <1>1, <1>2

(* A request goes on seeing what it sees. *)
LEMMA SeenAsBefore ==
  ASSUME NEW s \in Requests, AsBefore(req'[s], req[s])
  PROVE  Seen(s)' = Seen(s)
<1>1. CASE req[s].phase # "work"
  BY <1>1 DEF AsBefore, Seen
<1>2. CASE req[s].phase = "work"
  <2> PICK o, a : o = req[s].old /\ a = req[s].addrs
    OBVIOUS
  <2>1. /\ req[s].old = o /\ req[s].addrs = a /\ req'[s].old = o /\ req'[s].addrs = a
        /\ req'[s].phase = "work"
    BY <1>2 DEF AsBefore
  <2> QED
    BY <1>2, <2>1 DEF Seen
<1> QED
  BY <1>1, <1>2

LEMMA SteadyStutters ==
  ASSUME Readable, Readable', Steady
  PROVE  UNCHANGED A!vars
<1>1. \A c \in Cells : Value(c)' = Value(c)
  BY SettledValues DEF Steady, Settled
<1>2. \A s \in Requests : Seen(s)' = Seen(s)
  BY SeenAsBefore DEF Steady
<1> QED
  BY <1>1, <1>2 DEF A!vars

(* A cell takes over a difference: its value was that already. *)
LEMMA PatchStutters ==
  ASSUME LayerInv, MaxMakes = 1, Readable, Readable', NEW r \in Requests, CellPatch(r)
  PROVE  UNCHANGED A!vars
<1> PICK p : p = req[r]
  OBVIOUS
<1> PICK q : q = [p EXCEPT !.phase = "patched"]
  OBVIOUS
<1>1. /\ p.phase = "patch" /\ p \in Request /\ Addressed(p)
      /\ req' = [req EXCEPT ![r] = q] /\ req \in [Requests -> Request]
      /\ cell \in [Cells -> [t : State, patches : Seq(Patches),
                             status : {"none", "up", "leaving", "gone"}]]
  BY DEF CellPatch, LayerInv, TypeOK, RequestsOK
<1>2. PICK n \in p.todo \cap DOMAIN p.patch : p.at = <<n, 1>>
  BY <1>1 DEF Addressed
<1> PICK c, d : c = <<n, 1>> /\ d = p.patch[n]
  OBVIOUS
<1>3. /\ n \in Names /\ c \in Cells /\ c[1] = n /\ n \in Owned(p)
  <2>1. n \in Names
    BY <1>1 DEF Request
  <2>2. n \in Owned(p)
    BY <1>1, ClosingOwns DEF Closing
  <2> QED
    BY <2>1, <2>2, OneCell
<1>4. cell' = [cell EXCEPT ![c].patches = Append(@, d), ![c].t = Patch(@, d)]
  BY <1>2, <1>3 DEF CellPatch
<1>5. cell'[c].t = Patch(cell[c].t, d) /\ \A e \in Cells : e # c => cell'[e] = cell[e]
  <2> PICK x, y : x = Patch(cell[c].t, d) /\ y = Append(cell[c].patches, d)
    OBVIOUS
  <2>1. cell' = [cell EXCEPT ![c].patches = y, ![c].t = x]
    BY <1>1, <1>3, <1>4
  <2> QED
    BY <1>1, <1>3, <2>1
<1>6. /\ q.phase = "patched" /\ q.todo = p.todo /\ q.addrs = p.addrs /\ q.at = c
      /\ q.patch = p.patch /\ req'[r] = q
      /\ \A s \in Requests : s # r => req'[s] = req[s]
  BY <1>1, <1>2 DEF Request
<1>7. Pending(r, c)
  BY <1>1, <1>2, <1>3 DEF Pending, Owned
<1>8. \A s \in Requests : ~Pending(s, c)'
  <2>1. ~Pending(r, c)'
    BY <1>6 DEF Pending
  <2>2. ASSUME NEW s \in Requests, s # r PROVE ~Pending(s, c)'
    <3>1. ~Pending(s, c)
      BY <1>3, <1>7, <2>2 DEF Readable
    <3> QED
      BY <1>6, <2>2, <3>1 DEF Pending
  <2> QED
    BY <2>1, <2>2
<1>9. Value(c)' = Value(c)
  <2>1. Value(c) = Patch(cell[c].t, d)
    BY <1>3, <1>7, ValueToBe
  <2>2. Value(c)' = cell'[c].t
    BY <1>3, <1>8, NextStill
  <2> QED
    BY <1>5, <2>1, <2>2
<1>10. ASSUME NEW e \in Cells, e # c PROVE Value(e)' = Value(e)
  <2>1. ASSUME NEW s \in Requests
        PROVE  /\ Pending(s, e) <=> Pending(s, e)'
               /\ Pending(s, e) => req'[s].patch = req[s].patch
    <3>1. CASE s = r
      BY <1>1, <1>6, <1>10, <3>1 DEF Pending
    <3>2. CASE s # r
      BY <1>6, <3>2 DEF Pending
    <3> QED
      BY <3>1, <3>2
  <2>2. cell'[e].t = cell[e].t
    BY <1>5, <1>10
  <2> QED
    BY <2>1, <2>2, SettledValues
<1>11. ASSUME NEW s \in Requests PROVE Seen(s)' = Seen(s)
  <2>1. AsBefore(req'[s], req[s])
    BY <1>1, <1>6 DEF AsBefore
  <2> QED
    BY <2>1, SeenAsBefore
<1>12. \A e \in Cells : Value(e)' = Value(e)
  BY <1>9, <1>10
<1> QED
  BY <1>11, <1>12 DEF A!vars

(* What Receive comes to *)
LEMMA ReceiveSteps ==
  ASSUME LayerInv, MaxMakes = 1, NEW r \in Requests, Receive(r)
  PROVE  /\ Settled /\ req[r].phase = "answered"
         /\ \A s \in Requests : s # r => req'[s] = req[s]
         /\ req'[r].phase # "work" => Steady
         /\ req'[r].addrs = req[r].addrs /\ req[r].todo = {} /\ req'[r].todo = {}
<1> PICK p, n : p = req[r] /\ n = NextName(p)
  OBVIOUS
<1> PICK t : t = cell[<<n, 1>>].t
  OBVIOUS
<1>1. /\ p.phase = "answered" /\ p \in Request /\ Addressed(p) /\ p.phase \in Using
      /\ UNCHANGED <<state, locked, waitting, spawned, inbox, cell>>
      /\ req \in [Requests -> Request]
  BY DEF Receive, LayerInv, TypeOK, RequestsOK, Using
<1>C. PICK K, ph, v : Receives(r, p, n, K, t, ph, v)
  BY ReceiveIs
<1>A. PICK q : q = [p EXCEPT !.old = Append(p.old, t), !.answer = NoReply,
                             !.phase = ph, !.v = v]
  OBVIOUS
<1>2. req' = [req EXCEPT ![r] = q] /\ ph \in {"query", "work"}
  BY <1>A, <1>C DEF Receives
<1>3. /\ req'[r] = q /\ \A s \in Requests : s # r => req'[s] = req[s]
      /\ q.phase = ph /\ q.addrs = p.addrs /\ q.todo = p.todo /\ q.patch = p.patch
  BY <1>1, <1>2, <1>A DEF Request
<1>4. p.todo = {}
  BY <1>1 DEF Addressed
<1>5. /\ p.phase # "patched" /\ q.phase # "patched" /\ p.phase # "work"
      /\ \A c \in Cells : cell'[c].t = cell[c].t
  BY <1>1, <1>2, <1>3
<1>6. Settled /\ (q.phase # "work" => Steady)
  BY <1>3, <1>5, StepSettled
<1> QED
  BY <1>1, <1>3, <1>4, <1>6

(* The last of what a request asked for has come: it begins. *)
LEMMA ReceiveBegins ==
  ASSUME LayerInv, MaxMakes = 1, Readable, Readable', NEW r \in Requests, Receive(r)
  PROVE  [A!Next]_(A!vars)
<1>1. /\ Settled /\ req[r].phase = "answered"
      /\ \A s \in Requests : s # r => req'[s] = req[s]
      /\ req'[r].phase # "work" => Steady
      /\ req'[r].addrs = req[r].addrs /\ req[r].todo = {}
  BY ReceiveSteps
<1>2. CASE req'[r].phase # "work"
  BY <1>1, <1>2, SteadyStutters
<1>3. CASE req'[r].phase = "work"
  <2> PICK S, p, q : S = SeenBy(req'[r]) /\ p = req[r] /\ q = req'[r]
    OBVIOUS
  <2>1. Seeing(r)'
    BY <1>3 DEF Readable
  <2>2. S \in SUBSET Cells /\ Seen(r)' = [c \in S |-> cell'[c].t]
    BY <2>1 DEF Seeing
  <2>3. ASSUME NEW c \in S PROVE c \in Cells /\ c[1] \in Owned(p)
    <3>1. c \in Cells /\ c = <<c[1], 1>> /\ c[1] \in Names
      BY <2>2, OneCell
    <3>2. PICK i \in DOMAIN q.old : c = q.addrs[i]
      BY DEF SeenBy
    <3>3. i \in DOMAIN q.addrs
      <4>1. WorkOf(q)'
        BY <2>1 DEF Seeing
      <4> QED
        BY <3>2, <4>1 DEF WorkOf
    <3>4. p.addrs = q.addrs /\ p.phase \in Using
      BY <1>1 DEF Using
    <3>5. \E j \in DOMAIN p.addrs : p.addrs[j] = <<c[1], 1>>
      BY <3>1, <3>2, <3>3, <3>4
    <3> QED
      BY <3>1, <3>4, <3>5 DEF Owned
  <2>4. ASSUME NEW c \in S PROVE Value(c) = cell[c].t /\ cell'[c].t = cell[c].t
    <3>1. c \in Cells /\ c = <<c[1], 1>> /\ c[1] \in Owned(req[r])
      BY <2>3, OneCell
    <3>2. \A s \in Requests : ~Pending(s, c)
      <4>1. ASSUME NEW s \in Requests, Pending(s, c) PROVE FALSE
        <5>1. s = r
          BY <3>1, <4>1, OnePending
        <5> QED
          BY <1>1, <4>1, <5>1 DEF Pending
      <4> QED
        BY <4>1
    <3>3. Value(c) = cell[c].t
      BY <3>1, <3>2, ValueStill
    <3> QED
      BY <1>1, <3>1, <3>3 DEF Settled
  <2>5. Seen(r)' = [c \in S |-> Value(c)]
    BY <2>2, <2>4
  <2>6. Seen(r) = Nil
    BY <1>1 DEF Seen
  <2>7. ASSUME NEW c \in S, NEW s \in Requests, Seen(s) # Nil, c \in DOMAIN Seen(s)
        PROVE  FALSE
    <3>1. req[s].phase = "work"
      BY <2>7 DEF Seen
    <3>2. Seeing(s)
      BY <3>1 DEF Readable
    <3>3. c \in SeenBy(req[s])
      BY <2>7, <3>2 DEF Seeing
    <3>4. PICK i \in DOMAIN req[s].old : c = req[s].addrs[i]
      BY <3>3 DEF SeenBy
    <3>5. /\ req[s].addrs[i] = <<req[s].names[i], 1>> /\ req[s].names[i] \in Owned(req[s])
      BY <3>2, <3>4 DEF Seeing, WorkOf
    <3>6. c[1] \in Owned(req[s])
      BY <3>4, <3>5
    <3>7. s # r
      BY <1>1, <3>1
    <3> QED
      BY <2>3, <3>6, <3>7 DEF LayerInv, Locks
  <2>8. \A c \in Cells : Value(c)' = Value(c)
    BY <1>1, SettledValues DEF Settled
  <2>9. \A s \in Requests : s # r => Seen(s)' = Seen(s)
    <3>1. ASSUME NEW s \in Requests, s # r PROVE Seen(s)' = Seen(s)
      BY <1>1, <3>1, SeenAsBefore DEF AsBefore
    <3> QED
      BY <3>1
  <2>10. A!Begin(r, S)
    <3>1. \A c \in S : ~A!AtWork(c)
      BY <2>7 DEF A!AtWork
    <3> DEFINE sn == [s \in Requests |-> Seen(s)]
               va == [c \in Cells |-> Value(c)]
    <3>2. sn' = [sn EXCEPT ![r] = [c \in S |-> va[c]]]
      <4>1. [c \in S |-> va[c]] = [c \in S |-> Value(c)]
        BY <2>2
      <4> QED
        BY <2>5, <2>9, <4>1
    <3>3. va' = va
      BY <2>8
    <3> QED
      BY <2>6, <3>1, <3>2, <3>3 DEF A!Begin
  <2> QED
    BY <2>2, <2>10 DEF A!Next
<1> QED
  BY <1>2, <1>3

(* No edit is one of the edits. *)
LEMMA EditNot ==
  ASSUME NEW t \in State
  PROVE  t \in {Edit(t, fs) : fs \in Edits}
<1>1. {} \in Edits
  BY FS_EmptySet DEF Edits
<1>2. Edit(t, {}) = t
  BY DEF Edit, State
<1> QED
  BY <1>1, <1>2

(* A request closes: what it has seen changes at once. *)
LEMMA CloseCommits ==
  ASSUME LayerInv, MaxMakes = 1, Readable, Readable', NEW r \in Requests, Close(r)
  PROVE  A!Commit(r)
<1> PICK p : p = req[r]
  OBVIOUS
<1>1. /\ p.phase = "work" /\ p \in Request /\ UNCHANGED cell
      /\ req \in [Requests -> Request]
      /\ cell \in [Cells -> [t : State, patches : Seq(Patches),
                             status : {"none", "up", "leaving", "gone"}]]
  BY DEF Close, LayerInv, TypeOK
<1>2. PICK fs, ch, pt, ph : Closes(r, p, fs, ch, pt, ph)
  BY CloseIs
<1> PICK k : k = Len(p.old)
  OBVIOUS
<1>3. /\ k \in Nat /\ DOMAIN p.old = 1..k /\ p.todo = {}
      /\ \A i \in 1..k :
           /\ p.names[i] \in Names /\ p.addrs[i] = <<p.names[i], 1>>
           /\ p.addrs[i] \in Cells /\ p.names[i] \in Owned(p)
           /\ i \in DOMAIN p.names /\ i \in DOMAIN p.addrs
           /\ p.old[i] = cell[p.addrs[i]].t
      /\ \A i, j \in DOMAIN p.names : p.names[i] = p.names[j] => i = j
  <2>1. WorkOf(p)
    BY <1>1, WorksOn
  <2> QED
    BY <2>1 DEF WorkOf
<1>4. /\ fs \in [1..k -> Edits] /\ ch = {p.names[i] : i \in {j \in 1..k : fs[j] # {}}}
      /\ DOMAIN pt = ch
      /\ \A i \in 1..k : fs[i] # {} =>
           pt[p.names[i]] = Diff(p.old[i], Edit(p.old[i], fs[i]))
      /\ ph \in {"unlock", "failed"}
      /\ req' = [req EXCEPT ![r] = [p EXCEPT !.phase = ph, !.call = "unlock",
                                             !.todo = NamesOf(p.names), !.patch = pt]]
  BY <1>2 DEF Closes
<1> PICK q : q = [p EXCEPT !.phase = ph, !.call = "unlock",
                           !.todo = NamesOf(p.names), !.patch = pt]
  OBVIOUS
<1>5. /\ req'[r] = q /\ \A s \in Requests : s # r => req'[s] = req[s]
      /\ q.phase = ph /\ q.todo = NamesOf(p.names) /\ q.patch = pt /\ q.addrs = p.addrs
  BY <1>1, <1>4 DEF Request
<1> PICK D : D = SeenBy(p)
  OBVIOUS
<1>6. /\ D \in SUBSET Cells /\ Seen(r) = [c \in D |-> cell[c].t] /\ Seen(r) # Nil
      /\ DOMAIN Seen(r) = D
  <2>1. Seeing(r)
    BY <1>1 DEF Readable
  <2> QED
    BY <2>1 DEF Seeing
<1>7. ASSUME NEW c \in D, NEW s \in Requests, s # r
      PROVE  ~Pending(s, c)'
  <2>1. PICK i \in 1..k : c = p.addrs[i]
    BY <1>3 DEF SeenBy
  <2>2. c = <<p.names[i], 1>> /\ p.names[i] \in Owned(req[r])
    BY <1>3, <2>1
  <2>3. ~Pending(s, c)
    BY <1>7, <2>2, OnePending
  <2> QED
    BY <1>5, <1>7, <2>3 DEF Pending
<1>8. ASSUME NEW c \in D
      PROVE  Value(c)' \in {Edit(cell[c].t, F) : F \in Edits}
  <2>1. PICK i \in 1..k : c = p.addrs[i]
    BY <1>3 DEF SeenBy
  <2> PICK n : n = p.names[i]
    OBVIOUS
  <2>2. /\ n \in Names /\ c = <<n, 1>> /\ c \in Cells /\ c[1] = n /\ n \in NamesOf(p.names)
        /\ i \in DOMAIN p.addrs /\ i \in DOMAIN p.names
        /\ p.old[i] = cell[c].t /\ cell[c].t \in State /\ cell'[c].t = cell[c].t
        /\ fs[i] \in Edits
    BY <1>1, <1>3, <1>4, <2>1 DEF NamesOf
  <2>3. CASE fs[i] # {}
    <3>1. n \in ch /\ pt[n] = Diff(cell[c].t, Edit(cell[c].t, fs[i]))
      BY <1>4, <2>2, <2>3
    <3>2. Pending(r, c)'
      <4>1. c[1] \in q.todo \cap DOMAIN q.patch /\ q.phase # "patched"
        BY <1>4, <1>5, <2>2, <3>1
      <4>2. \E j \in DOMAIN q.addrs : q.addrs[j] = c
        BY <1>5, <2>1, <2>2
      <4> QED
        BY <1>5, <4>1, <4>2 DEF Pending
    <3>3. Value(c)' = Patch(cell'[c].t, req'[r].patch[n])
      BY <2>2, <3>2, NextToBe
    <3>4. Edit(cell[c].t, fs[i]) \in State
      <4>1. PICK B, R : B = Cardinality(Closed) /\ R = Cardinality(Requests)
        OBVIOUS
      <4>2. B \in Nat /\ B + 1 <= R /\ R \in Nat
        <5>1. req'[r].call = "unlock"
          BY <1>1, <1>4, <1>5 DEF Request
        <5> QED
          BY <1>1, <1>5, <4>1, <5>1, OneMoreClosed
      <4>3. \A f \in Fields : cell[c].t[f] <= B
        BY <2>2, <4>1 DEF LayerInv, Bounded
      <4> QED
        BY <2>2, <4>1, <4>2, <4>3, EditIs
    <3>5. Value(c)' = Edit(cell[c].t, fs[i])
      BY <1>5, <2>2, <3>1, <3>3, <3>4, PatchDiff
    <3> QED
      BY <2>2, <3>5
  <2>4. CASE fs[i] = {}
    <3>1. n \notin ch
      <4>1. ASSUME n \in ch PROVE FALSE
        <5>1. PICK j \in 1..k : fs[j] # {} /\ p.names[j] = n
          BY <1>4, <4>1
        <5>2. j = i
          BY <1>3, <2>2, <5>1
        <5> QED
          BY <2>4, <5>1, <5>2
      <4> QED
        BY <4>1
    <3>2. ~Pending(r, c)'
      BY <1>4, <1>5, <2>2, <3>1 DEF Pending
    <3>3. \A s \in Requests : ~Pending(s, c)'
      BY <1>7, <3>2
    <3>4. Value(c)' = cell[c].t
      BY <2>2, <3>3, NextStill
    <3> QED
      BY <2>2, <3>4, EditNot
  <2> QED
    BY <2>3, <2>4
<1>9. ASSUME NEW c \in Cells, c \notin D PROVE Value(c)' = Value(c)
  <2>1. ~Pending(r, c) /\ ~Pending(r, c)'
    <3>1. ~Pending(r, c)
      BY <1>3 DEF Pending
    <3>2. ASSUME c[1] \in ch PROVE FALSE
      <4>1. PICK i \in 1..k : c[1] = p.names[i]
        BY <1>4, <3>2
      <4>2. c = p.addrs[i] /\ i \in DOMAIN p.old
        BY <1>3, <4>1, OneCell
      <4> QED
        BY <1>9, <4>2 DEF SeenBy
    <3> QED
      BY <1>4, <1>5, <3>1, <3>2 DEF Pending
  <2>2. ASSUME NEW s \in Requests
        PROVE  /\ Pending(s, c) <=> Pending(s, c)'
               /\ Pending(s, c) => req'[s].patch = req[s].patch
    <3>1. CASE s = r
      BY <2>1, <3>1
    <3>2. CASE s # r
      BY <1>5, <3>2 DEF Pending
    <3> QED
      BY <3>1, <3>2
  <2> QED
    BY <1>1, <2>2, SettledValues
<1>10. Seen(r)' = Nil
  BY <1>4, <1>5 DEF Seen
<1>11. ASSUME NEW s \in Requests, s # r PROVE Seen(s)' = Seen(s)
  BY <1>5, <1>11, SeenAsBefore DEF AsBefore
<1> DEFINE sn == [s \in Requests |-> Seen(s)]
           va == [c \in Cells |-> Value(c)]
<1>12. sn' = [sn EXCEPT ![r] = Nil]
  BY <1>10, <1>11
<1> PICK new : new = [c \in D |-> Value(c)']
  OBVIOUS
<1>13. \A c \in D : new[c] \in {Edit(sn[r][c], F) : F \in Edits}
  BY <1>6, <1>8
<1>14. new \in [D -> UNION {{Edit(v, F) : F \in Edits} : v \in {sn[r][c] : c \in D}}]
  BY <1>13
<1>15. va' = [c \in Cells |-> IF c \in D THEN new[c] ELSE va[c]]
  BY <1>6, <1>9
<1>16. sn[r] # Nil /\ DOMAIN sn[r] = D /\ DOMAIN new = D
  BY <1>6
<1> HIDE DEF sn, va
<1> QED
  BY <1>12, <1>13, <1>14, <1>15, <1>16 DEF A!Commit, sn, va

LEMMA InitMaps ==
  ASSUME Init, LayerInv, MaxMakes = 1
  PROVE  A!Init
<1>1. \A r \in Requests : req[r].phase = "start" /\ req[r].todo = {}
  BY InitRequest
<1>2. \A r \in Requests, c \in Cells : ~Pending(r, c)
  BY <1>1 DEF Pending
<1>3. \A c \in Cells : Value(c) = NewTable(c)
  BY <1>2, ValueStill, InitCells
<1>4. \A r \in Requests : Seen(r) = Nil
  BY <1>1 DEF Seen
<1> QED
  BY <1>3, <1>4 DEF A!Init

LEMMA NextMaps ==
  ASSUME LayerInv, MaxMakes = 1, Readable, Readable', [Next]_vars
  PROVE  [A!Next]_(A!vars)
<1>1. Steady => [A!Next]_(A!vars)
  BY SteadyStutters
<1>2. ASSUME NEW r \in Requests, HandleLock(r) PROVE Steady
  BY <1>2, HandleLockKeeps
<1>3. ASSUME NEW r \in Requests, HandleNew(r) PROVE Steady
  BY <1>3, HandleNewKeeps
<1>4. ASSUME NEW r \in Requests, Spawned(r) PROVE Steady
  BY <1>4, SpawnedKeeps
<1>5. ASSUME NEW r \in Requests, HandleRelease(r) PROVE Steady
  BY <1>5, HandleReleaseKeeps
<1>6. ASSUME NEW r \in Requests, HandleUnlock(r) PROVE Steady
  BY <1>6, HandleUnlockKeeps
<1>7. ASSUME NEW r \in Requests, ResumeUnlock(r) PROVE Steady
  BY <1>7, ResumeUnlockKeeps
<1>8. ASSUME NEW r \in Requests, CellQuery(r) PROVE Steady
  BY <1>8, CellQueryKeeps
<1>9. ASSUME NEW r \in Requests, CellPatch(r) PROVE [A!Next]_(A!vars)
  BY <1>9, PatchStutters
<1>10. ASSUME NEW c \in Cells, CellExit(c) PROVE Steady
  BY <1>10, CellExitKeeps
<1>11. ASSUME NEW r \in Requests, StartQuery(r) PROVE Steady
  BY <1>11, StartQueryKeeps
<1>12. ASSUME NEW r \in Requests, Receive(r) PROVE [A!Next]_(A!vars)
  BY <1>12, ReceiveBegins
<1>13. ASSUME NEW r \in Requests, Close(r) PROVE [A!Next]_(A!vars)
  <2>1. A!Commit(r)
    BY <1>13, CloseCommits
  <2> QED
    BY <2>1 DEF A!Next
<1>14. ASSUME NEW r \in Requests, Query(r) \/ New(r) \/ Release(r) PROVE Steady
  BY <1>14, BeginKeeps
<1>15. CASE UNCHANGED vars
  <2>1. UNCHANGED <<state, locked, waitting, spawned, inbox, copy, req>> /\ cell' = cell
    BY <1>15 DEF vars
  <2>2. cell' \in [Cells -> [t : State, patches : Seq(Patches),
                             status : {"none", "up", "leaving", "gone"}]]
    BY <2>1 DEF LayerInv, TypeOK
  <2>3. \A c \in Cells : cell'[c].t = cell[c].t /\ cell'[c].patches = cell[c].patches
    BY <2>1
  <2>4. Steady
    BY <2>1, <2>2, <2>3, StillKeeps
  <2> QED
    BY <1>1, <2>4
<1>16. CASE Next
  BY <1>1, <1>2, <1>3, <1>4, <1>5, <1>6, <1>7, <1>8, <1>9, <1>10, <1>11, <1>12, <1>13,
     <1>14, <1>16 DEF Next, ManagerStep, CellStep, WorkerStep, Begin
<1> QED
  BY <1>15, <1>16

(* Requests are transactions (README.md l.36, l.42): what one sees is what all
   its states are at one moment, nobody else has them while it works, and its
   changes happen at one moment, however they get into the cells.  The state of
   a name is made once. *)
THEOREM RequestsAreTransactions == MaxMakes = 1 => (Spec => ImplementsTransactions)
<1> SUFFICES ASSUME MaxMakes = 1
             PROVE  Spec => ImplementsTransactions
  OBVIOUS
<1>1. Init => LayerInv
  BY InitKeeps
<1>2. LayerInv /\ [Next]_vars => LayerInv'
  BY NextKeeps
<1>3. LayerInv => Readable
  BY InvReadable
<1>4. Init /\ LayerInv => A!Init
  BY InitMaps
<1>5. LayerInv /\ Readable /\ Readable' /\ [Next]_vars => [A!Next]_(A!vars)
  BY NextMaps
<1> QED
  BY <1>1, <1>2, <1>3, <1>4, <1>5, PTL DEF Spec, ImplementsTransactions, A!Spec

=============================================================================
