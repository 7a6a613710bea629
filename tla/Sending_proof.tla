---------------------------- MODULE Sending_proof ----------------------------
(***************************************************************************)
(* Proofs about Sending, for any number of receivers and timers and any    *)
(* size of the queues: a timer that was due is on its way to its service   *)
(* once, and not overtaken by a later one.                                 *)
(***************************************************************************)
EXTENDS Sending, SequenceTheorems, FiniteSetTheorems, WellFoundedInduction, TLAPS

(* The specification without its fairness *)
SendSpec == Init /\ [][Next]_vars

-----------------------------------------------------------------------------
(***************************************************************************)
(* Sequences of messages                                                   *)
(***************************************************************************)

(* Two queues are the same.  (The provers compare sequences element by element;
   where it is enough that they are equal, this is not to be seen.) *)
Same(p, q) == p = q

(* Concatenation of messages is associative. *)
LEMMA Together ==
  ASSUME NEW x \in Seq(Mail), NEW y \in Seq(Mail), NEW z \in Seq(Mail)
  PROVE  Same((x \o y) \o z, x \o (y \o z))
<1>1. (x \o y) \o z = x \o (y \o z)
  BY ConcatAssociative
<1> QED
  BY <1>1 DEF Same

(* It is a sequence of messages again. *)
LEMMA Joined ==
  ASSUME NEW x \in Seq(Mail), NEW y \in Seq(Mail)
  PROVE  x \o y \in Seq(Mail) /\ Len(x \o y) = Len(x) + Len(y)
BY ConcatProperties

(* What stands where in a concatenation. *)
Joint(p, q) ==
  /\ p \o q \in Seq(Mail)
  /\ Len(p) \in Nat /\ Len(q) \in Nat
  /\ DOMAIN p = 1..Len(p) /\ DOMAIN q = 1..Len(q)
  /\ DOMAIN (p \o q) = 1..(Len(p) + Len(q))
  /\ \A i \in DOMAIN (p \o q) :
       \/ i \in DOMAIN p /\ i <= Len(p) /\ (p \o q)[i] = p[i]
       \/ i - Len(p) \in DOMAIN q /\ i > Len(p) /\ (p \o q)[i] = q[i - Len(p)]
  /\ \A i \in DOMAIN p : i \in DOMAIN (p \o q) /\ (p \o q)[i] = p[i]
  /\ \A i \in DOMAIN q : /\ i + Len(p) \in DOMAIN (p \o q)
                         /\ (p \o q)[i + Len(p)] = q[i]

(* Every element of a concatenation is one of its two parts, at its place. *)
LEMMA Places ==
  ASSUME NEW p \in Seq(Mail), NEW q \in Seq(Mail)
  PROVE  Joint(p, q)
<1> DEFINE s == p \o q
<1>1. /\ s \in Seq(Mail) /\ Len(p) \in Nat /\ Len(q) \in Nat
      /\ Len(s) = Len(p) + Len(q) /\ DOMAIN p = 1..Len(p)
      /\ DOMAIN q = 1..Len(q) /\ DOMAIN s = 1..(Len(p) + Len(q))
      /\ \A i \in 1..(Len(p) + Len(q)) : s[i] = IF i <= Len(p) THEN p[i] ELSE q[i - Len(p)]
  BY ConcatProperties, LenProperties
<1> HIDE DEF s
<1>2. ASSUME NEW i \in DOMAIN s
      PROVE  \/ i \in DOMAIN p /\ i <= Len(p) /\ s[i] = p[i]
             \/ i - Len(p) \in DOMAIN q /\ i > Len(p) /\ s[i] = q[i - Len(p)]
  <2>1. i \in Int /\ 1 <= i /\ i <= Len(p) + Len(q)
    BY <1>1
  <2>2. CASE i <= Len(p)
    <3>1. i \in 1..Len(p)
      BY <2>1, <2>2, <1>1
    <3> QED
      BY <3>1, <2>2, <1>1
  <2>3. CASE i > Len(p)
    <3>1. i - Len(p) \in 1..Len(q) /\ ~(i <= Len(p))
      BY <2>1, <2>3, <1>1
    <3> QED
      BY <3>1, <2>3, <1>1
  <2> QED
    BY <2>1, <2>2, <2>3, <1>1
<1>3. ASSUME NEW i \in DOMAIN p PROVE i \in DOMAIN s /\ s[i] = p[i]
  <2>1. i \in 1..(Len(p) + Len(q)) /\ i <= Len(p)
    BY <1>1
  <2> QED
    BY <2>1, <1>1
<1>4. ASSUME NEW i \in DOMAIN q PROVE i + Len(p) \in DOMAIN s /\ s[i + Len(p)] = q[i]
  <2>1. /\ i + Len(p) \in 1..(Len(p) + Len(q)) /\ ~(i + Len(p) <= Len(p))
        /\ (i + Len(p)) - Len(p) = i
    BY <1>1
  <2>2. s[i + Len(p)] = q[(i + Len(p)) - Len(p)]
    BY <2>1, <1>1
  <2> QED
    BY <2>1, <2>2, <1>1
<1>5. /\ \A i \in DOMAIN s :
           \/ i \in DOMAIN p /\ i <= Len(p) /\ s[i] = p[i]
           \/ i - Len(p) \in DOMAIN q /\ i > Len(p) /\ s[i] = q[i - Len(p)]
      /\ \A i \in DOMAIN p : i \in DOMAIN s /\ s[i] = p[i]
      /\ \A i \in DOMAIN q : i + Len(p) \in DOMAIN s /\ s[i + Len(p)] = q[i]
  BY <1>2, <1>3, <1>4
<1> QED
  BY <1>1, <1>5 DEF Joint, s

(* Timers a + 1 to b, and behind them b + 1 to c, are a + 1 to c. *)
LEMMA RunsConcat ==
  ASSUME NEW p \in Seq(Mail), NEW q \in Seq(Mail), NEW d,
         NEW a \in Nat, NEW b \in Nat, NEW c \in Nat, Runs(p, d, a, b), Runs(q, d, b, c)
  PROVE  Runs(p \o q, d, a, c)
<1> DEFINE s == p \o q
<1>1. /\ Len(p) \in Nat /\ Len(q) \in Nat
      /\ DOMAIN p = 1..Len(p) /\ DOMAIN q = 1..Len(q) /\ DOMAIN s = 1..(Len(p) + Len(q))
      /\ \A i \in DOMAIN s :
           \/ i \in DOMAIN p /\ i <= Len(p) /\ s[i] = p[i]
           \/ i - Len(p) \in DOMAIN q /\ i > Len(p) /\ s[i] = q[i - Len(p)]
      /\ \A i \in DOMAIN p : i \in DOMAIN s /\ s[i] = p[i]
      /\ \A i \in DOMAIN q : i + Len(p) \in DOMAIN s /\ s[i + Len(p)] = q[i]
  BY Places DEF Joint
<1> HIDE DEF s
<1>2. a <= c
  BY DEF Runs
<1>3. ASSUME NEW i \in DOMAIN s, s[i][1] = d PROVE s[i][2] \in (a + 1)..c
  <2>1. (a + 1)..b \subseteq (a + 1)..c /\ (b + 1)..c \subseteq (a + 1)..c
    BY DEF Runs
  <2>2. s[i][2] \in (a + 1)..b \/ s[i][2] \in (b + 1)..c
    BY <1>1, <1>3 DEF Runs
  <2> QED
    BY <2>1, <2>2
<1>4. ASSUME NEW n \in (a + 1)..c PROVE \E i \in DOMAIN s : s[i][1] = d /\ s[i][2] = n
  <2>1. n \in (a + 1)..b \/ n \in (b + 1)..c
    OBVIOUS
  <2>2. CASE n \in (a + 1)..b
    <3>1. PICK i \in DOMAIN p : p[i][1] = d /\ p[i][2] = n
      BY <2>2 DEF Runs
    <3> QED
      BY <3>1, <1>1
  <2>3. CASE n \in (b + 1)..c
    <3>1. PICK i \in DOMAIN q : q[i][1] = d /\ q[i][2] = n
      BY <2>3 DEF Runs
    <3>2. i + Len(p) \in DOMAIN s /\ s[i + Len(p)] = q[i]
      BY <1>1
    <3> QED
      BY <3>1, <3>2
  <2> QED
    BY <2>1, <2>2, <2>3
<1>5. ASSUME NEW i \in DOMAIN s, NEW j \in DOMAIN s, i < j, s[i][1] = d, s[j][1] = d
      PROVE  s[i][2] < s[j][2]
  <2>0. i \in Int /\ j \in Int
    BY <1>1
  <2>1. CASE j <= Len(p)
    <3>1. i \in DOMAIN p /\ s[i] = p[i] /\ j \in DOMAIN p /\ s[j] = p[j]
      BY <1>1, <1>5, <2>0, <2>1
    <3> QED
      BY <3>1, <1>5 DEF Runs
  <2>2. CASE i > Len(p)
    <3>1. /\ i - Len(p) \in DOMAIN q /\ s[i] = q[i - Len(p)]
          /\ j - Len(p) \in DOMAIN q /\ s[j] = q[j - Len(p)]
          /\ i - Len(p) < j - Len(p)
      BY <1>1, <1>5, <2>0, <2>2
    <3> QED
      BY <3>1, <1>5 DEF Runs
  <2>3. CASE i <= Len(p) /\ j > Len(p)
    <3>1. i \in DOMAIN p /\ s[i] = p[i] /\ j - Len(p) \in DOMAIN q /\ s[j] = q[j - Len(p)]
      BY <1>1, <2>0, <2>3
    <3>2. s[i][2] \in (a + 1)..b /\ s[j][2] \in (b + 1)..c
      BY <3>1, <1>5 DEF Runs
    <3> QED
      BY <3>2
  <2> QED
    BY <2>0, <2>1, <2>2, <2>3, <1>1
<1>6. Runs(s, d, a, c)
  BY <1>2, <1>3, <1>4, <1>5 DEF Runs
<1> QED
  BY <1>6 DEF s

(* Messages to others do not count. *)
LEMMA RunsNone ==
  ASSUME NEW p, NEW d, NEW a \in Nat, \A i \in DOMAIN p : p[i][1] # d
  PROVE  Runs(p, d, a, a)
<1>1. (a + 1)..a = {}
  OBVIOUS
<1> QED
  BY <1>1 DEF Runs

(* Two sequences that have the same messages to d, in the same order *)
LEMMA RunsMap ==
  ASSUME NEW p, NEW q, NEW d, NEW a \in Nat, NEW b \in Nat, Runs(p, d, a, b),
         NEW f, NEW g,
         \A i \in DOMAIN p : p[i][1] = d => f[i] \in DOMAIN q /\ q[f[i]] = p[i],
         \A j \in DOMAIN q : q[j][1] = d => g[j] \in DOMAIN p /\ p[g[j]] = q[j],
         \A i, j \in DOMAIN q : i < j /\ q[i][1] = d /\ q[j][1] = d => g[i] < g[j]
  PROVE  Runs(q, d, a, b)
<1>1. a <= b
  BY DEF Runs
<1>2. ASSUME NEW j \in DOMAIN q, q[j][1] = d PROVE q[j][2] \in (a + 1)..b
  BY <1>2 DEF Runs
<1>3. ASSUME NEW n \in (a + 1)..b PROVE \E j \in DOMAIN q : q[j][1] = d /\ q[j][2] = n
  <2>1. PICK i \in DOMAIN p : p[i][1] = d /\ p[i][2] = n
    BY DEF Runs
  <2> QED
    BY <2>1
<1>4. ASSUME NEW i \in DOMAIN q, NEW j \in DOMAIN q, i < j, q[i][1] = d, q[j][1] = d
      PROVE  q[i][2] < q[j][2]
  <2>1. /\ g[i] \in DOMAIN p /\ p[g[i]] = q[i] /\ g[j] \in DOMAIN p /\ p[g[j]] = q[j]
        /\ g[i] < g[j]
    BY <1>4
  <2> QED
    BY <2>1, <1>4 DEF Runs
<1> QED
  BY <1>1, <1>2, <1>3, <1>4 DEF Runs

(* Messages to others may be left out, or put in, anywhere. *)
LEMMA RunsSkip ==
  ASSUME NEW p \in Seq(Mail), NEW u \in Seq(Mail), NEW q \in Seq(Mail), NEW d,
         NEW a \in Nat, NEW b \in Nat, \A i \in DOMAIN u : u[i][1] # d
  PROVE  Runs(p \o (u \o q), d, a, b) <=> Runs(p \o q, d, a, b)
<1> DEFINE t == u \o q
           s == p \o t
           r == p \o q
           P == Len(p)
           U == Len(u)
<1>1. /\ t \in Seq(Mail) /\ P \in Nat /\ U \in Nat
      /\ \A i \in DOMAIN t : \/ i \in DOMAIN u /\ t[i] = u[i]
                             \/ i - U \in DOMAIN q /\ i > U /\ t[i] = q[i - U]
      /\ \A i \in DOMAIN q : i + U \in DOMAIN t /\ t[i + U] = q[i]
  <2> HIDE DEF s, r, P
  <2>1. t \in Seq(Mail) /\ Len(p) \in Nat
    BY Joined, LenProperties
  <2> HIDE DEF t
  <2>2. /\ \A i \in DOMAIN t : \/ i \in DOMAIN u /\ t[i] = u[i]
                               \/ i - U \in DOMAIN q /\ i > U /\ t[i] = q[i - U]
        /\ \A i \in DOMAIN q : i + U \in DOMAIN t /\ t[i + U] = q[i]
        /\ U \in Nat
    <3>1. Joint(u, q)
      BY Places
    <3> QED
      BY <3>1 DEF Joint, t
  <2> QED
    BY <2>1, <2>2 DEF P
<1>2. /\ DOMAIN s \subseteq Int /\ DOMAIN r \subseteq Int
      /\ DOMAIN p = 1..P /\ DOMAIN q = 1..Len(q) /\ DOMAIN t = 1..Len(t)
      /\ \A i \in DOMAIN s : \/ i \in DOMAIN p /\ i <= P /\ s[i] = p[i]
                             \/ i - P \in DOMAIN t /\ i > P /\ s[i] = t[i - P]
      /\ \A i \in DOMAIN p : i \in DOMAIN s /\ s[i] = p[i]
      /\ \A i \in DOMAIN t : i + P \in DOMAIN s /\ s[i + P] = t[i]
  <2> HIDE DEF t
  <2>1. /\ Len(t) \in Nat /\ DOMAIN t = 1..Len(t) /\ DOMAIN s = 1..(P + Len(t))
        /\ DOMAIN p = 1..P
        /\ \A i \in DOMAIN s : \/ i \in DOMAIN p /\ i <= P /\ s[i] = p[i]
                               \/ i - P \in DOMAIN t /\ i > P /\ s[i] = t[i - P]
        /\ \A i \in DOMAIN p : i \in DOMAIN s /\ s[i] = p[i]
        /\ \A i \in DOMAIN t : i + P \in DOMAIN s /\ s[i + P] = t[i]
    <3>1. t \in Seq(Mail)
      BY <1>1
    <3> QED
      BY <3>1, Places DEF Joint
  <2>2. DOMAIN r = 1..(P + Len(q)) /\ DOMAIN q = 1..Len(q)
    BY Places DEF Joint
  <2>3. DOMAIN s \subseteq Int /\ DOMAIN r \subseteq Int
    BY <2>1, <2>2
  <2> HIDE DEF s, r, P
  <2> QED
    BY <2>1, <2>2, <2>3
<1>3. /\ \A i \in DOMAIN r : \/ i \in DOMAIN p /\ i <= P /\ r[i] = p[i]
                             \/ i - P \in DOMAIN q /\ i > P /\ r[i] = q[i - P]
      /\ \A i \in DOMAIN p : i \in DOMAIN r /\ r[i] = p[i]
      /\ \A i \in DOMAIN q : i + P \in DOMAIN r /\ r[i + P] = q[i]
  BY Places DEF Joint
<1> HIDE DEF t, s, r, P, U
<1> DEFINE f == [i \in DOMAIN s |-> IF i <= P THEN i ELSE i - U]
           g == [j \in DOMAIN r |-> IF j <= P THEN j ELSE j + U]
<1>4. ASSUME NEW i \in DOMAIN s, s[i][1] = d
      PROVE  /\ f[i] \in DOMAIN r /\ r[f[i]] = s[i]
             /\ i > P => i - U > P
  <2>1. CASE i \in DOMAIN p /\ i <= P /\ s[i] = p[i]
    <3>1. f[i] = i /\ ~(i > P)
      BY <2>1, <1>2, <1>1
    <3> QED
      BY <3>1, <2>1, <1>3
  <2>2. CASE i - P \in DOMAIN t /\ i > P /\ s[i] = t[i - P]
    <3>1. /\ (i - P) - U \in DOMAIN q /\ i - P > U /\ t[i - P] = q[(i - P) - U]
      BY <2>2, <1>1, <1>4
    <3>0. i \in Int /\ P \in Int /\ U \in Int /\ ~(i <= P)
      BY <2>2, <1>1, <1>2
    <3>2. i - U > P /\ ((i - P) - U) + P = i - U
      BY <3>0, <3>1
    <3>4. f[i] = i - U
      BY <3>0
    <3>3. ((i - P) - U) + P \in DOMAIN r /\ r[((i - P) - U) + P] = q[(i - P) - U]
      BY <3>1, <1>3
    <3> QED
      BY <3>1, <3>2, <3>3, <3>4, <2>2
  <2> QED
    BY <2>1, <2>2, <1>2
<1>5. ASSUME NEW j \in DOMAIN r, r[j][1] = d PROVE g[j] \in DOMAIN s /\ s[g[j]] = r[j]
  <2>1. CASE j \in DOMAIN p /\ j <= P /\ r[j] = p[j]
    <3>1. g[j] = j
      BY <2>1
    <3> QED
      BY <3>1, <2>1, <1>2
  <2>2. CASE j - P \in DOMAIN q /\ j > P /\ r[j] = q[j - P]
    <3>1. (j - P) + U \in DOMAIN t /\ t[(j - P) + U] = q[j - P]
      BY <2>2, <1>1
    <3>2. ((j - P) + U) + P \in DOMAIN s /\ s[((j - P) + U) + P] = q[j - P]
      BY <3>1, <1>2
    <3>3. g[j] = j + U /\ ((j - P) + U) + P = j + U
      BY <2>2, <1>1, <1>2
    <3> QED
      BY <3>2, <3>3, <2>2
  <2> QED
    BY <2>1, <2>2, <1>3
<1>6. ASSUME NEW i \in DOMAIN r, NEW j \in DOMAIN r, i < j PROVE g[i] < g[j]
  BY <1>6, <1>1, <1>2
<1>7. ASSUME NEW i \in DOMAIN s, NEW j \in DOMAIN s, i < j, s[i][1] = d, s[j][1] = d
      PROVE  f[i] < f[j]
  <2>1. (i > P => i - U > P) /\ (j > P => j - U > P) /\ i \in Int /\ j \in Int
    BY <1>4, <1>7, <1>2
  <2> QED
    BY <2>1, <1>7, <1>1
<1> HIDE DEF f, g
<1>8. Runs(s, d, a, b) => Runs(r, d, a, b)
  BY <1>4, <1>5, <1>6, RunsMap
<1>9. Runs(r, d, a, b) => Runs(s, d, a, b)
  BY <1>4, <1>5, <1>7, RunsMap
<1> QED
  BY <1>8, <1>9 DEF s, r, t

(* The first message to d is the timer after a. *)
LEMMA RunsFirst ==
  ASSUME NEW m \in Mail, NEW q \in Seq(Mail), NEW d, NEW a \in Nat, NEW b \in Nat,
         m[1] = d, Runs(<<m>> \o q, d, a, b)
  PROVE  m[2] = a + 1 /\ a + 1 <= b /\ Runs(q, d, a + 1, b)
<1> DEFINE s == <<m>> \o q
<1>1. /\ Len(q) \in Nat /\ DOMAIN q = 1..Len(q) /\ DOMAIN s = 1..(1 + Len(q))
      /\ 1 \in DOMAIN s /\ s[1] = m
      /\ \A i \in DOMAIN s : i = 1 \/ (i - 1 \in DOMAIN q /\ s[i] = q[i - 1])
      /\ \A i \in DOMAIN q : i + 1 \in DOMAIN s /\ s[i + 1] = q[i]
  <2>1. <<m>> \in Seq(Mail) /\ Len(<<m>>) = 1 /\ 1 \in DOMAIN <<m>> /\ <<m>>[1] = m
    OBVIOUS
  <2> HIDE DEF s
  <2>2. /\ Len(q) \in Nat /\ DOMAIN q = 1..Len(q) /\ DOMAIN s = 1..(1 + Len(q))
        /\ DOMAIN <<m>> = 1..1
        /\ \A i \in DOMAIN s : \/ i \in DOMAIN <<m>>
                               \/ i - 1 \in DOMAIN q /\ s[i] = q[i - 1]
        /\ \A i \in DOMAIN <<m>> : i \in DOMAIN s /\ s[i] = <<m>>[i]
        /\ \A i \in DOMAIN q : i + 1 \in DOMAIN s /\ s[i + 1] = q[i]
    BY <2>1, Places DEF Joint, s
  <2>3. \A i \in DOMAIN <<m>> : i = 1
    BY <2>2
  <2> QED
    BY <2>1, <2>2, <2>3
<1> HIDE DEF s
<1>2. /\ \A i \in DOMAIN s : s[i][1] = d => s[i][2] \in (a + 1)..b
      /\ \A n \in (a + 1)..b : \E i \in DOMAIN s : s[i][1] = d /\ s[i][2] = n
      /\ \A i, j \in DOMAIN s : i < j /\ s[i][1] = d /\ s[j][1] = d => s[i][2] < s[j][2]
  BY DEF Runs, s
<1>3. m[2] \in (a + 1)..b
  BY <1>1, <1>2
<1>4. m[2] = a + 1 /\ a + 1 <= b
  <2>1. a + 1 \in (a + 1)..b
    BY <1>3
  <2>2. PICK i \in DOMAIN s : s[i][1] = d /\ s[i][2] = a + 1
    BY <2>1, <1>2
  <2>3. i = 1 \/ 1 < i
    BY <1>1
  <2>4. ~(1 < i)
    <3>1. 1 < i => m[2] < a + 1
      BY <2>2, <1>1, <1>2
    <3> QED
      BY <3>1, <1>3
  <2> QED
    BY <2>2, <2>3, <2>4, <1>1, <1>3
<1>5. ASSUME NEW i \in DOMAIN q, q[i][1] = d PROVE q[i][2] \in ((a + 1) + 1)..b
  <2>1. i + 1 \in DOMAIN s /\ s[i + 1] = q[i] /\ 1 < i + 1
    BY <1>1
  <2>2. m[2] < q[i][2] /\ q[i][2] \in (a + 1)..b
    BY <2>1, <1>1, <1>2, <1>5
  <2> QED
    BY <2>2, <1>4
<1>6. ASSUME NEW n \in ((a + 1) + 1)..b PROVE \E i \in DOMAIN q : q[i][1] = d /\ q[i][2] = n
  <2>1. n \in (a + 1)..b /\ n # a + 1
    OBVIOUS
  <2>2. PICK i \in DOMAIN s : s[i][1] = d /\ s[i][2] = n
    BY <2>1, <1>2
  <2>3. i # 1
    BY <2>1, <2>2, <1>1, <1>4
  <2> QED
    BY <2>2, <2>3, <1>1
<1>7. ASSUME NEW i \in DOMAIN q, NEW j \in DOMAIN q, i < j, q[i][1] = d, q[j][1] = d
      PROVE  q[i][2] < q[j][2]
  <2>1. /\ i + 1 \in DOMAIN s /\ s[i + 1] = q[i]
        /\ j + 1 \in DOMAIN s /\ s[j + 1] = q[j] /\ i + 1 < j + 1
    BY <1>1, <1>7
  <2> QED
    BY <2>1, <1>7, <1>2
<1> QED
  BY <1>4, <1>5, <1>6, <1>7 DEF Runs

-----------------------------------------------------------------------------
(***************************************************************************)
(* The burst                                                               *)
(***************************************************************************)

(* The timers of d among the first i of a burst *)
Upto(burst, d, i) == Cardinality({j \in 1..i : burst[j] = d})

(* A set of natural numbers has a least one. *)
LEMMA NatLeast ==
  ASSUME NEW T, T \subseteq Nat, T # {}
  PROVE  \E x \in T : \A y \in T : x <= y
<1> DEFINE R == OpToRel(<, Nat)
<1>1. IsWellFoundedOn(R, Nat)
  BY NatLessThanWellFounded
<1>2. \A x, y \in Nat : x < y => <<x, y>> \in R
  BY DEF OpToRel
<1> HIDE DEF R
<1>3. PICK x \in T : \A y \in T : ~(<<y, x>> \in R)
  BY <1>1, WFMin
<1>4. ASSUME NEW y \in T PROVE x <= y
  <2>1. ~(y < x)
    BY <1>2, <1>3
  <2> QED
    BY <2>1
<1> QED
  BY <1>4

(* What the count of d's timers in the first i of a burst does as i grows. *)
Grows(burst, d, n) ==
  /\ \A i \in 0..n : Upto(burst, d, i) \in Nat
  /\ Upto(burst, d, 0) = 0
  /\ \A i, j \in 0..n : i <= j => Upto(burst, d, i) <= Upto(burst, d, j)
  /\ \A i \in 1..n : Upto(burst, d, i) =
       Upto(burst, d, i - 1) + (IF burst[i] = d THEN 1 ELSE 0)

(* It grows by one with every timer of d, and takes every value on its way. *)
LEMMA UptoGrows ==
  ASSUME NEW n \in Nat, NEW burst \in [1..n -> Receiver], NEW d
  PROVE  Grows(burst, d, n)
<1> DEFINE A(i) == {j \in 1..i : burst[j] = d}
           C(i) == Upto(burst, d, i)
<1>1. ASSUME NEW i \in 0..n PROVE IsFiniteSet(A(i)) /\ C(i) \in Nat
  <2>1. IsFiniteSet(1..i) /\ A(i) \subseteq 1..i
    BY FS_Interval
  <2>2. IsFiniteSet(A(i))
    BY <2>1, FS_Subset
  <2> QED
    BY <2>2, FS_CardinalityType DEF Upto
<1>2. C(0) = 0
  <2>1. A(0) = {}
    OBVIOUS
  <2> QED
    BY <2>1, FS_EmptySet DEF Upto
<1>3. ASSUME NEW i \in 0..n, NEW j \in 0..n, i <= j PROVE C(i) <= C(j)
  <2>1. A(i) \subseteq A(j)
    BY <1>3
  <2>2. Cardinality(A(i)) <= Cardinality(A(j))
    BY <2>1, <1>1, FS_Subset
  <2> QED
    BY <2>2 DEF Upto
<1>4. ASSUME NEW i \in 1..n PROVE C(i) = C(i - 1) + (IF burst[i] = d THEN 1 ELSE 0)
  <2>1. i - 1 \in 0..n /\ i \notin A(i - 1)
    OBVIOUS
  <2>2. IsFiniteSet(A(i - 1)) /\ C(i - 1) \in Nat
    BY <2>1, <1>1
  <2>3. CASE burst[i] = d
    <3>1. A(i) = A(i - 1) \cup {i}
      BY <2>3
    <3>2. Cardinality(A(i)) = Cardinality(A(i - 1)) + 1
      BY <2>1, <2>2, <3>1, FS_AddElement
    <3> QED
      BY <3>2, <2>3 DEF Upto
  <2>4. CASE burst[i] # d
    <3>1. A(i) = A(i - 1)
      BY <2>4
    <3>2. C(i) = C(i - 1)
      BY <3>1 DEF Upto
    <3> HIDE DEF C
    <3> QED
      BY <3>2, <2>2, <2>4
  <2> QED
    BY <2>3, <2>4
<1> QED
  BY <1>1, <1>2, <1>3, <1>4 DEF Grows

(* The messages of a burst are the timers of each service that follow those
   which were due before (execute_timer). *)
LEMMA BurstRuns ==
  ASSUME NEW n \in Nat, NEW burst \in [1..n -> Receiver], NEW d \in Receiver,
         fired \in [Receiver -> Nat]
  PROVE  /\ Upto(burst, d, n) \in Nat
         /\ Runs(DueMail(burst), d, fired[d], fired[d] + Upto(burst, d, n))
<1> DEFINE ms == DueMail(burst)
           C(i) == Upto(burst, d, i)
           a == fired[d]
<1>1. /\ a \in Nat /\ \A i \in 0..n : C(i) \in Nat
      /\ C(0) = 0 /\ \A i, j \in 0..n : i <= j => C(i) <= C(j)
      /\ \A i \in 1..n : C(i) = C(i - 1) + (IF burst[i] = d THEN 1 ELSE 0)
  <2>1. a \in Nat
    OBVIOUS
  <2> HIDE DEF a
  <2>2. /\ \A i \in 0..n : C(i) \in Nat
        /\ C(0) = 0
        /\ \A i, j \in 0..n : i <= j => C(i) <= C(j)
        /\ \A i \in 1..n : C(i) = C(i - 1) + (IF burst[i] = d THEN 1 ELSE 0)
    <3>1. Grows(burst, d, n)
      BY UptoGrows
    <3> QED
      BY <3>1 DEF Grows
  <2> QED
    BY <2>1, <2>2
<1>2. /\ DOMAIN ms = 1..n
      /\ \A i \in 1..n : ms[i][1] = burst[i]
      /\ \A i \in 1..n : burst[i] = d => ms[i][2] = a + C(i)
  BY DEF DueMail, Upto
<1> HIDE DEF ms, C, a
<1>3. ASSUME NEW i \in 1..n, burst[i] = d PROVE C(i) \in 1..C(n) /\ C(i) = C(i - 1) + 1
  <2>1. i - 1 \in 0..n /\ i \in 0..n /\ n \in 0..n /\ i <= n
    OBVIOUS
  <2> QED
    BY <2>1, <1>1, <1>3
<1>4. ASSUME NEW v \in 1..C(n) PROVE \E i \in 1..n : burst[i] = d /\ C(i) = v
  <2> DEFINE T == {i \in 1..n : v <= C(i)}
  <2>1. n \in 0..n /\ C(n) \in Nat /\ v \in Nat /\ 0 < v /\ v <= C(n)
    BY <1>1
  <2>2. n \in T /\ T \subseteq Nat
    BY <2>1, <1>1
  <2>3. PICK i \in T : \A y \in T : i <= y
    BY <2>2, NatLeast
  <2>4. i - 1 \in 0..n /\ C(i - 1) \in Nat /\ i - 1 \notin T
    BY <2>3, <1>1
  <2>5. C(i - 1) < v
    BY <2>4, <2>1, <1>1
  <2>6. i \in 1..n /\ v <= C(i) /\ C(i) = C(i - 1) + (IF burst[i] = d THEN 1 ELSE 0)
    BY <2>3, <1>1
  <2>7. burst[i] = d
    BY <2>1, <2>4, <2>5, <2>6
  <2> QED
    BY <2>1, <2>4, <2>5, <2>6, <2>7
<1>5. ASSUME NEW i \in 1..n, NEW j \in 1..n, i < j, burst[j] = d PROVE C(i) < C(j)
  <2>1. i \in 0..n /\ j - 1 \in 0..n /\ i <= j - 1
    BY <1>5
  <2>2. C(i) <= C(j - 1) /\ C(i) \in Nat /\ C(j - 1) \in Nat
    BY <2>1, <1>1
  <2> QED
    BY <2>2, <1>3, <1>5
<1>6. C(n) \in Nat /\ a <= a + C(n)
  BY <1>1
<1>7. ASSUME NEW i \in DOMAIN ms, ms[i][1] = d PROVE ms[i][2] \in (a + 1)..(a + C(n))
  <2>1. i \in 1..n /\ burst[i] = d
    BY <1>2, <1>7
  <2>2. ms[i][2] = a + C(i) /\ C(i) \in 1..C(n)
    BY <2>1, <1>2, <1>3
  <2> QED
    BY <2>2, <1>1, <1>6
<1>8. ASSUME NEW v \in (a + 1)..(a + C(n))
      PROVE  \E i \in DOMAIN ms : ms[i][1] = d /\ ms[i][2] = v
  <2>1. v - a \in 1..C(n)
    BY <1>1, <1>6
  <2>2. PICK i \in 1..n : burst[i] = d /\ C(i) = v - a
    BY <2>1, <1>4
  <2>3. i \in DOMAIN ms /\ ms[i][1] = d /\ ms[i][2] = a + (v - a)
    BY <2>2, <1>2
  <2>4. a + (v - a) = v
    BY <1>1
  <2> QED
    BY <2>3, <2>4
<1>9. ASSUME NEW i \in DOMAIN ms, NEW j \in DOMAIN ms, i < j, ms[i][1] = d, ms[j][1] = d
      PROVE  ms[i][2] < ms[j][2]
  <2>1. /\ i \in 0..n /\ j \in 0..n /\ ms[i][2] = a + C(i) /\ ms[j][2] = a + C(j)
        /\ C(i) < C(j)
    BY <1>2, <1>5, <1>9
  <2> QED
    BY <2>1, <1>1
<1> QED
  BY <1>6, <1>7, <1>8, <1>9 DEF Runs, ms, C, a

(* They are messages: no service has more timers than it may. *)
LEMMA BurstMail ==
  ASSUME NEW n \in Nat, NEW burst \in [1..n -> Receiver], fired \in [Receiver -> Nat],
         MaxTimers \in Nat, \A d \in Receiver : fired[d] + Upto(burst, d, n) <= MaxTimers
  PROVE  /\ DueMail(burst) \in Seq(Mail)
         /\ \A i \in DOMAIN DueMail(burst) : DueMail(burst)[i][1] \in Receiver
<1> DEFINE ms == DueMail(burst)
<1>1. ASSUME NEW i \in 1..n
      PROVE  ms[i] \in Receiver \X (1..MaxTimers) /\ ms[i][1] \in Receiver
  <2> DEFINE d == burst[i]
  <2>1. d \in Receiver /\ i \in 0..n /\ i - 1 \in 0..n /\ n \in 0..n /\ i <= n
    OBVIOUS
  <2>2. /\ Upto(burst, d, i) \in Nat /\ Upto(burst, d, n) \in Nat
        /\ Upto(burst, d, i) <= Upto(burst, d, n)
        /\ Upto(burst, d, i) = Upto(burst, d, i - 1) + 1 /\ Upto(burst, d, i - 1) \in Nat
    BY <2>1, UptoGrows DEF Grows
  <2>3. ms[i] = <<d, fired[d] + Upto(burst, d, i)>>
    BY DEF DueMail, Upto
  <2>4. fired[d] \in Nat /\ fired[d] + Upto(burst, d, n) <= MaxTimers
    BY <2>1
  <2> HIDE DEF d, ms
  <2>5. fired[d] + Upto(burst, d, i) \in 1..MaxTimers
    BY <2>2, <2>4
  <2> QED
    BY <2>1, <2>3, <2>5
<1>2. DOMAIN ms = 1..n /\ ms = [i \in 1..n |-> ms[i]]
  BY DEF DueMail
<1>3. ms \in Seq(Mail)
  <2>1. \A i \in 1..n : ms[i] \in Mail
    BY <1>1 DEF Mail
  <2>2. ms \in [1..n -> Mail]
    BY <1>2, <2>1
  <2> QED
    BY <2>2, SeqDef
<1> QED
  BY <1>1, <1>2, <1>3

-----------------------------------------------------------------------------
(***************************************************************************)
(* The queues                                                              *)
(***************************************************************************)

(* What the phases mean for the queue and the two tables: blocked_message once
   begun is never empty again, and then the loop does not come back. *)
PhaseInv ==
  /\ phase \in {"update", "post"} => left = 0 /\ blocked = <<>>
  /\ phase = "resume" => left = 0
  /\ phase # "post" => held = <<>>
  /\ phase = "wakeup" => /\ Len(sending) = SendingLen /\ left = Len(sending)
                        /\ blocked # <<>>

(* Messages are in the queue of the one they are for, and what execute_timer
   holds back is for services. *)
PlaceInv == /\ \A d \in Receiver : \A i \in DOMAIN inbox[d] : inbox[d][i][1] = d
            /\ \A i \in DOMAIN held : held[i][1] \in Receiver

(* The service has one message to itself, and only while it waits for it. *)
LoopInv ==
  /\ \A i \in DOMAIN sending : sending[i][1] = Self =>
       /\ sending[i] = <<Self, "loop">> /\ phase \notin {"update", "post"}
       /\ blocked = <<>> /\ inbox[Self] = <<>>
       /\ \A j \in DOMAIN sending : sending[j][1] = Self => j = i
  /\ inbox[Self] # <<>> => /\ phase \notin {"update", "post"}
                          /\ blocked = <<>> /\ Len(inbox[Self]) = 1

(* IsMarked with the marks mk *)
Marks(mk, x) == Len(mk) > BlockedIds \/ \E i \in DOMAIN mk : mk[i] = x

(* A service that has a message pushed back gets none until the next dispatch. *)
PushedInv ==
  phase = "dispatch" => \A i \in (left + 1)..Len(sending) : Marks(marked, sending[i][1])

SendInv == TypeOK /\ Pipeline /\ PhaseInv /\ PlaceInv /\ LoopInv /\ PushedInv

(* What there is room for and what not are the messages, in their order. *)
LEMMA FitOver ==
  ASSUME NEW ms \in Seq(Mail), sending \in Seq(Mail), SendingLen \in Nat,
         Len(sending) <= SendingLen
  PROVE  /\ Fit(ms) \in Seq(Mail) /\ Over(ms) \in Seq(Mail)
         /\ Fit(ms) \o Over(ms) = ms
         /\ sending \o Fit(ms) \in Seq(Mail) /\ Len(sending \o Fit(ms)) <= SendingLen
         /\ Over(ms) # <<>> => Len(sending \o Fit(ms)) = SendingLen
         /\ Over(ms) = <<>> => Fit(ms) = ms
         /\ \A i \in DOMAIN Fit(ms) : i \in DOMAIN ms /\ Fit(ms)[i] = ms[i]
         /\ \A i \in DOMAIN Over(ms) : /\ i + Len(Fit(ms)) \in DOMAIN ms
                                        /\ Over(ms)[i] = ms[i + Len(Fit(ms))]
<1> DEFINE k == IF Len(ms) < Room THEN Len(ms) ELSE Room
           f == Fit(ms)
           o == Over(ms)
<1>1. /\ Len(ms) \in Nat /\ DOMAIN ms = 1..Len(ms) /\ Len(sending) \in Nat
      /\ \A i \in 1..Len(ms) : ms[i] \in Mail
  BY LenProperties, ElementOfSeq
<1>2. k \in 0..Len(ms) /\ Len(sending) + k <= SendingLen
      /\ (k < Len(ms) => Len(sending) + k = SendingLen)
  BY <1>1 DEF Room
<1>3. f = SubSeq(ms, 1, k)
  BY DEF Fit
<1> HIDE DEF k
<1>0. k \in Int /\ Len(ms) \in Int /\ 0 <= k /\ k <= Len(ms)
  BY <1>1, <1>2
<1>4. f \in Seq(Mail) /\ Len(f) = k /\ \A i \in 1..k : f[i] = ms[i]
  <2>1. \A i \in 1..k : ms[i] \in Mail
    BY <1>1, <1>2
  <2> HIDE DEF f
  <2>2. /\ f \in Seq(Mail) /\ Len(f) = IF 1 <= k THEN k - 1 + 1 ELSE 0
        /\ \A i \in 1..(k - 1 + 1) : f[i] = ms[1 + i - 1]
    BY <2>1, <1>2, <1>3, SubSeqProperties
  <2>3. \A i \in 1..k : 1 + i - 1 = i
    BY <1>2
  <2> QED
    BY <2>2, <2>3, <1>2
<1>5. o = SubSeq(ms, k + 1, Len(ms))
  BY <1>4 DEF Over
<1>6. o \in Seq(Mail) /\ Len(o) = Len(ms) - k /\ \A i \in 1..(Len(ms) - k) : o[i] = ms[i + k]
  <2>1. \A i \in (k + 1)..Len(ms) : ms[i] \in Mail
    BY <1>1, <1>2
  <2> HIDE DEF o
  <2>2. /\ o \in Seq(Mail)
        /\ Len(o) = IF k + 1 <= Len(ms) THEN Len(ms) - (k + 1) + 1 ELSE 0
        /\ \A i \in 1..(Len(ms) - (k + 1) + 1) : o[i] = ms[(k + 1) + i - 1]
    BY <2>1, <1>1, <1>2, <1>5, SubSeqProperties
  <2>3. \A i \in 1..(Len(ms) - k) : (k + 1) + i - 1 = i + k
    BY <1>1, <1>2
  <2>4. Len(ms) - (k + 1) + 1 = Len(ms) - k
    BY <1>1, <1>2
  <2>5. Len(o) = Len(ms) - k
    BY <2>2, <1>0
  <2>6. ASSUME NEW i \in 1..(Len(ms) - k) PROVE o[i] = ms[i + k]
    <3>1. o[i] = ms[(k + 1) + i - 1]
      BY <2>2, <2>4
    <3> QED
      BY <3>1, <2>3
  <2> QED
    BY <2>2, <2>5, <2>6
<1> HIDE DEF f, o
<1>7. f \o o = ms
  <2>1. 1 \in 1..(Len(ms) + 1) /\ k \in (1 - 1)..Len(ms) /\ Len(ms) \in k..Len(ms)
    BY <1>1, <1>2
  <2>2. SubSeq(ms, 1, k) \o SubSeq(ms, k + 1, Len(ms)) = SubSeq(ms, 1, Len(ms))
    BY <2>1, ConcatAdjacentSubSeq
  <2>3. f \o o = SubSeq(ms, 1, Len(ms))
    BY <2>2, <1>3, <1>5
  <2> QED
    BY <2>3, SubSeqFull
<1>8. /\ DOMAIN f = 1..k /\ DOMAIN o = 1..(Len(ms) - k)
      /\ sending \o f \in Seq(Mail) /\ Len(sending \o f) = Len(sending) + k
  BY <1>4, <1>6, LenProperties, Joined
<1>9. ASSUME o # <<>> PROVE Len(sending \o f) = SendingLen
  <2>1. Len(o) \in Nat \ {0}
    BY <1>6, <1>9, EmptySeq
  <2>2. k < Len(ms)
    <3>1. Len(ms) - k \in Nat \ {0}
      BY <2>1, <1>6
    <3> QED
      BY <3>1, <1>0
  <2> QED
    BY <2>2, <1>2, <1>8
<1>10. o = <<>> => f = ms
  BY <1>4, <1>7, ConcatEmptySeq
<1>11. /\ \A i \in DOMAIN f : i \in DOMAIN ms /\ f[i] = ms[i]
       /\ \A i \in DOMAIN o : i + k \in DOMAIN ms /\ o[i] = ms[i + k]
  <2>1. \A i \in 1..(Len(ms) - k) : i + k \in 1..Len(ms)
    BY <1>1, <1>2
  <2>2. \A i \in 1..k : i \in 1..Len(ms)
    BY <1>1, <1>2
  <2> QED
    BY <2>1, <2>2, <1>1, <1>4, <1>6, <1>8
<1> QED
  BY <1>2, <1>4, <1>6, <1>7, <1>8, <1>9, <1>10, <1>11 DEF f, o

(* Outside a dispatch the sending queue is in its order. *)
LEMMA SendingOrder ==
  ASSUME NEW s \in Seq(Mail), NEW l, l = 0 \/ l = Len(s)
  PROVE  SubSeq(s, l + 1, Len(s)) \o SubSeq(s, 1, l) = s
<1>1. Len(s) \in Nat /\ SubSeq(s, 1, Len(s)) = s /\ s \o <<>> = s /\ <<>> \o s = s
  BY LenProperties, SubSeqFull, ConcatEmptySeq
<1>2. SubSeq(s, 1, 0) = <<>> /\ SubSeq(s, Len(s) + 1, Len(s)) = <<>> /\ 0 + 1 = 1
  <2>1. 1 \in Int /\ 0 \in Int /\ Len(s) \in Int /\ Len(s) + 1 \in Int
        /\ 0 < 1 /\ Len(s) < Len(s) + 1
    BY <1>1
  <2> QED
    BY <2>1, SubSeqEmpty
<1>3. CASE l = 0
  BY <1>1, <1>2, <1>3
<1>4. CASE l = Len(s)
  BY <1>1, <1>2, <1>4
<1> QED
  BY <1>3, <1>4

-----------------------------------------------------------------------------
(***************************************************************************)
(* The steps                                                               *)
(***************************************************************************)

(* The sizes are natural numbers. *)
LEMMA Sizes ==
  /\ QueueLen \in Nat /\ SendingLen \in Nat /\ BlockedIds \in Nat /\ MaxBurst \in Nat
  /\ MaxTimers \in Nat /\ Self \notin Receiver
BY SendingAssumption

(* A tick of the wheel puts its timers behind those that are on their way
   (exclusive.timer_update). *)
LEMMA TimerUpdateKeeps ==
  ASSUME SendInv, NEW burst \in Bursts, TimerUpdate(burst)
  PROVE  SendInv'
<1> DEFINE ms == DueMail(burst)
           f == Fit(ms)
           o == Over(ms)
<1>1. PICK n \in Nat : burst \in [1..n -> Receiver]
  BY DEF Bursts
<1>2. /\ phase = "update" /\ phase' = "post"
      /\ fired' = [d \in Receiver |->
                     fired[d] + Cardinality({j \in DOMAIN burst : burst[j] = d})]
      /\ \A d \in Receiver : fired'[d] <= MaxTimers
      /\ sending' = sending \o f /\ held' = o
      /\ left' = left /\ marked' = marked /\ blocked' = blocked
      /\ inbox' = inbox /\ taken' = taken
  BY DEF TimerUpdate, HeldBack
<1>3. /\ TypeOK /\ left = 0 /\ blocked = <<>> /\ held = <<>> /\ PlaceInv /\ LoopInv
      /\ Pipeline
  BY <1>2 DEF SendInv, PhaseInv
<1>4. /\ fired \in [Receiver -> Nat] /\ taken \in [Receiver -> 0..MaxTimers]
      /\ sending \in Seq(Mail) /\ Len(sending) <= SendingLen
      /\ marked \in Seq(Receiver) /\ blocked \in Seq(Mail)
      /\ inbox \in [Receiver \cup {Self} -> Seq(Mail)]
      /\ \A d \in Receiver : Len(inbox[d]) <= QueueLen
      /\ inbox[Self] \in Seq({<<Self, "loop">>})
  BY <1>3, Sizes DEF TypeOK
<1>5. \A d \in Receiver : /\ fired'[d] = fired[d] + Upto(burst, d, n)
                          /\ Upto(burst, d, n) \in Nat
                          /\ Runs(ms, d, fired[d], fired'[d])
  <2>1. DOMAIN burst = 1..n
    BY <1>1
  <2>2. ASSUME NEW d \in Receiver PROVE fired'[d] = fired[d] + Upto(burst, d, n)
    BY <1>2, <2>1 DEF Upto
  <2>3. ASSUME NEW d \in Receiver
        PROVE  Upto(burst, d, n) \in Nat /\ Runs(ms, d, fired[d], fired[d] + Upto(burst, d, n))
    BY <1>1, <1>4, BurstRuns
  <2> QED
    BY <2>2, <2>3
<1>6. ms \in Seq(Mail) /\ \A i \in DOMAIN ms : ms[i][1] \in Receiver
  <2>1. \A d \in Receiver : fired[d] + Upto(burst, d, n) <= MaxTimers
    BY <1>2, <1>5
  <2> QED
    BY <2>1, <1>1, <1>4, Sizes, BurstMail
<1> HIDE DEF ms
<1>7. /\ f \in Seq(Mail) /\ o \in Seq(Mail) /\ f \o o = ms
      /\ sending' \in Seq(Mail) /\ Len(sending') <= SendingLen
      /\ \A i \in DOMAIN f : i \in DOMAIN ms /\ f[i] = ms[i]
      /\ \A i \in DOMAIN o : i + Len(f) \in DOMAIN ms /\ o[i] = ms[i + Len(f)]
  BY <1>2, <1>4, <1>6, Sizes, FitOver
<1> HIDE DEF f, o
<1>8. TypeOK'
  <2>1. fired' \in [Receiver -> 0..MaxTimers]
    <3>1. ASSUME NEW d \in Receiver PROVE fired'[d] \in 0..MaxTimers
      <4>1. fired'[d] <= MaxTimers
        BY <1>2
      <4>2. fired[d] \in Nat /\ fired'[d] = fired[d] + Upto(burst, d, n)
        BY <1>4, <1>5
      <4>3. Upto(burst, d, n) \in Nat
        BY <1>5
      <4> QED
        BY <4>1, <4>2, <4>3, Sizes
    <3>2. fired' = [d \in Receiver |-> fired'[d]]
      BY <1>2
    <3> QED
      BY <3>1, <3>2
  <2>2. left' \in 0..Len(sending')
    BY <1>2, <1>3, <1>7, LenProperties
  <2> QED
    BY <2>1, <2>2, <1>2, <1>4, <1>7 DEF TypeOK
<1>9. Pipeline'
  <2>1. ASSUME NEW d \in Receiver PROVE Runs(Way(d)', d, taken'[d], fired'[d])
    <3> DEFINE b == inbox[d]
    <3>0. b \in Seq(Mail) /\ sending \o f \in Seq(Mail) /\ b \o sending \in Seq(Mail)
      BY <1>4, <1>7, Joined
    <3>1. Way(d) = b \o sending
      <4>1. InSendingOrder = sending
        BY <1>3, <1>4, SendingOrder DEF InSendingOrder
      <4>2. Way(d) = ((b \o InSendingOrder) \o <<>>) \o <<>>
        BY <1>3 DEF Way
      <4> QED
        BY <4>1, <4>2, <3>0, ConcatEmptySeq
    <3>2. Way(d)' = (b \o sending) \o ms
      <4>1. InSendingOrder' = sending'
        BY <1>2, <1>3, <1>7, SendingOrder DEF InSendingOrder
      <4>2. Way(d)' = ((b \o (sending \o f)) \o o) \o <<>>
        BY <4>1, <1>2, <1>3 DEF Way
      <4>3. (b \o (sending \o f)) \o o \in Seq(Mail)
        BY <3>0, <1>7, Joined
      <4>4. Way(d)' = (b \o (sending \o f)) \o o
        BY <4>2, <4>3, ConcatEmptySeq
      <4>5. (b \o (sending \o f)) \o o = (b \o sending) \o (f \o o)
        <5>1. /\ b \in Seq(Mail) /\ sending \in Seq(Mail)
              /\ f \in Seq(Mail) /\ o \in Seq(Mail)
          BY <3>0, <1>4, <1>7
        <5> HIDE DEF b
        <5>2. b \o (sending \o f) = (b \o sending) \o f
          <6>1. Same((b \o sending) \o f, b \o (sending \o f))
            BY <5>1, Together
          <6> QED
            BY <6>1 DEF Same
        <5>3. b \o sending \in Seq(Mail)
          BY <5>1, Joined
        <5>4. ((b \o sending) \o f) \o o = (b \o sending) \o (f \o o)
          <6>1. Same(((b \o sending) \o f) \o o, (b \o sending) \o (f \o o))
            BY <5>1, <5>3, Together
          <6> QED
            BY <6>1 DEF Same
        <5> QED
          BY <5>2, <5>4
      <4> QED
        BY <4>4, <4>5, <1>7
    <3>3. Runs(b \o sending, d, taken[d], fired[d])
      BY <1>3, <3>1 DEF Pipeline
    <3>4. taken[d] \in Nat /\ fired[d] \in Nat /\ fired'[d] \in Nat
      BY <1>4, <1>5, Sizes
    <3>5. Runs((b \o sending) \o ms, d, taken[d], fired'[d])
      BY <3>0, <3>3, <3>4, <1>5, <1>6, RunsConcat
    <3> QED
      BY <3>2, <3>5, <1>2
  <2> QED
    BY <2>1 DEF Pipeline
<1>10. PhaseInv' /\ PushedInv'
  BY <1>2, <1>3 DEF PhaseInv, PushedInv
<1>11. PlaceInv'
  BY <1>2, <1>3, <1>6, <1>7 DEF PlaceInv
<1>12. LoopInv'
  <2>1. inbox[Self] = <<>> /\ \A i \in DOMAIN sending : sending[i][1] # Self
    BY <1>2, <1>3 DEF LoopInv
  <2>2. ASSUME NEW i \in DOMAIN sending' PROVE sending'[i][1] # Self
    <3>1. \/ i \in DOMAIN sending /\ sending'[i] = sending[i]
          \/ i - Len(sending) \in DOMAIN f /\ sending'[i] = f[i - Len(sending)]
      BY <1>2, <1>4, <1>7, Places DEF Joint
    <3> QED
      BY <3>1, <2>1, <1>6, <1>7, Sizes
  <2> QED
    BY <2>1, <2>2, <1>2 DEF LoopInv
<1> QED
  BY <1>8, <1>9, <1>10, <1>11, <1>12 DEF SendInv

(* The queues and the tables hold messages. *)
LEMMA SendTypes ==
  ASSUME TypeOK
  PROVE  /\ fired \in [Receiver -> 0..MaxTimers] /\ taken \in [Receiver -> 0..MaxTimers]
         /\ \A d \in Receiver : fired[d] \in Nat /\ taken[d] \in Nat
         /\ sending \in Seq(Mail) /\ Len(sending) <= SendingLen /\ Len(sending) \in Nat
         /\ left \in 0..Len(sending) /\ marked \in Seq(Receiver)
         /\ held \in Seq(Mail) /\ blocked \in Seq(Mail)
         /\ inbox \in [Receiver \cup {Self} -> Seq(Mail)]
         /\ \A d \in Receiver : inbox[d] \in Seq(Mail) /\ Len(inbox[d]) <= QueueLen
         /\ inbox[Self] \in Seq({<<Self, "loop">>}) /\ inbox[Self] \in Seq(Mail)
BY Sizes, LenProperties DEF TypeOK

(* The messages execute_timer held back, and the wake-up of the loop, are put
   behind the others, in the queue or in blocked_message (exclusive.send). *)
LEMMA PostHeldKeeps ==
  ASSUME SendInv, PostHeld
  PROVE  SendInv'
<1> DEFINE loop == << <<Self, "loop">> >>
           ms == held \o loop
           f == Fit(ms)
           o == Over(ms)
<1>1. /\ phase = "post" /\ sending' = sending \o f /\ blocked' = blocked \o o
      /\ held' = <<>>
      /\ phase' = IF blocked = <<>> /\ blocked' # <<>> THEN "wakeup" ELSE "dispatch"
      /\ left' = Len(sending') /\ marked' = <<>>
      /\ fired' = fired /\ inbox' = inbox /\ taken' = taken
  BY DEF PostHeld, PostAll, Kept
<1>2. /\ TypeOK /\ left = 0 /\ blocked = <<>> /\ PlaceInv /\ LoopInv /\ Pipeline
  BY <1>1 DEF SendInv, PhaseInv
<1>3. /\ sending \in Seq(Mail) /\ Len(sending) <= SendingLen /\ Len(sending) \in Nat
      /\ held \in Seq(Mail)
  BY <1>2, SendTypes
<1>4. /\ loop \in Seq(Mail) /\ Len(loop) = 1 /\ DOMAIN loop = 1..1
      /\ loop[1] = <<Self, "loop">>
  <2>1. <<Self, "loop">> \in Mail
    BY DEF Mail, Wakeup
  <2> QED
    BY <2>1
<1> HIDE DEF loop
<1>5. /\ ms \in Seq(Mail) /\ Len(held) \in Nat
      /\ DOMAIN held = 1..Len(held) /\ DOMAIN ms = 1..(Len(held) + 1)
      /\ Len(ms) = Len(held) + 1
      /\ \A i \in DOMAIN ms : \/ i \in DOMAIN held /\ ms[i] = held[i]
                              \/ i - Len(held) \in 1..1 /\ ms[i] = loop[i - Len(held)]
  <2>1. held \in Seq(Mail) /\ loop \in Seq(Mail)
    BY <1>3, <1>4
  <2>2. /\ ms \in Seq(Mail) /\ Len(held) \in Nat /\ DOMAIN held = 1..Len(held)
        /\ DOMAIN ms = 1..(Len(held) + Len(loop)) /\ Len(ms) = Len(held) + Len(loop)
        /\ \A i \in DOMAIN ms :
             \/ i \in DOMAIN held /\ ms[i] = held[i]
             \/ i - Len(held) \in DOMAIN loop /\ ms[i] = loop[i - Len(held)]
    BY <2>1, Places, Joined DEF Joint
  <2> HIDE DEF ms
  <2> QED
    BY <2>2, <1>4
<1>6. \A i \in DOMAIN ms : \/ i \in DOMAIN held /\ ms[i][1] \in Receiver
                           \/ i = Len(ms) /\ ms[i] = <<Self, "loop">>
  <2>1. ASSUME NEW i \in DOMAIN ms
        PROVE  \/ i \in DOMAIN held /\ ms[i][1] \in Receiver
               \/ i = Len(ms) /\ ms[i] = <<Self, "loop">>
    <3>1. CASE i \in DOMAIN held /\ ms[i] = held[i]
      BY <3>1, <1>2 DEF PlaceInv
    <3>2. CASE i - Len(held) \in 1..1 /\ ms[i] = loop[i - Len(held)]
      <4>1. i \in Int
        BY <1>5
      <4>2. i - Len(held) = 1 /\ i = Len(held) + 1
        BY <3>2, <4>1, <1>5
      <4> QED
        BY <4>2, <3>2, <1>4, <1>5
    <3> QED
      BY <3>1, <3>2, <1>5
  <2> QED
    BY <2>1
<1> HIDE DEF ms
<1>7. /\ f \in Seq(Mail) /\ o \in Seq(Mail) /\ f \o o = ms
      /\ sending' \in Seq(Mail) /\ Len(sending') <= SendingLen
      /\ o # <<>> => Len(sending') = SendingLen
      /\ \A i \in DOMAIN f : i \in DOMAIN ms /\ f[i] = ms[i]
  BY <1>1, <1>3, <1>5, Sizes, FitOver
<1> HIDE DEF f, o
<1>8. blocked' = o /\ Len(sending') \in Nat
  BY <1>1, <1>2, <1>7, ConcatEmptySeq, LenProperties
<1>9. TypeOK'
  <2>1. left' \in 0..Len(sending')
    BY <1>1, <1>8
  <2>2. held' \in Seq(Mail) /\ marked' \in Seq(Receiver) /\ phase' \in {"wakeup", "dispatch"}
    BY <1>1
  <2> QED
    BY <2>1, <2>2, <1>1, <1>2, <1>7, <1>8 DEF TypeOK
<1>10. Pipeline'
  <2>1. ASSUME NEW d \in Receiver PROVE Runs(Way(d)', d, taken[d], fired[d])
    <3> DEFINE b == inbox[d]
               c == b \o sending
               w == c \o held
    <3>0. b \in Seq(Mail)
      BY <1>2, SendTypes
    <3> HIDE DEF b
    <3>a. sending \in Seq(Mail) /\ f \in Seq(Mail) /\ o \in Seq(Mail)
      BY <1>3, <1>7
    <3>1. c \in Seq(Mail)
      BY <3>0, <3>a, Joined
    <3>2. b \o (sending \o f) = c \o f
      <4>1. Same(c \o f, b \o (sending \o f))
        BY <3>0, <3>a, Together
      <4> QED
        BY <4>1 DEF Same
    <3>3. Way(d) = w \o <<>>
      <4>1. InSendingOrder = sending
        BY <1>2, <1>3, SendingOrder DEF InSendingOrder
      <4> QED
        BY <4>1, <1>2 DEF Way, b
    <3>4. Way(d)' = ((c \o f) \o <<>>) \o o
      <4>1. InSendingOrder' = sending'
        BY <1>1, <1>7, SendingOrder DEF InSendingOrder
      <4>2. Way(d)' = ((b \o (sending \o f)) \o <<>>) \o o
        BY <4>1, <1>1, <1>8 DEF Way, b
      <4> QED
        BY <4>2, <3>2
    <3> HIDE DEF c
    <3>5. w \in Seq(Mail) /\ Way(d) = w /\ c \o f \in Seq(Mail)
      BY <3>1, <3>3, <1>3, <1>7, Joined, ConcatEmptySeq
    <3>6. Way(d)' = w \o loop
      <4>1. Way(d)' = (c \o f) \o o
        BY <3>4, <3>5, ConcatEmptySeq
      <4>2. (c \o f) \o o = c \o (f \o o)
        <5>1. Same((c \o f) \o o, c \o (f \o o))
          BY <3>1, <3>a, Together
        <5> QED
          BY <5>1 DEF Same
      <4>3. (c \o held) \o loop = c \o (held \o loop)
        <5>1. Same((c \o held) \o loop, c \o (held \o loop))
          BY <3>1, <1>3, <1>4, Together
        <5> QED
          BY <5>1 DEF Same
      <4> QED
        BY <4>1, <4>2, <4>3, <1>7 DEF ms
    <3>7. Runs(w, d, taken[d], fired[d]) /\ taken[d] \in Nat /\ fired[d] \in Nat
      BY <3>5, <1>2, SendTypes DEF Pipeline
    <3>8. Runs(loop, d, fired[d], fired[d])
      <4>1. \A i \in DOMAIN loop : loop[i] = <<Self, "loop">>
        BY <1>4
      <4>2. \A i \in DOMAIN loop : loop[i][1] # d
        BY <4>1, Sizes
      <4> QED
        BY <4>2, <3>7, RunsNone
    <3> HIDE DEF w
    <3> QED
      BY <3>5, <3>6, <3>7, <3>8, <1>4, RunsConcat
  <2> QED
    BY <2>1, <1>1 DEF Pipeline
<1>11. PhaseInv'
  BY <1>1, <1>7, <1>8 DEF PhaseInv
<1>12. PlaceInv'
  BY <1>1, <1>2 DEF PlaceInv
<1>13. LoopInv'
  <2>1. inbox[Self] = <<>> /\ \A i \in DOMAIN sending : sending[i][1] # Self
    BY <1>1, <1>2 DEF LoopInv
  <2>2. ASSUME NEW i \in DOMAIN sending', sending'[i][1] = Self
        PROVE  sending'[i] = <<Self, "loop">> /\ i = Len(sending) + Len(ms) /\ o = <<>>
    <3>1. i \in DOMAIN sending' /\ DOMAIN sending' = 1..Len(sending')
      BY <1>7, LenProperties
    <3>2. i - Len(sending) \in DOMAIN f /\ sending'[i] = f[i - Len(sending)]
      BY <1>1, <1>3, <1>7, <2>1, <2>2, Places DEF Joint
    <3>3. /\ i - Len(sending) \in DOMAIN ms /\ sending'[i] = ms[i - Len(sending)]
      BY <3>2, <1>7
    <3>4. i - Len(sending) = Len(ms) /\ sending'[i] = <<Self, "loop">>
      BY <3>3, <2>2, <1>6, Sizes
    <3>5. Len(ms) \in 1..Len(f) /\ Len(ms) = Len(f) + Len(o) /\ Len(o) \in Nat
          /\ Len(f) \in Nat
      BY <3>2, <3>4, <1>7, LenProperties, Joined
    <3>6. Len(o) = 0
      BY <3>5
    <3>7. o = <<>>
      BY <3>6, <1>7, EmptySeq
    <3>8. i \in Int /\ Len(sending) \in Int
      BY <3>1, <1>3
    <3>9. i = Len(sending) + Len(ms)
      BY <3>4, <3>8
    <3> QED
      BY <3>4, <3>7, <3>9
  <2> QED
    BY <2>1, <2>2, <1>1, <1>8 DEF LoopInv
<1>14. PushedInv'
  <2>1. (left' + 1)..Len(sending') = {}
    BY <1>1, <1>8
  <2> QED
    BY <2>1 DEF PushedInv
<1> QED
  BY <1>9, <1>10, <1>11, <1>12, <1>13, <1>14 DEF SendInv

(* The coroutine that is to send the messages kept puts its own wake-up behind
   them (retry_blocked_message). *)
LEMMA RetrySleepKeeps ==
  ASSUME SendInv, RetrySleep
  PROVE  SendInv'
<1> DEFINE ms == << <<Self, "retry">> >>
           f == Fit(ms)
           o == Over(ms)
<1>1. /\ phase = "wakeup" /\ phase' = "dispatch"
      /\ sending' = sending \o f /\ blocked' = blocked \o o
      /\ left' = Len(sending') /\ marked' = <<>>
      /\ fired' = fired /\ held' = held /\ inbox' = inbox /\ taken' = taken
  BY DEF RetrySleep, PostAll, Kept
<1>2. /\ TypeOK /\ Len(sending) = SendingLen /\ left = Len(sending) /\ blocked # <<>>
      /\ held = <<>> /\ PlaceInv /\ LoopInv /\ Pipeline
  BY <1>1 DEF SendInv, PhaseInv
<1>3. /\ sending \in Seq(Mail) /\ Len(sending) <= SendingLen /\ Len(sending) \in Nat
      /\ blocked \in Seq(Mail)
  BY <1>2, SendTypes
<1>4. ms \in Seq(Mail) /\ \A i \in DOMAIN ms : ms[i][1] = Self
  <2>1. <<Self, "retry">> \in Mail
    BY DEF Mail, Wakeup
  <2>2. ms \in Seq(Mail) /\ DOMAIN ms = 1..1 /\ ms[1] = <<Self, "retry">>
    BY <2>1
  <2>3. \A i \in 1..1 : i = 1
    OBVIOUS
  <2> QED
    BY <2>2, <2>3
<1> HIDE DEF ms
<1>5. /\ f \in Seq(Mail) /\ o \in Seq(Mail) /\ f \o o = ms
      /\ Len(sending \o f) <= SendingLen
  BY <1>3, <1>4, Sizes, FitOver
<1> HIDE DEF f, o
<1>6. f = <<>>
  <2>1. Len(sending \o f) = Len(sending) + Len(f) /\ Len(f) \in Nat
    BY <1>3, <1>5, Joined, LenProperties
  <2>2. Len(f) = 0
    BY <2>1, <1>2, <1>3, <1>5
  <2> QED
    BY <2>2, <1>5, EmptySeq
<1>7. /\ o = ms /\ sending' = sending /\ blocked' = blocked \o ms
      /\ blocked' \in Seq(Mail) /\ blocked' # <<>>
  <2>1. o = ms /\ sending' = sending
    BY <1>1, <1>3, <1>5, <1>6, ConcatEmptySeq
  <2>2. blocked' = blocked \o ms
    BY <2>1, <1>1
  <2>3. blocked' \in Seq(Mail) /\ blocked' # <<>>
    BY <2>2, <1>2, <1>3, <1>4, Joined, ConcatEqualIffEmpty
  <2> QED
    BY <2>1, <2>2, <2>3
<1>8. TypeOK'
  <2>1. left' \in 0..Len(sending')
    BY <1>1, <1>3, <1>7
  <2>2. marked' \in Seq(Receiver) /\ phase' \in {"dispatch"}
    BY <1>1
  <2> QED
    BY <2>1, <2>2, <1>1, <1>2, <1>7 DEF TypeOK
<1>9. Pipeline'
  <2>1. ASSUME NEW d \in Receiver PROVE Runs(Way(d)', d, taken[d], fired[d])
    <3> DEFINE c == (inbox[d] \o sending) \o <<>>
               w == c \o blocked
    <3>1. inbox[d] \in Seq(Mail)
      BY <1>2, SendTypes
    <3>2. InSendingOrder = sending /\ InSendingOrder' = sending
      BY <1>1, <1>2, <1>3, <1>7, SendingOrder DEF InSendingOrder
    <3>3. Way(d) = w /\ Way(d)' = c \o (blocked \o ms)
      BY <3>2, <1>1, <1>2, <1>7 DEF Way
    <3>4. c \in Seq(Mail)
      <4>1. inbox[d] \o sending \in Seq(Mail)
        BY <3>1, <1>3, Joined
      <4> QED
        BY <4>1, ConcatEmptySeq
    <3> HIDE DEF c
    <3>5. w \in Seq(Mail) /\ Way(d)' = w \o ms
      <4>1. blocked \in Seq(Mail) /\ ms \in Seq(Mail)
        BY <1>3, <1>4
      <4>2. w \in Seq(Mail)
        BY <4>1, <3>4, Joined
      <4>3. (c \o blocked) \o ms = c \o (blocked \o ms)
        <5>1. Same((c \o blocked) \o ms, c \o (blocked \o ms))
          BY <4>1, <3>4, Together
        <5> QED
          BY <5>1 DEF Same
      <4> QED
        BY <4>2, <4>3, <3>3
    <3>6. Runs(w, d, taken[d], fired[d]) /\ taken[d] \in Nat /\ fired[d] \in Nat
      BY <3>3, <1>2, SendTypes DEF Pipeline
    <3>7. Runs(ms, d, fired[d], fired[d])
      BY <3>6, <1>4, Sizes, RunsNone
    <3> HIDE DEF w
    <3> QED
      BY <3>5, <3>6, <3>7, <1>4, RunsConcat
  <2> QED
    BY <2>1, <1>1 DEF Pipeline
<1>10. PhaseInv' /\ PlaceInv'
  BY <1>1, <1>2, <1>7 DEF PhaseInv, PlaceInv
<1>11. LoopInv'
  BY <1>1, <1>2, <1>7 DEF LoopInv
<1>12. PushedInv'
  <2>1. (left' + 1)..Len(sending') = {}
    BY <1>1, <1>3, <1>7
  <2> QED
    BY <2>1 DEF PushedInv
<1> QED
  BY <1>8, <1>9, <1>10, <1>11, <1>12 DEF SendInv

(* A part of a sequence, by its elements *)
LEMMA PartIs ==
  ASSUME NEW q \in Seq(Mail), NEW x \in 1..(Len(q) + 1), NEW y \in (x - 1)..Len(q),
         NEW r \in Seq(Mail), Len(r) = y - x + 1, \A i \in 1..Len(r) : r[i] = q[x + i - 1]
  PROVE  SubSeq(q, x, y) = r
<1>1. Len(q) \in Nat /\ \A i \in 1..Len(q) : q[i] \in Mail
  BY LenProperties, ElementOfSeq
<1>2. x \in Int /\ y \in Int /\ \A i \in x..y : q[i] \in Mail
  BY <1>1
<1>3. /\ SubSeq(q, x, y) \in Seq(Mail)
      /\ Len(SubSeq(q, x, y)) = IF x <= y THEN y - x + 1 ELSE 0
      /\ \A i \in 1..(y - x + 1) : SubSeq(q, x, y)[i] = q[x + i - 1]
  BY <1>2, SubSeqProperties
<1>4. Len(SubSeq(q, x, y)) = y - x + 1
  BY <1>2, <1>3
<1>5. \A i \in 1..Len(SubSeq(q, x, y)) : SubSeq(q, x, y)[i] = r[i]
  BY <1>3, <1>4
<1> QED
  BY <1>3, <1>4, <1>5, SeqEqual

(* What the dispatch has pushed back, and what it has not looked at, when it
   takes the first message away or puts it behind the last *)
LEMMA FirstMoved ==
  ASSUME NEW s \in Seq(Mail), NEW l \in 1..Len(s)
  PROVE  \E p \in Seq(Mail), u \in Seq(Mail) :
           /\ SubSeq(s, l + 1, Len(s)) = p
           /\ SubSeq(s, 1, l) = <<Head(s)>> \o u
           /\ SubSeq(Tail(s), (l - 1) + 1, Len(Tail(s))) = p
           /\ SubSeq(Tail(s), 1, l - 1) = u
           /\ LET a == Append(Tail(s), Head(s))
              IN /\ SubSeq(a, (l - 1) + 1, Len(a)) = p \o <<Head(s)>>
                 /\ SubSeq(a, 1, l - 1) = u
<1> DEFINE L == Len(s)
           m == Head(s)
           t == Tail(s)
           a == Append(t, m)
           p == SubSeq(s, l + 1, L)
           u == SubSeq(s, 2, l)
<1>1. L \in Nat /\ l \in Int /\ 1 <= l /\ l <= L /\ s # <<>>
      /\ \A i \in 1..L : s[i] \in Mail
  BY LenProperties, ElementOfSeq, EmptySeq
<1>2. /\ m \in Mail /\ m = s[1] /\ t \in Seq(Mail) /\ Len(t) = L - 1
      /\ \A i \in 1..(L - 1) : t[i] = s[i + 1]
  BY <1>1, HeadTailProperties
<1> HIDE DEF t, m
<1>3. /\ a \in Seq(Mail) /\ Len(a) = (L - 1) + 1 /\ a[(L - 1) + 1] = m
      /\ \A i \in 1..(L - 1) : a[i] = t[i]
  BY <1>2, AppendProperties
<1>4. Len(a) = L /\ a[L] = m
  BY <1>1, <1>3
<1> HIDE DEF a
<1>5. /\ p \in Seq(Mail) /\ Len(p) = L - l
      /\ \A i \in 1..(L - l) : p[i] = s[i + l]
  <2>1. \A i \in (l + 1)..L : s[i] \in Mail
    BY <1>1
  <2>2. /\ p \in Seq(Mail) /\ Len(p) = IF l + 1 <= L THEN L - (l + 1) + 1 ELSE 0
        /\ \A i \in 1..(L - (l + 1) + 1) : p[i] = s[(l + 1) + i - 1]
    BY <2>1, <1>1, SubSeqProperties
  <2> HIDE DEF p
  <2>3. Len(p) = L - l /\ L - (l + 1) + 1 = L - l
    BY <2>2, <1>1
  <2>4. ASSUME NEW i \in 1..(L - l) PROVE p[i] = s[i + l]
    <3>1. (l + 1) + i - 1 = i + l
      BY <1>1
    <3>2. p[i] = s[(l + 1) + i - 1]
      BY <2>2, <2>3
    <3> QED
      BY <3>1, <3>2
  <2> QED
    BY <2>2, <2>3, <2>4
<1>6. /\ u \in Seq(Mail) /\ Len(u) = l - 1
      /\ \A i \in 1..(l - 1) : u[i] = s[i + 1]
  <2>1. \A i \in 2..l : s[i] \in Mail
    BY <1>1
  <2>2. /\ u \in Seq(Mail) /\ Len(u) = IF 2 <= l THEN l - 2 + 1 ELSE 0
        /\ \A i \in 1..(l - 2 + 1) : u[i] = s[2 + i - 1]
    BY <2>1, <1>1, SubSeqProperties
  <2> HIDE DEF u
  <2>3. Len(u) = l - 1 /\ l - 2 + 1 = l - 1
    BY <2>2, <1>1
  <2>4. ASSUME NEW i \in 1..(l - 1) PROVE u[i] = s[i + 1]
    <3>1. 2 + i - 1 = i + 1
      BY <1>1
    <3>2. u[i] = s[2 + i - 1]
      BY <2>2, <2>3
    <3> QED
      BY <3>1, <3>2
  <2> QED
    BY <2>2, <2>3, <2>4
<1>7. SubSeq(s, 1, l) = <<m>> \o u
  <2>1. 1 \in 1..Len(s) /\ l \in 1..Len(s)
    BY <1>1
  <2>2. SubSeq(s, 1, l) = <<s[1]>> \o SubSeq(s, 1 + 1, l)
    BY <2>1, SubSeqRecursiveFirst
  <2> QED
    BY <2>2, <1>2
<1> HIDE DEF p, u
<1>8. SubSeq(t, (l - 1) + 1, Len(t)) = p
  <2>1. /\ (l - 1) + 1 \in 1..(Len(t) + 1) /\ Len(t) \in (((l - 1) + 1) - 1)..Len(t)
        /\ Len(p) = Len(t) - ((l - 1) + 1) + 1
    BY <1>1, <1>2, <1>5
  <2>2. ASSUME NEW i \in 1..Len(p) PROVE p[i] = t[((l - 1) + 1) + i - 1]
    <3>1. /\ i \in 1..(L - l) /\ ((l - 1) + 1) + i - 1 = i + l - 1
          /\ i + l - 1 \in 1..(L - 1) /\ (i + l - 1) + 1 = i + l
      BY <1>1, <1>5
    <3> QED
      BY <3>1, <1>2, <1>5
  <2> QED
    BY <2>1, <2>2, <1>2, <1>5, PartIs
<1>9. SubSeq(t, 1, l - 1) = u
  <2>1. /\ 1 \in 1..(Len(t) + 1) /\ l - 1 \in (1 - 1)..Len(t) /\ Len(u) = (l - 1) - 1 + 1
    BY <1>1, <1>2, <1>6
  <2>2. ASSUME NEW i \in 1..Len(u) PROVE u[i] = t[1 + i - 1]
    <3>1. i \in 1..(l - 1) /\ i \in 1..(L - 1) /\ 1 + i - 1 = i
      BY <1>1, <1>6
    <3> QED
      BY <3>1, <1>2, <1>6
  <2> QED
    BY <2>1, <2>2, <1>2, <1>6, PartIs
<1>10. SubSeq(a, 1, l - 1) = u
  <2>1. /\ 1 \in 1..(Len(a) + 1) /\ l - 1 \in (1 - 1)..Len(a) /\ Len(u) = (l - 1) - 1 + 1
    BY <1>1, <1>4, <1>6
  <2>2. ASSUME NEW i \in 1..Len(u) PROVE u[i] = a[1 + i - 1]
    <3>1. i \in 1..(l - 1) /\ i \in 1..(L - 1) /\ 1 + i - 1 = i
      BY <1>1, <1>6
    <3> QED
      BY <3>1, <1>2, <1>3, <1>6
  <2> QED
    BY <2>1, <2>2, <1>3, <1>6, PartIs
<1>11. SubSeq(a, (l - 1) + 1, Len(a)) = p \o <<m>>
  <2> DEFINE r == p \o <<m>>
  <2>1. /\ r \in Seq(Mail) /\ Len(r) = (L - l) + 1 /\ r[(L - l) + 1] = m
        /\ \A i \in 1..(L - l) : r[i] = p[i]
    <3>1. Append(p, m) = r
      BY <1>2, <1>5, AppendIsConcat
    <3>2. /\ Append(p, m) \in Seq(Mail) /\ Len(Append(p, m)) = Len(p) + 1
          /\ Append(p, m)[Len(p) + 1] = m /\ \A i \in 1..Len(p) : Append(p, m)[i] = p[i]
      <4>1. m \in Mail /\ p \in Seq(Mail)
        BY <1>2, <1>5
      <4> QED
        BY <4>1, AppendProperties
    <3>3. Len(p) = L - l
      BY <1>5
    <3> HIDE DEF r
    <3>4. /\ r \in Seq(Mail) /\ Len(r) = Len(p) + 1
          /\ r[Len(p) + 1] = m /\ \A i \in 1..Len(p) : r[i] = p[i]
      BY <3>1, <3>2
    <3> QED
      BY <3>3, <3>4
  <2> HIDE DEF r
  <2>2. /\ (l - 1) + 1 \in 1..(Len(a) + 1) /\ Len(a) \in (((l - 1) + 1) - 1)..Len(a)
        /\ Len(r) = Len(a) - ((l - 1) + 1) + 1
    BY <2>1, <1>1, <1>4
  <2>3. ASSUME NEW i \in 1..Len(r) PROVE r[i] = a[((l - 1) + 1) + i - 1]
    <3>1. ((l - 1) + 1) + i - 1 = i + l - 1 /\ i \in Int /\ 1 <= i /\ i <= (L - l) + 1
      BY <2>1, <1>1
    <3>2. CASE i <= L - l
      <4>1. /\ i \in 1..(L - l) /\ i + l - 1 \in 1..(L - 1) /\ (i + l - 1) + 1 = i + l
        BY <3>1, <3>2, <1>1
      <4> QED
        BY <3>1, <4>1, <2>1, <1>2, <1>3, <1>5
    <3>3. CASE i > L - l
      <4>1. i = (L - l) + 1 /\ i + l - 1 = L
        BY <3>1, <3>3, <1>1
      <4> QED
        BY <3>1, <4>1, <2>1, <1>4
    <3> QED
      BY <3>1, <3>2, <3>3, <1>1
  <2> QED
    BY <2>1, <2>2, <2>3, <1>3, PartIs DEF r
<1> QED
  BY <1>5, <1>6, <1>7, <1>8, <1>9, <1>10, <1>11 DEF p, t, m, a

(* The queue of a service, the sending queue, an empty table and the other one *)
LEMMA Line ==
  ASSUME NEW b \in Seq(Mail), NEW x \in Seq(Mail), NEW r \in Seq(Mail)
  PROVE  Same(((b \o x) \o <<>>) \o r, b \o (x \o r))
<1>1. b \o x \in Seq(Mail)
  BY Joined
<1>2. (b \o x) \o <<>> = b \o x
  BY <1>1, ConcatEmptySeq
<1>3. Same((b \o x) \o r, b \o (x \o r))
  BY Together
<1> QED
  BY <1>2, <1>3

(* A message that the dispatch pushes back keeps its place among those for its
   service; one for another service may go; one for this service goes to its
   queue before those pushed back, if none of them is for it. *)
LEMMA PassRuns ==
  ASSUME NEW b \in Seq(Mail), NEW p \in Seq(Mail), NEW u \in Seq(Mail), NEW r \in Seq(Mail),
         NEW m \in Mail, NEW d, NEW a \in Nat, NEW c \in Nat,
         Runs(((b \o (p \o (<<m>> \o u))) \o <<>>) \o r, d, a, c)
  PROVE  /\ Runs(((b \o ((p \o <<m>>) \o u)) \o <<>>) \o r, d, a, c)
         /\ m[1] # d => Runs(((b \o (p \o u)) \o <<>>) \o r, d, a, c)
         /\ (\A i \in DOMAIN p : p[i][1] # d) =>
              Runs(((Append(b, m) \o (p \o u)) \o <<>>) \o r, d, a, c)
<1> DEFINE M == <<m>>
           q == u \o r
           Mu == M \o u
           Mq == M \o q
<1>1. /\ M \in Seq(Mail) /\ Append(b, m) = b \o M
      /\ m[1] # d => \A i \in DOMAIN M : M[i][1] # d
  <2>1. DOMAIN M = 1..1 /\ M[1] = m /\ M \in Seq(Mail)
    OBVIOUS
  <2>2. \A i \in 1..1 : i = 1
    OBVIOUS
  <2>3. Append(b, m) = b \o M
    BY AppendIsConcat
  <2> QED
    BY <2>1, <2>2, <2>3
<1> HIDE DEF M
<1>2. q \in Seq(Mail) /\ Mu \in Seq(Mail)
  BY <1>1, Joined
<1>3. (p \o M) \o u = p \o Mu
  <2>1. Same((p \o M) \o u, p \o Mu)
    BY <1>1, Together
  <2> QED
    BY <2>1 DEF Same
<1>4. Mu \o r = M \o q
  <2>1. Same(Mu \o r, M \o q)
    BY <1>1, Together
  <2> QED
    BY <2>1 DEF Same
<1> HIDE DEF q, Mu
<1>5. Mq \in Seq(Mail) /\ Mu \o r = Mq
  BY <1>1, <1>2, <1>4, Joined
<1> HIDE DEF Mq
<1>6. p \o Mu \in Seq(Mail) /\ (p \o Mu) \o r = p \o Mq
  <2>1. p \o Mu \in Seq(Mail)
    BY <1>2, Joined
  <2>2. (p \o Mu) \o r = p \o (Mu \o r)
    <3>1. Same((p \o Mu) \o r, p \o (Mu \o r))
      BY <1>2, Together
    <3> QED
      BY <3>1 DEF Same
  <2> QED
    BY <2>1, <2>2, <1>5
<1>7. Runs(((b \o (p \o Mu)) \o <<>>) \o r, d, a, c) /\ Runs(b \o (p \o Mq), d, a, c)
  <2>1. Runs(((b \o (p \o Mu)) \o <<>>) \o r, d, a, c)
    BY DEF Mu, M
  <2>2. ((b \o (p \o Mu)) \o <<>>) \o r = b \o ((p \o Mu) \o r)
    <3>1. Same(((b \o (p \o Mu)) \o <<>>) \o r, b \o ((p \o Mu) \o r))
      BY <1>6, Line
    <3> QED
      BY <3>1 DEF Same
  <2> QED
    BY <2>1, <2>2, <1>6
<1>8. Runs(((b \o ((p \o M) \o u)) \o <<>>) \o r, d, a, c)
  BY <1>3, <1>7
<1>9. p \o u \in Seq(Mail) /\ (p \o u) \o r = p \o q
  <2>1. (p \o u) \o r = p \o (u \o r)
    <3>1. Same((p \o u) \o r, p \o (u \o r))
      BY Together
    <3> QED
      BY <3>1 DEF Same
  <2> QED
    BY <2>1, Joined DEF q
<1>10. ASSUME m[1] # d PROVE Runs(((b \o (p \o u)) \o <<>>) \o r, d, a, c)
  <2> DEFINE bp == b \o p
  <2>1. bp \in Seq(Mail)
    BY Joined
  <2>2. b \o (p \o Mq) = bp \o Mq
    <3>1. Same(bp \o Mq, b \o (p \o Mq))
      BY <1>5, Together
    <3> QED
      BY <3>1 DEF Same
  <2>3. b \o (p \o q) = bp \o q
    <3>1. Same(bp \o q, b \o (p \o q))
      BY <1>2, Together
    <3> QED
      BY <3>1 DEF Same
  <2> HIDE DEF bp
  <2>4. Runs(bp \o (M \o q), d, a, c)
    BY <2>2, <1>7 DEF Mq
  <2>5. Runs(bp \o q, d, a, c)
    BY <2>1, <2>4, <1>1, <1>2, <1>10, RunsSkip
  <2>6. Runs(b \o ((p \o u) \o r), d, a, c)
    BY <2>3, <2>5, <1>9
  <2>7. ((b \o (p \o u)) \o <<>>) \o r = b \o ((p \o u) \o r)
    <3>1. Same(((b \o (p \o u)) \o <<>>) \o r, b \o ((p \o u) \o r))
      BY <1>9, Line
    <3> QED
      BY <3>1 DEF Same
  <2> QED
    BY <2>6, <2>7
<1>11. ASSUME \A i \in DOMAIN p : p[i][1] # d
       PROVE  Runs(((Append(b, m) \o (p \o u)) \o <<>>) \o r, d, a, c)
  <2> DEFINE bM == b \o M
  <2>1. bM \in Seq(Mail) /\ Append(b, m) = bM
    BY <1>1, Joined
  <2>2. Runs(b \o Mq, d, a, c)
    BY <1>5, <1>7, <1>11, RunsSkip
  <2>3. b \o Mq = bM \o q
    <3>1. b \o (M \o q) = (b \o M) \o q
      <4>1. Same((b \o M) \o q, b \o (M \o q))
        BY <1>1, <1>2, Together
      <4> QED
        BY <4>1 DEF Same
    <3> QED
      BY <3>1 DEF Mq
  <2> HIDE DEF bM
  <2>4. Runs(bM \o q, d, a, c)
    BY <2>2, <2>3
  <2>5. Runs(bM \o (p \o q), d, a, c)
    BY <2>1, <2>4, <1>2, <1>11, RunsSkip
  <2>6. ((bM \o (p \o u)) \o <<>>) \o r = bM \o ((p \o u) \o r)
    <3>1. Same(((bM \o (p \o u)) \o <<>>) \o r, bM \o ((p \o u) \o r))
      BY <2>1, <1>9, Line
    <3> QED
      BY <3>1 DEF Same
  <2>7. Runs(((bM \o (p \o u)) \o <<>>) \o r, d, a, c)
    BY <2>5, <2>6, <1>9
  <2> QED
    BY <2>1, <2>7
<1> QED
  BY <1>8, <1>10, <1>11 DEF M

(* The dispatch of a message: it goes to the queue of its service, or it is
   pushed back and marks its service (dispatch_exclusive_sending). *)
LEMMA DispatchKeeps ==
  ASSUME SendInv, Dispatch
  PROVE  SendInv'
<1> DEFINE m == Head(sending)
           e == m[1]
           goes == ~Marks(marked, e) /\ (e = Self \/ Len(inbox[e]) < QueueLen)
           t == Tail(sending)
           L == Len(sending)
<1>1. /\ phase = "dispatch" /\ phase' = phase /\ left > 0 /\ left' = left - 1
      /\ sending' = IF goes THEN t ELSE Append(t, m)
      /\ inbox' = IF goes THEN [inbox EXCEPT ![e] = Append(@, m)] ELSE inbox
      /\ marked' = IF goes \/ Marks(marked, e) THEN marked ELSE Append(marked, e)
      /\ fired' = fired /\ held' = held /\ blocked' = blocked /\ taken' = taken
  BY DEF Dispatch, IsMarked, Marks
<1>2. /\ TypeOK /\ held = <<>> /\ PlaceInv /\ LoopInv /\ Pipeline /\ PushedInv
  BY <1>1 DEF SendInv, PhaseInv
<1>3. /\ sending \in Seq(Mail) /\ L \in Nat /\ L <= SendingLen
      /\ left \in 1..L /\ marked \in Seq(Receiver)
      /\ inbox \in [Receiver \cup {Self} -> Seq(Mail)]
      /\ \A d \in Receiver : inbox[d] \in Seq(Mail) /\ Len(inbox[d]) <= QueueLen
      /\ inbox[Self] \in Seq({<<Self, "loop">>})
      /\ \A i \in 1..L : sending[i] \in Mail
  BY <1>1, <1>2, SendTypes, ElementOfSeq
<1>4. /\ sending # <<>> /\ m \in Mail /\ m = sending[1] /\ t \in Seq(Mail)
      /\ Len(t) = L - 1 /\ \A i \in 1..(L - 1) : t[i] = sending[i + 1]
      /\ DOMAIN sending = 1..L /\ DOMAIN t = 1..(L - 1)
  <2>1. L \in Nat \ {0}
    BY <1>3
  <2>2. sending # <<>>
    BY <2>1
  <2> QED
    BY <2>2, <1>3, HeadTailProperties, LenProperties
<1>5. e \in Receiver \cup {Self} /\ (e = Self => m = <<Self, "loop">>)
  <2>1. e \in Receiver \cup {Self}
    BY <1>4 DEF Mail
  <2>2. 1 \in 1..L
    BY <1>3
  <2> QED
    BY <2>1, <2>2, <1>2, <1>4 DEF LoopInv
<1> HIDE DEF m, e, t, L, goes
<1>6. /\ Append(t, m) \in Seq(Mail) /\ Len(Append(t, m)) = (L - 1) + 1
      /\ \A i \in 1..(L - 1) : Append(t, m)[i] = t[i]
      /\ Append(t, m)[(L - 1) + 1] = m /\ DOMAIN Append(t, m) = 1..((L - 1) + 1)
  <2>1. Append(t, m) \in Seq(Mail) /\ Len(Append(t, m)) = Len(t) + 1
        /\ \A i \in 1..Len(t) : Append(t, m)[i] = t[i]
        /\ Append(t, m)[Len(t) + 1] = m
    BY <1>4, AppendProperties
  <2>2. DOMAIN Append(t, m) = 1..(Len(t) + 1)
    BY <2>1, LenProperties
  <2> QED
    BY <2>1, <2>2, <1>4
<1>7. (L - 1) + 1 = L
  BY <1>3
<1>8. /\ \A x : Marks(marked, x) => Marks(marked', x)
      /\ ~goes => Marks(marked', e)
      /\ marked' \in Seq(Receiver)
  <2>1. CASE goes \/ Marks(marked, e)
    <3>1. marked' = marked
      BY <1>1, <2>1
    <3> QED
      BY <3>1, <2>1, <1>3 DEF Marks, goes
  <2>2. CASE ~(goes \/ Marks(marked, e))
    <3>1. marked' = Append(marked, e) /\ e \in Receiver
      BY <1>1, <1>5, <2>2 DEF goes
    <3>2. /\ marked' \in Seq(Receiver) /\ Len(marked') = Len(marked) + 1
          /\ \A i \in 1..Len(marked) : marked'[i] = marked[i]
          /\ marked'[Len(marked) + 1] = e
      BY <3>1, <1>3, AppendProperties
    <3>3. Len(marked) \in Nat /\ DOMAIN marked = 1..Len(marked)
          /\ DOMAIN marked' = 1..(Len(marked) + 1)
      BY <3>2, <1>3, LenProperties
    <3>4. Marks(marked', e)
      <4>1. Len(marked) + 1 \in DOMAIN marked'
        BY <3>3
      <4> QED
        BY <4>1, <3>2 DEF Marks
    <3>5. ASSUME NEW x, Marks(marked, x) PROVE Marks(marked', x)
      <4>1. CASE Len(marked) > BlockedIds
        <5>1. Len(marked') > BlockedIds
          BY <4>1, <3>2, <3>3, Sizes
        <5> QED
          BY <5>1 DEF Marks
      <4>2. CASE \E i \in DOMAIN marked : marked[i] = x
        <5>1. PICK i \in DOMAIN marked : marked[i] = x
          BY <4>2
        <5>2. i \in DOMAIN marked' /\ marked'[i] = x
          BY <5>1, <3>2, <3>3
        <5> QED
          BY <5>2 DEF Marks
      <4> QED
        BY <4>1, <4>2, <3>5 DEF Marks
    <3> QED
      BY <3>2, <3>4, <3>5
  <2> QED
    BY <2>1, <2>2
<1>9. CASE goes
  <2>1. /\ sending' = t /\ marked' = marked /\ inbox' = [inbox EXCEPT ![e] = Append(@, m)]
        /\ ~Marks(marked, e) /\ (e = Self \/ Len(inbox[e]) < QueueLen)
    BY <1>1, <1>9 DEF goes
  <2>2. /\ inbox' \in [Receiver \cup {Self} -> Seq(Mail)]
        /\ inbox'[e] = Append(inbox[e], m) /\ Len(inbox[e]) \in Nat
        /\ \A d \in Receiver \cup {Self} : d # e => inbox'[d] = inbox[d]
    <3>1. inbox[e] \in Seq(Mail) /\ Append(inbox[e], m) \in Seq(Mail)
      BY <1>3, <1>4, <1>5, AppendProperties
    <3>2. Len(inbox[e]) \in Nat
      BY <3>1, LenProperties
    <3> QED
      BY <3>1, <3>2, <2>1, <1>3, <1>5
  <2>3. /\ \A i \in DOMAIN inbox'[e] : \/ i \in DOMAIN inbox[e] /\ inbox'[e][i] = inbox[e][i]
                                     \/ inbox'[e][i] = m
        /\ Len(inbox'[e]) = Len(inbox[e]) + 1
    <3>1. inbox[e] \in Seq(Mail)
      BY <1>3, <1>5
    <3>2. /\ Append(inbox[e], m) \in Seq(Mail)
          /\ Len(Append(inbox[e], m)) = Len(inbox[e]) + 1
          /\ \A i \in 1..Len(inbox[e]) : Append(inbox[e], m)[i] = inbox[e][i]
          /\ Append(inbox[e], m)[Len(inbox[e]) + 1] = m
      BY <3>1, <1>4, AppendProperties
    <3>3. /\ DOMAIN inbox[e] = 1..Len(inbox[e])
          /\ DOMAIN Append(inbox[e], m) = 1..(Len(inbox[e]) + 1)
      BY <3>1, <3>2, LenProperties
    <3>4. \A i \in 1..(Len(inbox[e]) + 1) : i \in 1..Len(inbox[e]) \/ i = Len(inbox[e]) + 1
      BY <2>2
    <3> QED
      BY <2>2, <3>2, <3>3, <3>4
  <2>4. TypeOK'
    <3>1. sending' \in Seq(Mail) /\ Len(sending') <= SendingLen /\ left' \in 0..Len(sending')
      BY <2>1, <1>1, <1>3, <1>4, Sizes
    <3>2. \A d \in Receiver : Len(inbox'[d]) <= QueueLen
      <4>1. ASSUME NEW d \in Receiver PROVE Len(inbox'[d]) <= QueueLen
        <5>1. CASE d = e
          <6>1. Len(inbox[e]) < QueueLen
            BY <5>1, <2>1, Sizes
          <6> QED
            BY <6>1, <5>1, <2>2, <2>3, Sizes
        <5>2. CASE d # e
          BY <5>2, <2>2, <1>3
        <5> QED
          BY <5>1, <5>2
      <4> QED
        BY <4>1
    <3>3. inbox'[Self] \in Seq({<<Self, "loop">>})
      <4>1. CASE e = Self
        <5>1. inbox'[Self] = Append(inbox[Self], <<Self, "loop">>)
          BY <4>1, <2>2, <1>5
        <5> QED
          BY <5>1, <1>3
      <4>2. CASE e # Self
        BY <4>2, <2>2, <1>3
      <4> QED
        BY <4>1, <4>2
    <3> QED
      BY <3>1, <3>2, <3>3, <2>2, <1>1, <1>2, <1>8 DEF TypeOK
  <2>5. Pipeline'
    <3>1. ASSUME NEW d \in Receiver PROVE Runs(Way(d)', d, taken[d], fired[d])
      <4>1. PICK p \in Seq(Mail), u \in Seq(Mail) :
              /\ SubSeq(sending, left + 1, L) = p /\ SubSeq(sending, 1, left) = <<m>> \o u
              /\ SubSeq(t, (left - 1) + 1, Len(t)) = p /\ SubSeq(t, 1, left - 1) = u
        BY <1>3, FirstMoved DEF m, t, L
      <4>2. InSendingOrder = p \o (<<m>> \o u) /\ InSendingOrder' = p \o u
        BY <4>1, <2>1, <1>1 DEF InSendingOrder, L
      <4>3. /\ inbox[d] \in Seq(Mail) /\ blocked \in Seq(Mail)
            /\ taken[d] \in Nat /\ fired[d] \in Nat
        BY <1>2, SendTypes
      <4>4. Runs(((inbox[d] \o (p \o (<<m>> \o u))) \o <<>>) \o blocked, d, taken[d], fired[d])
        BY <4>2, <1>2 DEF Pipeline, Way
      <4>5. CASE d # e
        <5>1. Way(d)' = ((inbox[d] \o (p \o u)) \o <<>>) \o blocked
          BY <4>2, <4>5, <2>2, <1>1, <1>2 DEF Way
        <5>2. m[1] # d
          BY <4>5 DEF e
        <5> QED
          BY <5>1, <5>2, <4>3, <4>4, <1>4, PassRuns
      <4>6. CASE d = e
        <5>1. Way(d)' = ((Append(inbox[d], m) \o (p \o u)) \o <<>>) \o blocked
          BY <4>2, <4>6, <2>2, <1>1, <1>2 DEF Way
        <5>2. ASSUME NEW i \in DOMAIN p PROVE p[i][1] # d
          <6>1. \A j \in (left + 1)..L : sending[j] \in Mail
            BY <1>3
          <6>2. left \in Int /\ L \in Int /\ left <= L
            BY <1>3
          <6>3. /\ Len(p) = IF left + 1 <= L THEN L - (left + 1) + 1 ELSE 0
                /\ \A j \in 1..(L - (left + 1) + 1) : p[j] = sending[(left + 1) + j - 1]
            <7>1. left + 1 \in Int /\ L \in Int
              BY <6>2
            <7>2. /\ Len(SubSeq(sending, left + 1, L))
                        = IF left + 1 <= L THEN L - (left + 1) + 1 ELSE 0
                  /\ \A j \in 1..(L - (left + 1) + 1) :
                       SubSeq(sending, left + 1, L)[j] = sending[(left + 1) + j - 1]
              BY <7>1, <6>1, SubSeqProperties
            <7> QED
              BY <7>2, <4>1
          <6>4. i \in 1..Len(p)
            BY <4>1, LenProperties
          <6>5. /\ i \in 1..(L - (left + 1) + 1) /\ (left + 1) + i - 1 \in (left + 1)..L
            BY <6>2, <6>3, <6>4
          <6>6. p[i] = sending[(left + 1) + i - 1]
            BY <6>3, <6>5
          <6>7. Marks(marked, sending[(left + 1) + i - 1][1])
            BY <6>5, <1>1, <1>2 DEF PushedInv, L
          <6> QED
            BY <6>6, <6>7, <4>6, <2>1
        <5> QED
          BY <5>1, <5>2, <4>3, <4>4, <1>4, PassRuns
      <4> QED
        BY <4>5, <4>6
    <3> QED
      BY <3>1, <1>1 DEF Pipeline
  <2>6. PhaseInv'
    BY <1>1, <1>2 DEF PhaseInv
  <2>7. PlaceInv'
    <3>1. ASSUME NEW d \in Receiver, NEW i \in DOMAIN inbox'[d] PROVE inbox'[d][i][1] = d
      <4>1. CASE d = e
        BY <4>1, <3>1, <2>3, <1>2 DEF PlaceInv, e
      <4>2. CASE d # e
        BY <4>2, <3>1, <2>2, <1>2 DEF PlaceInv
      <4> QED
        BY <4>1, <4>2
    <3> QED
      BY <3>1, <1>1, <1>2 DEF PlaceInv
  <2>8. LoopInv'
    <3>1. ASSUME NEW i \in DOMAIN sending'
          PROVE  sending'[i] = sending[i + 1] /\ i + 1 \in DOMAIN sending /\ i + 1 # 1
                 /\ i \in Int
      BY <2>1, <1>3, <1>4
    <3>2. CASE e = Self
      <4>1. 1 \in DOMAIN sending /\ sending[1][1] = Self
        BY <3>2, <1>3, <1>4 DEF e
      <4>2. blocked = <<>> /\ inbox[Self] = <<>>
            /\ \A j \in DOMAIN sending : sending[j][1] = Self => j = 1
        BY <4>1, <1>2 DEF LoopInv
      <4>3. \A i \in DOMAIN sending' : sending'[i][1] # Self
        BY <3>1, <4>2
      <4>4. Len(inbox'[Self]) = 1
        BY <3>2, <4>2, <2>3
      <4> QED
        BY <4>2, <4>3, <4>4, <1>1 DEF LoopInv
    <3>3. CASE e # Self
      <4>1. inbox'[Self] = inbox[Self]
        BY <3>3, <2>2
      <4>2. ASSUME NEW i \in DOMAIN sending', sending'[i][1] = Self
            PROVE  /\ sending'[i] = <<Self, "loop">> /\ blocked = <<>> /\ inbox[Self] = <<>>
                   /\ \A j \in DOMAIN sending' : sending'[j][1] = Self => j = i
        <5>1. /\ sending'[i] = <<Self, "loop">> /\ blocked = <<>> /\ inbox[Self] = <<>>
              /\ \A j \in DOMAIN sending : sending[j][1] = Self => j = i + 1
          BY <4>2, <3>1, <1>2 DEF LoopInv
        <5>2. ASSUME NEW j \in DOMAIN sending', sending'[j][1] = Self PROVE j = i
          <6>1. j + 1 = i + 1 /\ i \in Int /\ j \in Int
            BY <5>1, <5>2, <3>1
          <6> QED
            BY <6>1
        <5> QED
          BY <5>1, <5>2
      <4> QED
        BY <4>1, <4>2, <1>1, <1>2 DEF LoopInv
    <3> QED
      BY <3>2, <3>3
  <2>9. PushedInv'
    <3>1. ASSUME NEW i \in (left' + 1)..Len(sending') PROVE Marks(marked', sending'[i][1])
      <4>1. i \in 1..(L - 1) /\ i + 1 \in (left + 1)..L
        BY <2>1, <1>1, <1>3, <1>4
      <4>2. Marks(marked, sending[i + 1][1]) /\ sending'[i] = sending[i + 1]
        BY <4>1, <2>1, <1>1, <1>2, <1>4 DEF PushedInv, L
      <4> QED
        BY <4>2, <1>8
    <3> QED
      BY <3>1 DEF PushedInv
  <2> QED
    BY <2>4, <2>5, <2>6, <2>7, <2>8, <2>9 DEF SendInv
<1>10. CASE ~goes
  <2>1. sending' = Append(t, m) /\ inbox' = inbox
    BY <1>1, <1>10
  <2>2. /\ sending' \in Seq(Mail) /\ Len(sending') = L /\ DOMAIN sending' = 1..L
        /\ \A i \in 1..(L - 1) : sending'[i] = sending[i + 1]
        /\ sending'[L] = m
    BY <2>1, <1>4, <1>6, <1>7
  <2>3. TypeOK'
    <3>1. sending' \in Seq(Mail) /\ Len(sending') <= SendingLen /\ left' \in 0..Len(sending')
      BY <2>2, <1>1, <1>3
    <3> QED
      BY <3>1, <2>1, <1>1, <1>2, <1>8 DEF TypeOK
  <2>4. Pipeline'
    <3>1. ASSUME NEW d \in Receiver PROVE Runs(Way(d)', d, taken[d], fired[d])
      <4>1. PICK p \in Seq(Mail), u \in Seq(Mail) :
              /\ SubSeq(sending, left + 1, L) = p /\ SubSeq(sending, 1, left) = <<m>> \o u
              /\ SubSeq(Append(t, m), (left - 1) + 1, Len(Append(t, m))) = p \o <<m>>
              /\ SubSeq(Append(t, m), 1, left - 1) = u
        BY <1>3, FirstMoved DEF m, t, L
      <4>2. InSendingOrder = p \o (<<m>> \o u) /\ InSendingOrder' = (p \o <<m>>) \o u
        BY <4>1, <2>1, <1>1 DEF InSendingOrder, L
      <4>3. /\ inbox[d] \in Seq(Mail) /\ blocked \in Seq(Mail)
            /\ taken[d] \in Nat /\ fired[d] \in Nat
        BY <1>2, SendTypes
      <4>4. Runs(((inbox[d] \o (p \o (<<m>> \o u))) \o <<>>) \o blocked, d, taken[d], fired[d])
        BY <4>2, <1>2 DEF Pipeline, Way
      <4>5. Way(d)' = ((inbox[d] \o ((p \o <<m>>) \o u)) \o <<>>) \o blocked
        BY <4>2, <2>1, <1>1, <1>2 DEF Way
      <4> QED
        BY <4>5, <4>3, <4>4, <1>4, PassRuns
    <3> QED
      BY <3>1, <1>1 DEF Pipeline
  <2>5. PhaseInv' /\ PlaceInv'
    BY <2>1, <1>1, <1>2 DEF PhaseInv, PlaceInv
  <2>6. LoopInv'
    <3> DEFINE g(i) == IF i = L THEN 1 ELSE i + 1
    <3>1. ASSUME NEW i \in DOMAIN sending'
          PROVE  i \in 1..L /\ g(i) \in DOMAIN sending /\ sending'[i] = sending[g(i)]
      <4>1. i \in 1..L
        BY <2>2
      <4>2. CASE i = L
        BY <4>1, <4>2, <2>2, <1>3, <1>4
      <4>3. CASE i # L
        <5>1. i \in 1..(L - 1) /\ i + 1 \in 1..L
          BY <4>1, <4>3, <1>3
        <5> QED
          BY <5>1, <4>1, <4>3, <2>2, <1>4
      <4> QED
        BY <4>2, <4>3
    <3>2. ASSUME NEW i \in 1..L, NEW j \in 1..L, g(i) = g(j) PROVE i = j
      BY <3>2, <1>3
    <3> HIDE DEF g
    <3>3. ASSUME NEW i \in DOMAIN sending', sending'[i][1] = Self
          PROVE  /\ sending'[i] = <<Self, "loop">> /\ blocked = <<>> /\ inbox[Self] = <<>>
                 /\ \A j \in DOMAIN sending' : sending'[j][1] = Self => j = i
      <4>1. /\ sending'[i] = <<Self, "loop">> /\ blocked = <<>> /\ inbox[Self] = <<>>
            /\ \A j \in DOMAIN sending : sending[j][1] = Self => j = g(i)
        BY <3>1, <3>3, <1>2 DEF LoopInv
      <4>2. ASSUME NEW j \in DOMAIN sending', sending'[j][1] = Self PROVE j = i
        BY <4>1, <4>2, <3>1, <3>2
      <4> QED
        BY <4>1, <4>2
    <3> QED
      BY <3>3, <2>1, <1>1, <1>2 DEF LoopInv
  <2>7. PushedInv'
    <3>1. ASSUME NEW i \in (left' + 1)..Len(sending') PROVE Marks(marked', sending'[i][1])
      <4>1. i \in Int /\ left <= i /\ i <= L /\ 1 <= i
        BY <2>2, <1>1, <1>3
      <4>2. CASE i = L
        BY <4>2, <2>2, <1>8, <1>10 DEF e
      <4>3. CASE i # L
        <5>1. i \in 1..(L - 1) /\ i + 1 \in (left + 1)..L
          BY <4>1, <4>3, <1>3
        <5>2. Marks(marked, sending[i + 1][1]) /\ sending'[i] = sending[i + 1]
          BY <5>1, <2>2, <1>1, <1>2 DEF PushedInv, L
        <5> QED
          BY <5>2, <1>8
      <4> QED
        BY <4>2, <4>3
    <3> QED
      BY <3>1 DEF PushedInv
  <2> QED
    BY <2>3, <2>4, <2>5, <2>6, <2>7 DEF SendInv
<1> QED
  BY <1>9, <1>10

(* The dispatch ends (dispatch_exclusive_sending). *)
LEMMA DispatchedKeeps ==
  ASSUME SendInv, Dispatched
  PROVE  SendInv'
<1>1. /\ phase = "dispatch" /\ left = 0 /\ phase' = "resume"
      /\ UNCHANGED <<fired, sending, left, marked, held, blocked, inbox, taken>>
  BY DEF Dispatched
<1>2. TypeOK'
  BY <1>1 DEF SendInv, TypeOK
<1>3. Pipeline'
  <2>1. ASSUME NEW d \in Receiver PROVE Way(d)' = Way(d)
    BY <1>1 DEF Way, InSendingOrder
  <2> QED
    BY <2>1, <1>1 DEF SendInv, Pipeline
<1> QED
  BY <1>1, <1>2, <1>3 DEF SendInv, PhaseInv, PlaceInv, LoopInv, PushedInv

(* The service is resumed with the wake-up of the loop, or dispatches again
   (service_resume). *)
LEMMA ResumeKeeps ==
  ASSUME SendInv, Resume
  PROVE  SendInv'
<1>1. /\ phase = "resume" /\ marked' = <<>>
      /\ UNCHANGED <<fired, sending, held, blocked, taken>>
      /\ IF inbox[Self] # <<>>
         THEN /\ inbox' = [inbox EXCEPT ![Self] = Tail(@)] /\ phase' = "update"
              /\ left' = left
         ELSE phase' = "dispatch" /\ left' = Len(sending) /\ inbox' = inbox
  BY DEF Resume
<1>2. /\ TypeOK /\ Pipeline /\ left = 0 /\ held = <<>> /\ PlaceInv /\ LoopInv
  BY <1>1 DEF SendInv, PhaseInv
<1>3. /\ sending \in Seq(Mail) /\ Len(sending) \in Nat
      /\ inbox \in [Receiver \cup {Self} -> Seq(Mail)]
      /\ inbox[Self] \in Seq({<<Self, "loop">>}) /\ inbox[Self] \in Seq(Mail)
  BY <1>2, SendTypes
<1>4. left' \in 0..Len(sending) /\ (left' = 0 \/ left' = Len(sending))
  BY <1>1, <1>2, <1>3
<1>5. /\ inbox' \in [Receiver \cup {Self} -> Seq(Mail)]
      /\ \A d \in Receiver : inbox'[d] = inbox[d]
      /\ inbox'[Self] \in Seq({<<Self, "loop">>})
      /\ inbox'[Self] = IF inbox[Self] # <<>> THEN Tail(inbox[Self]) ELSE inbox[Self]
  <2>1. CASE inbox[Self] # <<>>
    <3>1. Tail(inbox[Self]) \in Seq(Mail) /\ Tail(inbox[Self]) \in Seq({<<Self, "loop">>})
      BY <2>1, <1>3, HeadTailProperties
    <3> QED
      BY <3>1, <2>1, <1>1, <1>3, Sizes
  <2>2. CASE inbox[Self] = <<>>
    BY <2>2, <1>1, <1>3
  <2> QED
    BY <2>1, <2>2
<1>6. TypeOK'
  BY <1>1, <1>2, <1>4, <1>5 DEF TypeOK
<1>7. Pipeline'
  <2>1. InSendingOrder = sending /\ InSendingOrder' = sending
    BY <1>1, <1>2, <1>3, <1>4, SendingOrder DEF InSendingOrder
  <2>2. ASSUME NEW d \in Receiver PROVE Way(d)' = Way(d)
    BY <2>1, <1>1, <1>5 DEF Way
  <2> QED
    BY <2>2, <1>1, <1>2 DEF Pipeline
<1>8. PlaceInv'
  BY <1>1, <1>2, <1>5 DEF PlaceInv
<1>9. PushedInv'
  <2>1. CASE phase' = "dispatch"
    <3>1. (left' + 1)..Len(sending') = {}
      BY <2>1, <1>1, <1>3
    <3> QED
      BY <3>1 DEF PushedInv
  <2> QED
    BY <2>1 DEF PushedInv
<1>10. CASE inbox[Self] # <<>>
  <2>1. blocked = <<>> /\ Len(inbox[Self]) = 1 /\ \A i \in DOMAIN sending : sending[i][1] # Self
    BY <1>2, <1>10 DEF LoopInv
  <2>2. inbox'[Self] = <<>>
    <3>1. Len(Tail(inbox[Self])) = 0 /\ Tail(inbox[Self]) \in Seq(Mail)
      BY <2>1, <1>3, <1>10, HeadTailProperties
    <3>2. Tail(inbox[Self]) = <<>>
      BY <3>1, EmptySeq
    <3> QED
      BY <3>2, <1>5, <1>10
  <2>3. LoopInv' /\ PhaseInv'
    BY <2>1, <2>2, <1>1, <1>2, <1>10 DEF LoopInv, PhaseInv
  <2> QED
    BY <2>3, <1>6, <1>7, <1>8, <1>9 DEF SendInv
<1>11. CASE inbox[Self] = <<>>
  <2>1. phase' = "dispatch" /\ inbox' = inbox
    BY <1>1, <1>11
  <2>2. LoopInv' /\ PhaseInv'
    BY <2>1, <1>1, <1>2, <1>11 DEF LoopInv, PhaseInv
  <2> QED
    BY <2>2, <1>6, <1>7, <1>8, <1>9 DEF SendInv
<1> QED
  BY <1>10, <1>11

(* A service handles its next timer, which is the one after those it has. *)
LEMMA TakeKeeps ==
  ASSUME SendInv, NEW d \in Receiver, Take(d)
  PROVE  SendInv'
<1> DEFINE m == Head(inbox[d])
           t == Tail(inbox[d])
<1>1. /\ inbox[d] # <<>> /\ inbox' = [inbox EXCEPT ![d] = t]
      /\ taken' = [taken EXCEPT ![d] = @ + 1]
      /\ UNCHANGED <<phase, fired, sending, left, marked, held, blocked>>
  BY DEF Take
<1>2. TypeOK /\ Pipeline /\ PhaseInv /\ PlaceInv /\ LoopInv /\ PushedInv
  BY DEF SendInv
<1>3. /\ inbox \in [Receiver \cup {Self} -> Seq(Mail)] /\ taken \in [Receiver -> 0..MaxTimers]
      /\ inbox[d] \in Seq(Mail) /\ Len(inbox[d]) <= QueueLen /\ Len(inbox[d]) \in Nat
      /\ inbox[Self] \in Seq({<<Self, "loop">>})
      /\ sending \in Seq(Mail) /\ held \in Seq(Mail) /\ blocked \in Seq(Mail)
      /\ taken[d] \in Nat /\ fired[d] \in 0..MaxTimers /\ d # Self
      /\ left \in 0..Len(sending) /\ Len(sending) \in Nat
      /\ \A e \in Receiver : Len(inbox[e]) <= QueueLen
  BY <1>2, SendTypes, Sizes, LenProperties
<1>4. /\ m \in Mail /\ t \in Seq(Mail) /\ Len(t) = Len(inbox[d]) - 1
      /\ \A i \in 1..Len(t) : t[i] = inbox[d][i + 1]
      /\ m = inbox[d][1] /\ inbox[d] = <<m>> \o t
  <2>1. /\ m \in Mail /\ t \in Seq(Mail) /\ Len(t) = Len(inbox[d]) - 1
        /\ \A i \in 1..Len(t) : t[i] = inbox[d][i + 1]
    BY <1>1, <1>3, HeadTailProperties
  <2>2. Len(inbox[d]) \in Nat \ {0}
    BY <1>1, <1>3, EmptySeq
  <2>3. inbox[d] = <<inbox[d][1]>> \o SubSeq(inbox[d], 1 + 1, Len(inbox[d]))
    <3>1. 1 \in 1..Len(inbox[d]) /\ Len(inbox[d]) \in 1..Len(inbox[d])
      BY <2>2
    <3>2. SubSeq(inbox[d], 1, Len(inbox[d]))
            = <<inbox[d][1]>> \o SubSeq(inbox[d], 1 + 1, Len(inbox[d]))
      BY <3>1, <1>3, SubSeqRecursiveFirst
    <3> QED
      BY <3>2, <1>3, SubSeqFull
  <2>4. t = SubSeq(inbox[d], 1 + 1, Len(inbox[d]))
    BY <1>1, <1>3, TailIsSubSeq
  <2>5. m = inbox[d][1]
    BY <1>1, <1>3
  <2> HIDE DEF m, t
  <2> QED
    BY <2>1, <2>3, <2>4, <2>5
<1> HIDE DEF m, t
<1>5. /\ inbox' \in [Receiver \cup {Self} -> Seq(Mail)] /\ inbox'[d] = t
      /\ \A e \in Receiver \cup {Self} : e # d => inbox'[e] = inbox[e]
  BY <1>1, <1>3, <1>4
<1>6. /\ taken'[d] = taken[d] + 1 /\ \A e \in Receiver : e # d => taken'[e] = taken[e]
  BY <1>1, <1>3
<1>7. InSendingOrder' = InSendingOrder /\ InSendingOrder \in Seq(Mail)
  <2>1. InSendingOrder' = InSendingOrder
    BY <1>1 DEF InSendingOrder
  <2>2. \A i \in 1..Len(sending) : sending[i] \in Mail
    BY <1>3, ElementOfSeq
  <2>3. SubSeq(sending, left + 1, Len(sending)) \in Seq(Mail)
    <3>1. /\ left + 1 \in Int /\ Len(sending) \in Int
          /\ \A i \in (left + 1)..Len(sending) : sending[i] \in Mail
      BY <2>2, <1>3
    <3> QED
      BY <3>1, SubSeqProperties
  <2>4. SubSeq(sending, 1, left) \in Seq(Mail)
    <3>1. 1 \in Int /\ left \in Int /\ \A i \in 1..left : sending[i] \in Mail
      BY <2>2, <1>3
    <3> QED
      BY <3>1, SubSeqProperties
  <2> QED
    BY <2>1, <2>3, <2>4, Joined DEF InSendingOrder
<1>8. /\ Runs(Way(d)', d, taken'[d], fired[d]) /\ taken[d] + 1 <= fired[d]
  <2> DEFINE M == <<m>>
             O == InSendingOrder
             tO == t \o O
             tOh == tO \o held
             rest == tOh \o blocked
  <2>1. M \in Seq(Mail) /\ tO \in Seq(Mail)
    BY <1>4, <1>7, Joined
  <2>0. (M \o t) \o O = M \o (t \o O)
    <3>1. Same((M \o t) \o O, M \o (t \o O))
      BY <1>4, <1>7, <2>1, Together
    <3> QED
      BY <3>1 DEF Same
  <2>2. Way(d) = (((M \o t) \o O) \o held) \o blocked /\ Way(d)' = rest
    BY <1>1, <1>4, <1>5, <1>7 DEF Way
  <2> HIDE DEF M, O, tO
  <2>3. Way(d) = ((M \o tO) \o held) \o blocked
    BY <2>0, <2>2 DEF tO
  <2>4. tOh \in Seq(Mail)
    BY <2>1, <1>3, Joined
  <2>5. (M \o tO) \o held = M \o tOh
    <3>1. Same((M \o tO) \o held, M \o tOh)
      BY <2>1, <1>3, Together
    <3> QED
      BY <3>1 DEF Same
  <2> HIDE DEF tOh
  <2>6. rest \in Seq(Mail)
    BY <2>4, <1>3, Joined
  <2>7. (M \o tOh) \o blocked = M \o rest
    <3>1. Same((M \o tOh) \o blocked, M \o rest)
      BY <2>1, <2>4, <1>3, Together
    <3> QED
      BY <3>1 DEF Same
  <2> HIDE DEF rest
  <2>8. Way(d) = M \o rest
    BY <2>3, <2>5, <2>7
  <2>9. Runs(M \o rest, d, taken[d], fired[d])
    BY <2>8, <1>2 DEF Pipeline
  <2>10. m[1] = d
    <3>1. 1 \in DOMAIN inbox[d]
      <4>1. Len(inbox[d]) \in Nat \ {0} /\ DOMAIN inbox[d] = 1..Len(inbox[d])
        BY <1>1, <1>3, EmptySeq, LenProperties
      <4> QED
        BY <4>1
    <3> QED
      BY <3>1, <1>2, <1>4 DEF PlaceInv
  <2>11. Runs(rest, d, taken[d] + 1, fired[d]) /\ taken[d] + 1 <= fired[d]
    <3>1. fired[d] \in Nat /\ taken[d] \in Nat
      BY <1>3, Sizes
    <3> QED
      BY <3>1, <2>6, <2>9, <2>10, <1>4, RunsFirst DEF M
  <2> QED
    BY <2>2, <2>11, <1>6
<1>9. TypeOK'
  <2>1. taken' \in [Receiver -> 0..MaxTimers]
    <3>1. taken[d] + 1 \in 0..MaxTimers
      BY <1>3, <1>8, Sizes
    <3> QED
      BY <3>1, <1>1, <1>3
  <2>2. \A e \in Receiver : Len(inbox'[e]) <= QueueLen
    <3>1. ASSUME NEW e \in Receiver PROVE Len(inbox'[e]) <= QueueLen
      <4>1. CASE e = d
        <5>1. Len(t) = Len(inbox[d]) - 1 /\ Len(inbox[d]) <= QueueLen /\ Len(inbox[d]) \in Nat
          BY <1>3, <1>4
        <5>2. inbox'[e] = t
          BY <4>1, <1>5
        <5> QED
          BY <5>1, <5>2, Sizes
      <4>2. CASE e # d
        BY <4>2, <1>3, <1>5
      <4> QED
        BY <4>1, <4>2
    <3> QED
      BY <3>1
  <2>3. inbox'[Self] \in Seq({<<Self, "loop">>})
    BY <1>3, <1>5
  <2> QED
    BY <2>1, <2>2, <2>3, <1>1, <1>2, <1>5 DEF TypeOK
<1>10. Pipeline'
  <2>1. ASSUME NEW e \in Receiver PROVE Runs(Way(e)', e, taken'[e], fired[e])
    <3>1. CASE e = d
      BY <3>1, <1>8
    <3>2. CASE e # d
      <4>1. Way(e)' = Way(e) /\ taken'[e] = taken[e]
        BY <3>2, <1>1, <1>5, <1>6, <1>7 DEF Way
      <4> QED
        BY <4>1, <1>2 DEF Pipeline
    <3> QED
      BY <3>1, <3>2
  <2> QED
    BY <2>1, <1>1 DEF Pipeline
<1>11. PlaceInv'
  <2>1. ASSUME NEW e \in Receiver, NEW i \in DOMAIN inbox'[e] PROVE inbox'[e][i][1] = e
    <3>1. CASE e = d
      <4>1. i \in 1..Len(t) /\ i + 1 \in DOMAIN inbox[d]
        <5>1. DOMAIN t = 1..Len(t) /\ DOMAIN inbox[d] = 1..Len(inbox[d])
          BY <1>3, <1>4, LenProperties
        <5>2. i \in 1..Len(t)
          BY <5>1, <3>1, <1>5
        <5>3. Len(t) = Len(inbox[d]) - 1 /\ Len(inbox[d]) \in Nat
          BY <1>3, <1>4
        <5>4. i + 1 \in 1..Len(inbox[d])
          BY <5>2, <5>3
        <5> QED
          BY <5>1, <5>2, <5>4
      <4> QED
        BY <4>1, <3>1, <1>2, <1>4, <1>5 DEF PlaceInv
    <3>2. CASE e # d
      BY <3>2, <1>2, <1>5 DEF PlaceInv
    <3> QED
      BY <3>1, <3>2
  <2> QED
    BY <2>1, <1>1, <1>2 DEF PlaceInv
<1>12. PhaseInv' /\ PushedInv' /\ LoopInv'
  <2>1. inbox'[Self] = inbox[Self]
    BY <1>3, <1>5
  <2> QED
    BY <2>1, <1>1, <1>2 DEF PhaseInv, PushedInv, LoopInv
<1> QED
  BY <1>9, <1>10, <1>11, <1>12 DEF SendInv

(* The service begins with empty queues (init_exclusive). *)
LEMMA SendBegins == Init => SendInv
<1> SUFFICES ASSUME Init PROVE SendInv
  OBVIOUS
<1>1. TypeOK
  BY Sizes DEF Init, TypeOK
<1>2. Pipeline
  <2>1. ASSUME NEW d \in Receiver PROVE Runs(Way(d), d, taken[d], fired[d])
    <3>1. InSendingOrder = <<>>
      BY SendingOrder DEF Init, InSendingOrder
    <3>2. Way(d) = <<>>
      BY <3>1, ConcatEmptySeq DEF Init, Way
    <3>3. taken[d] = 0 /\ fired[d] = 0 /\ \A i \in DOMAIN Way(d) : Way(d)[i][1] # d
      BY <3>2 DEF Init
    <3> QED
      BY <3>3, RunsNone
  <2> QED
    BY <2>1 DEF Pipeline
<1>3. PhaseInv /\ PlaceInv /\ LoopInv /\ PushedInv
  BY DEF Init, PhaseInv, PlaceInv, LoopInv, PushedInv
<1> QED
  BY <1>1, <1>2, <1>3 DEF SendInv

(* Every step keeps the invariant. *)
LEMMA SendStepsKeep == SendInv /\ [Next]_vars => SendInv'
<1> SUFFICES ASSUME SendInv, [Next]_vars PROVE SendInv'
  OBVIOUS
<1>1. CASE \E burst \in Bursts : TimerUpdate(burst)
  BY <1>1, TimerUpdateKeeps
<1>2. CASE PostHeld
  BY <1>2, PostHeldKeeps
<1>3. CASE RetrySleep
  BY <1>3, RetrySleepKeeps
<1>4. CASE Dispatch
  BY <1>4, DispatchKeeps
<1>5. CASE Dispatched
  BY <1>5, DispatchedKeeps
<1>6. CASE Resume
  BY <1>6, ResumeKeeps
<1>7. CASE \E d \in Receiver : Take(d)
  BY <1>7, TakeKeeps
<1>8. CASE UNCHANGED vars
  <2>1. ASSUME NEW d \in Receiver PROVE Way(d)' = Way(d)
    BY <1>8 DEF vars, Way, InSendingOrder
  <2>2. Pipeline'
    BY <2>1, <1>8 DEF vars, SendInv, Pipeline
  <2> QED
    BY <2>2, <1>8 DEF vars, SendInv, TypeOK, PhaseInv, PlaceInv, LoopInv, PushedInv
<1> QED
  BY <1>1, <1>2, <1>3, <1>4, <1>5, <1>6, <1>7, <1>8 DEF Next, Thread

-----------------------------------------------------------------------------
(* The invariant holds, for any number of receivers and timers and any size of
   the queues: the loop of the timer service has one wake-up at most, and what
   a dispatch pushed back is for services that are marked (service.lua:
   init_exclusive; ltask.c: dispatch_exclusive_sending). *)
THEOREM SendInvariant == SendSpec => []SendInv
<1>1. Init => SendInv
  BY SendBegins
<1>2. SendInv /\ [Next]_vars => SendInv'
  BY SendStepsKeep
<1> QED
  BY <1>1, <1>2, PTL DEF SendSpec

(* Every timer that was due is on its way to its service once and behind those
   that were due before, whatever queue is full: it waits there, in the sending
   queue, or in the tables of the Lua functions (timer.lua: timer_update;
   service.lua: exclusive.send). *)
THEOREM TimersDelivered == SendSpec => []Delivery
<1>1. SendInv => Delivery
  BY DEF SendInv, Delivery
<1> QED
  BY <1>1, SendInvariant, PTL

(* The fair specification is one of these. *)
THEOREM FairTimers == Spec => []Delivery
<1>1. Spec => SendSpec
  BY PTL DEF Spec, SendSpec
<1> QED
  BY <1>1, TimersDelivered, PTL
=============================================================================
