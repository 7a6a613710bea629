------------------------------- MODULE Timer -------------------------------
(***************************************************************************)
(* The hierarchical timing wheel of src/timer.c.  Any worker adds timers;   *)
(* the thread of the timer service advances the time tick by tick and fires *)
(* what is due.  The spinlock makes the sections between its acquire and    *)
(* its release one step each; while a list is dispatched it is free, and    *)
(* timers are added.                                                        *)
(*                                                                         *)
(* In the code NearSize is 2^8 and LevelSize 2^6, so that the time wraps     *)
(* after 2^32 ticks.                                                       *)
(***************************************************************************)
EXTENDS Integers, Sequences, FiniteSets, SequencesExt

CONSTANTS NearSize, LevelSize,  \* TIME_NEAR and TIME_LEVEL
          Timers,   \* bound: the timers that can be pending at one time
          MaxTime   \* the longest time to wait

Levels == 0..3

(* The ticks that a slot of level i stands for; the time wraps after those of
   a level more. *)
Span(i) == CASE i = 0 -> NearSize
             [] i = 1 -> NearSize * LevelSize
             [] i = 2 -> NearSize * LevelSize * LevelSize
             [] i = 3 -> NearSize * LevelSize * LevelSize * LevelSize
             [] i = 4 -> NearSize * LevelSize * LevelSize * LevelSize * LevelSize
Wrap == Span(4)

TimerAssumption ==
  /\ NearSize \in Nat \ {0} /\ LevelSize \in Nat \ {0}
  /\ MaxTime \in Nat /\ 2 * MaxTime < Wrap   \* a non-negative int

Near == -1
Slots == ({Near} \X (0..NearSize - 1)) \cup (Levels \X (0..LevelSize - 1))

VARIABLES
  time,    \* T->time
  wheel,   \* T->n and T->t: the list of each slot
  expire,  \* of each pending timer
  firing,  \* the list that is being dispatched
  phase,   \* of timer_update_tick: before, or in one of its timer_execute
  pending  \* the timers added and not fired yet, in the order of adding

vars == <<time, wheel, expire, firing, phase, pending>>

TypeOK ==
  /\ time \in 0..Wrap - 1
  /\ wheel \in [Slots -> Seq(Timers)]
  /\ expire \in [Timers -> 0..Wrap - 1]
  /\ firing \in Seq(Timers) /\ pending \in Seq(Timers)
  /\ phase \in {"tick", "before", "after"}

Init ==
  /\ time = 0
  /\ wheel = [s \in Slots |-> <<>>]
  /\ expire = [n \in Timers |-> 0]
  /\ firing = <<>> /\ pending = <<>>
  /\ phase = "tick"

(***************************************************************************)
(* add_node: the slot of a timer that expires at e when it is now `now'.    *)
(***************************************************************************)
Index(i, e) == (e \div Span(i)) % LevelSize

SlotOf(e, now) ==
  IF e \div NearSize = now \div NearSize THEN <<Near, e % NearSize>>
  ELSE LET i == CHOOSE j \in Levels :
                  /\ j = 3 \/ e \div Span(j + 1) = now \div Span(j + 1)
                  /\ \A k \in 0..j - 1 : e \div Span(k + 1) # now \div Span(k + 1)
       IN  <<i, Index(i, e)>>

(* mutant: a timer is linked before the others *)
LinkFirst(list, n) == <<n>> \o list

Link(list, n) == Append(list, n)

AddNode(w, n, e, now) == [w EXCEPT ![SlotOf(e, now)] = Link(@, n)]

(* timer_add, in any worker; the time is an unsigned number. *)
Expire(t) == (t + time) % Wrap

Add(n, t) ==
  /\ ~Contains(pending, n)
  /\ expire' = [expire EXCEPT ![n] = Expire(t)]
  /\ wheel' = AddNode(wheel, n, Expire(t), time)
  /\ pending' = Append(pending, n)
  /\ UNCHANGED <<time, firing, phase>>

(***************************************************************************)
(* timer_shift: the slot whose timers move down when the time becomes ct.   *)
(***************************************************************************)
(* mutant: nothing moves when the time wraps *)
CascadeNoWrap(ct) ==
  {<<i, Index(i, ct)>> : i \in {j \in Levels : ct % Span(j) = 0 /\ Index(j, ct) # 0}}

Cascade(ct) ==
  IF ct = 0 THEN {<<3, 0>>}
  ELSE {<<i, Index(i, ct)>> :
          i \in {j \in Levels : ct % Span(j) = 0 /\ Index(j, ct) # 0}}

MoveList(w, s, now) ==
  FoldLeft(LAMBDA v, n : AddNode(v, n, expire[n], now),
           [w EXCEPT ![s] = <<>>], w[s])

Shifted(w, ct) ==
  IF Cascade(ct) = {} THEN w
  ELSE MoveList(w, CHOOSE s \in Cascade(ct) : TRUE, ct)

(***************************************************************************)
(* timer_update_tick.  Take is one turn of the loop of timer_execute.       *)
(***************************************************************************)
Due(now) == <<Near, now % NearSize>>

Take(w, now, next) ==
  /\ firing' = w[Due(now)]
  /\ wheel' = [w EXCEPT ![Due(now)] = <<>>]
  /\ phase' = next

(* What is due before the time moves: timers that wait for no time. *)
ExecuteBefore ==
  /\ phase \in {"tick", "before"} /\ firing = <<>>
  /\ wheel[Due(time)] # <<>>
  /\ Take(wheel, time, "before")
  /\ UNCHANGED <<time, expire, pending>>

(* The time moves, and what is due then is taken under the same lock. *)
Shift ==
  LET ct == (time + 1) % Wrap
      w  == Shifted(wheel, ct)
  IN
  /\ phase \in {"tick", "before"} /\ firing = <<>>
  /\ wheel[Due(time)] = <<>>
  /\ time' = ct
  /\ Take(w, ct, IF w[Due(ct)] = <<>> THEN "tick" ELSE "after")
  /\ UNCHANGED <<expire, pending>>

ExecuteAfter ==
  /\ phase = "after" /\ firing = <<>>
  /\ Take(wheel, time, IF wheel[Due(time)] = <<>> THEN "tick" ELSE "after")
  /\ UNCHANGED <<time, expire, pending>>

(* dispatch_list, a timer at a time. *)
Fire ==
  /\ firing # <<>>
  /\ firing' = Tail(firing)
  /\ pending' = SelectSeq(pending, LAMBDA n : n # Head(firing))
  /\ expire' = [expire EXCEPT ![Head(firing)] = 0]
  /\ UNCHANGED <<time, wheel, phase>>

Next ==
  \/ \E n \in Timers, t \in 0..MaxTime : Add(n, t)
  \/ ExecuteBefore \/ Shift \/ ExecuteAfter \/ Fire

Spec == Init /\ [][Next]_vars

(***************************************************************************)
(* Properties.                                                             *)
(***************************************************************************)
Left(n) == (expire[n] - time) % Wrap

(* No timer is lost and none is linked twice, however often it moves from
   level to level: each one that was added and has not fired is in one list,
   once. *)
Links(n) == UNION {{s} \X {i \in DOMAIN wheel[s] : wheel[s][i] = n} : s \in Slots}

EachInOneList ==
  \A n \in Timers :
    Cardinality(Links(n)) + Cardinality({i \in DOMAIN firing : firing[i] = n})
      = IF Contains(pending, n) THEN 1 ELSE 0

(* A timer fires in the tick in which it is due, not in one before or after
   it, across every boundary of a level and the wrap of the time: what is
   dispatched is due now, and the time never passes one that is linked. *)
OnTime ==
  /\ \A i \in DOMAIN firing : expire[firing[i]] = time
  /\ \A i \in DOMAIN pending : Left(pending[i]) <= MaxTime

(* Between two sections a timer is where add_node would put it now: when the
   time enters the part of the wheel it is in, it has moved down. *)
Filed ==
  \A s \in Slots : \A i \in DOMAIN wheel[s] :
    s = SlotOf(expire[wheel[s][i]], time)

(* Timers that are due in the same tick fire in the order they were added,
   whichever lists they came through. *)
FiresInOrder ==
  [][Fire => \A i \in DOMAIN pending :
               pending[i] = Head(firing) =>
                 \A j \in 1..i - 1 : expire[pending[j]] # time]_vars
=============================================================================
