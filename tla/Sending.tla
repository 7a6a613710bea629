------------------------------ MODULE Sending ------------------------------
(***************************************************************************)
(* The timer service (ltask/service/timer.lua) and the way of a timer that *)
(* is due to its service: execute_timer, the sending queue of the          *)
(* exclusive thread, and what the runtime of an exclusive service          *)
(* (init_exclusive in ltask/service/service.lua) does with a message that  *)
(* finds this queue full.                                                  *)
(*                                                                         *)
(* A turn of the service is not interrupted: its coroutines run one after  *)
(* the other, and only then the thread dispatches the sending queue, under *)
(* the scheduler's lock, while other threads empty the queues of the       *)
(* receivers.  Module Timer shows which timers are due; here any are.      *)
(***************************************************************************)
EXTENDS Naturals, Sequences, FiniteSets

CONSTANTS Receiver,    \* services whose timers are due
          Self,        \* the timer service
          QueueLen,    \* messages the queue of a receiver holds
          SendingLen,  \* messages the sending queue holds
          BlockedIds,  \* SENDING_BLOCKED
          MaxBurst,    \* timers due in one tick (bound)
          MaxTimers    \* timers of one receiver (bound)

ASSUME SendingAssumption ==
  /\ Self \notin Receiver
  /\ {QueueLen, SendingLen, BlockedIds, MaxBurst, MaxTimers} \subseteq Nat

VARIABLES phase,    \* what the thread executes
          fired,    \* timers of each receiver that were due so far
          sending,  \* the sending queue
          left,     \* messages of it the dispatch has still to look at
          marked,   \* struct sending_blocked of this dispatch
          held,     \* the table timer_update returns
          blocked,  \* blocked_message; empty for nil
          inbox,    \* the queue of each receiver, and of the service itself
          taken     \* timers each receiver has handled

vars == <<phase, fired, sending, left, marked, held, blocked, inbox, taken>>

(* A timer is the n-th of its receiver; the service itself is woken by what
   two of its coroutines post to it. *)
Wakeup == {"loop", "retry"}
Mail == (Receiver \X (1..MaxTimers)) \cup ({Self} \X Wakeup)

TypeOK ==
  /\ phase \in {"update", "post", "wakeup", "dispatch", "resume"}
  /\ fired \in [Receiver -> 0..MaxTimers] /\ taken \in [Receiver -> 0..MaxTimers]
  /\ sending \in Seq(Mail) /\ Len(sending) <= SendingLen
  /\ left \in 0..Len(sending) /\ marked \in Seq(Receiver)
  /\ held \in Seq(Mail) /\ blocked \in Seq(Mail)
  /\ inbox \in [Receiver \cup {Self} -> Seq(Mail)]
  /\ \A d \in Receiver : Len(inbox[d]) <= QueueLen
  /\ inbox[Self] \in Seq({<<Self, "loop">>})

Init ==
  /\ phase = "update" /\ fired = [d \in Receiver |-> 0]
  /\ sending = <<>> /\ left = 0 /\ marked = <<>> /\ held = <<>> /\ blocked = <<>>
  /\ inbox = [d \in Receiver \cup {Self} |-> <<>>] /\ taken = [d \in Receiver |-> 0]

Room == SendingLen - Len(sending)

(* What of the messages ms there is room for, and what not *)
Fit(ms) == SubSeq(ms, 1, IF Len(ms) < Room THEN Len(ms) ELSE Room)
Over(ms) == SubSeq(ms, Len(Fit(ms)) + 1, Len(ms))

-----------------------------------------------------------------------------
(* The messages of a burst of timers *)
DueMail(burst) ==
  [i \in DOMAIN burst |->
     <<burst[i], fired[burst[i]] + Cardinality({j \in 1..i : burst[j] = burst[i]})>>]

(* mutant: the timer that finds the queue full is forgotten *)
HeldAfterFirst(ms) == IF Over(ms) = <<>> THEN <<>> ELSE Tail(Over(ms))

(* execute_timer: the first that finds the queue full, and all after it *)
HeldBack(ms) == Over(ms)

(* exclusive.timer_update *)
TimerUpdate(burst) ==
  LET ms == DueMail(burst)
  IN /\ phase = "update" /\ phase' = "post"
     /\ fired' = [d \in Receiver |->
                    fired[d] + Cardinality({j \in DOMAIN burst : burst[j] = d})]
     /\ \A d \in Receiver : fired'[d] <= MaxTimers
     /\ sending' = sending \o Fit(ms) /\ held' = HeldBack(ms)
     /\ UNCHANGED <<left, marked, blocked, inbox, taken>>

(* mutant: what there is no room for is lost *)
KeptNone(ms) == blocked

(* post_message of an exclusive service *)
Kept(ms) == blocked \o Over(ms)

PostAll(ms) == sending' = sending \o Fit(ms) /\ blocked' = Kept(ms)

(* send_blocked_message and ltask.sleep(0) of the loop.  The first message
   kept forks the coroutine that is to send it again. *)
PostHeld ==
  /\ phase = "post"
  /\ PostAll(held \o << <<Self, "loop">> >>) /\ held' = <<>>
  /\ phase' = IF blocked = <<>> /\ blocked' # <<>> THEN "wakeup" ELSE "dispatch"
  /\ left' = Len(sending') /\ marked' = <<>>
  /\ UNCHANGED <<fired, inbox, taken>>

(* retry_blocked_message begins: ltask.sleep(0) *)
RetrySleep ==
  /\ phase = "wakeup" /\ phase' = "dispatch"
  /\ PostAll(<< <<Self, "retry">> >>)
  /\ left' = Len(sending') /\ marked' = <<>>
  /\ UNCHANGED <<fired, held, inbox, taken>>

-----------------------------------------------------------------------------
(* dispatch_exclusive_sending, a message at a time *)

(* sending_blocked_check *)
IsMarked(d) == Len(marked) > BlockedIds \/ \E i \in DOMAIN marked : marked[i] = d

Dispatch ==
  LET m == Head(sending)
      d == m[1]
      goes == ~IsMarked(d) /\ (d = Self \/ Len(inbox[d]) < QueueLen)
  IN /\ phase = "dispatch" /\ left > 0
     /\ left' = left - 1
     /\ sending' = IF goes THEN Tail(sending) ELSE Append(Tail(sending), m)
     /\ inbox' = IF goes THEN [inbox EXCEPT ![d] = Append(@, m)] ELSE inbox
     /\ marked' = IF goes \/ IsMarked(d) THEN marked ELSE Append(marked, d)
     /\ UNCHANGED <<phase, fired, held, blocked, taken>>

Dispatched ==
  /\ phase = "dispatch" /\ left = 0 /\ phase' = "resume"
  /\ UNCHANGED <<fired, sending, left, marked, held, blocked, inbox, taken>>

(* service_resume: the next message of the service, the wake-up of the loop,
   or none.  That of retry_blocked_message never comes (TypeOK): it is posted
   in the turn in which the queue was found full, and is kept with the rest. *)
Resume ==
  LET mail == inbox[Self]
  IN /\ phase = "resume"
     /\ IF mail # <<>>
        THEN /\ inbox' = [inbox EXCEPT ![Self] = Tail(@)] /\ phase' = "update"
             /\ UNCHANGED left
        ELSE phase' = "dispatch" /\ left' = Len(sending) /\ UNCHANGED inbox
     /\ marked' = <<>>
     /\ UNCHANGED <<fired, sending, held, blocked, taken>>

(* A receiver handles the answer of its next timer. *)
Take(d) ==
  /\ inbox[d] # <<>>
  /\ inbox' = [inbox EXCEPT ![d] = Tail(@)] /\ taken' = [taken EXCEPT ![d] = @ + 1]
  /\ UNCHANGED <<phase, fired, sending, left, marked, held, blocked>>

Bursts == UNION {[1..n -> Receiver] : n \in 0..MaxBurst}
Thread == \/ \E burst \in Bursts : TimerUpdate(burst)
          \/ PostHeld \/ RetrySleep \/ Dispatch \/ Dispatched \/ Resume
Next == Thread \/ \E d \in Receiver : Take(d)

(* The exclusive thread runs on, and so do the services it sends to. *)
Spec == Init /\ [][Next]_vars /\ WF_vars(Thread) /\ \A d \in Receiver : WF_vars(Take(d))

-----------------------------------------------------------------------------
(* What the dispatch has pushed back comes before what it has not looked at. *)
InSendingOrder == SubSeq(sending, left + 1, Len(sending)) \o SubSeq(sending, 1, left)

(* The messages to d among ms are its timers a + 1 to b, each once and in order. *)
Runs(ms, d, a, b) ==
  /\ a <= b
  /\ \A i \in DOMAIN ms : ms[i][1] = d => ms[i][2] \in (a + 1)..b
  /\ \A n \in (a + 1)..b : \E i \in DOMAIN ms : ms[i][1] = d /\ ms[i][2] = n
  /\ \A i, j \in DOMAIN ms : i < j /\ ms[i][1] = d /\ ms[j][1] = d => ms[i][2] < ms[j][2]

(* Every timer that was due is answered once, and those of one service in the
   order they were due: what its queue, the sending queue and the tables of
   the two Lua functions hold is what it has not yet handled.  It may be late
   (see KeepsFiring), but it is not lost, doubled or overtaken. *)
Way(d) == inbox[d] \o InSendingOrder \o held \o blocked
Pipeline == \A d \in Receiver : Runs(Way(d), d, taken[d], fired[d])

(* The messages of the timer service are of their types, and each of them is on
   its way once and in order, in the sending queue or in Lua
   (ltask/service/service.lua: post_exclusive_message_). *)
Delivery == TypeOK /\ Pipeline

(* The timer service comes back to the wheel for ever, unless once a message
   found the sending queue full.  (Then it does not: the coroutine that is to
   send it again waits for a message that is in blocked_message too.) *)
KeepsFiring == ([]<>(phase = "update")) \/ <>(blocked # <<>>)
=============================================================================
