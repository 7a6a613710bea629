--------------------------- MODULE Session_proof ---------------------------
(***************************************************************************)
(* Proofs about module Session: the tables of the runtime of a service     *)
(* (ltask/service/service.lua) hold what they should and lead to a         *)
(* coroutine from one place at most, and a loop over a select ends by      *)
(* itself only when all is answered or it has timed out.                   *)
(*                                                                         *)
(* Most of the inductive invariant is about one service, Good.  It needs   *)
(* one fact about all of them, Asked: an answer that is due, whoever has   *)
(* it, is for a session its service has handed out, and for a session of a *)
(* select only if the request was taken by its receiver.  Without it an    *)
(* answer could be counted that the select does not wait for.              *)
(***************************************************************************)
EXTENDS Session, FiniteSetTheorems, TLAPS

(* The keys of session_waiting, and what session_coroutine_suspend_lookup
   holds. *)
Keys == Tokens \cup {Select}
Sleepers == Thread \cup {None, Ignore, Select, Stale}

-----------------------------------------------------------------------------
(* The invariant of the state v of one service s. *)

(* No table leads to t. *)
Unlisted(v, t) ==
  /\ \A k \in 0..MaxSession : v.lookup[k] # t
  /\ \A i \in DOMAIN v.wakeups : v.wakeups[i] # t
  /\ \A x \in Keys : v.waiting[x] # t

(* The tables lead to a coroutine once. *)
Tables(v) ==
  /\ \A j, k \in 0..MaxSession :
       v.lookup[j] \in Thread /\ v.lookup[j] = v.lookup[k] => j = k
  /\ \A i, j \in DOMAIN v.wakeups : v.wakeups[i] = v.wakeups[j] => i = j
  /\ \A x, y \in Keys :
       v.waiting[x] \in Thread /\ v.waiting[x] = v.waiting[y] => x = y
  /\ \A k \in 0..MaxSession, i \in DOMAIN v.wakeups :
       v.lookup[k] # v.wakeups[i]
  /\ \A k \in 0..MaxSession, x \in Keys :
       v.lookup[k] \in Thread => v.lookup[k] # v.waiting[x]
  /\ \A i \in DOMAIN v.wakeups, x \in Keys : v.wakeups[i] # v.waiting[x]

(* A coroutine that is free has been left by every table. *)
Rested(v) == \A t \in Thread : v.job[t] = "free" => Unlisted(v, t)

JobOK(v) ==
  \A t \in Thread :
    /\ v.job[t] = "report" => \E call \in Call : v.todo[t] = {call}
    /\ v.job[t] = "tell" => v.todo[t] \subseteq Call

(* The requests of the select that are not answered, or answered and not yet
   taken by the iterator. *)
Open(v) ==
  {k \in v.sel.sessions : v.lookup[k] = Select \/ k \in v.sel.resp}

SelectOK(v) ==
  LET x == v.sel
  IN /\ \A k \in 0..MaxSession :
          v.lookup[k] = Select => x # None /\ k \in 1..(v.next - 1)
     /\ x = None => v.waiting[Select] = None
     /\ x # None =>
          /\ x.resp \subseteq x.sessions
          /\ \A k \in x.resp : v.lookup[k] # Select
          /\ \A k \in x.sessions : k < v.next
          /\ x.timer \notin x.sessions
          /\ x.timer # None => x.timer < v.next
          /\ x.at = "sending" => x.timer = None
          /\ x.request = Cardinality(Open(v))
          /\ v.waiting[Select] \in {None, x.owner}
          /\ x.at # "woken" => v.waiting[Select] = None
          /\ x.at = "woken" =>
               \/ v.waiting[Select] # None
               \/ x.timeout \/ x.resp # {} \/ x.errors > 0

PostOK(s, v) ==
  LET m == v.post
  IN m # None =>
       /\ m.then # "raised" => v.run \in Thread
       /\ m.then \in {"call", "send"} =>
            m.type = "request" /\ m.report = None /\ m.to \in Users
       /\ m.then \in {"sleep", "timeout"} =>
            m.type = "response" /\ m.report = None /\ m.to = s
       /\ m.then = "later" =>
            m.type = "response" /\ m.report \in Call /\ m.to = s
       /\ m.then \in {"call", "send", "sleep", "timeout", "later"} =>
            m.session = v.next /\ v.next <= MaxSession
       /\ m.then \in {"timeout", "later"} => FreeThreads(v) # {}
       /\ m.then = "select" =>
            /\ m.type = "request" /\ m.report = None /\ m.to \in Users
            /\ m.session = v.next - 1 /\ m.session \in Sessions
            /\ v.lookup[m.session] = Select
            /\ v.sel # None
            /\ v.sel.owner = v.run
            /\ m.session \notin v.sel.sessions
            /\ m.session # v.sel.timer
       /\ m.then \in {"response", "raised", "tell"} =>
            m.type \in {"response", "error"} /\ m.report = None
       /\ m.then = "report" =>
            m.type = "request" /\ m.to = Root /\ m.session = 0
            /\ m.report \in Call

(* All but what the running coroutine has to do with it. *)
Settled(v) == v \in VM /\ Tables(v) /\ Rested(v) /\ JobOK(v) /\ SelectOK(v)

Runs(v) == v.run # None => Unlisted(v, v.run) /\ v.job[v.run] # "free"

Good(s, v) == Settled(v) /\ Runs(v) /\ PostOK(s, v)

-----------------------------------------------------------------------------
(* What is due: the calls that a mail, a message on its way, or a service
   will be an answer to, or may. *)
DueMail(to, m, call) ==
  \/ m.type = "request" /\ (call = <<m.from, m.session>> \/ call = m.report)
  \/ m.type # "request" /\ call = <<to, m.session>>
DuePost(m, call) ==
  \/ call = m.report
  \/ m.then \in {"response", "raised", "tell"} /\ call = <<m.to, m.session>>
DueVM(v, call) ==
  \/ \E t \in Thread : call = <<v.from[t], v.session[t]>>
  \/ \E t \in Thread : call \in v.todo[t]
  \/ v.post # None /\ DuePost(v.post, call)
DueQueue(q, to, call) == \E i \in DOMAIN q : DueMail(to, q[i], call)
DueOut(call) ==
  call \in timers \/ \E s \in Services : DueQueue(queue[s], s, call)
Due(call) == DueOut(call) \/ \E s \in Services : DueVM(vm[s], call)

(* Session k was handed out, and if a select has it, its request was sent. *)
Asks(v, k) ==
  /\ k < v.next
  /\ v.lookup[k] = Select => v.sel # None /\ k \in v.sel.sessions \cup {v.sel.timer}

Asked ==
  \A c \in Services, k \in Sessions :
    vm[c].state = "live" /\ Due(<<c, k>>) => Asks(vm[c], k)

(* root is only asked to report an error, and hears of the death of others. *)
ForRoot(m) == /\ m.type = "request" => m.report \in Call
              /\ m.type = "signal" => m.from # Root
RootAsked == \A i \in DOMAIN queue[Root] : ForRoot(queue[Root][i])

Inv ==
  /\ TypeOK
  /\ \A s \in Services : Good(s, vm[s])
  /\ RootAsked
  /\ Asked

-----------------------------------------------------------------------------
(* The state of a service. *)

LEMMA VMFields ==
  ASSUME NEW v \in VM
  PROVE  /\ v.state \in {"live", "dead", "signalled", "gone"}
         /\ v.run \in Thread \cup {None}
         /\ v.post \in Post \cup {None}
         /\ v.job \in [Thread -> Job]
         /\ v.from \in [Thread -> Services \cup {None}]
         /\ v.session \in [Thread -> (0..MaxSession) \cup {Nil}]
         /\ v.todo \in [Thread -> SUBSET (Services \X ((0..MaxSession) \cup {Nil}))]
         /\ v.lookup \in [0..MaxSession -> Sleepers]
         /\ v.waiting \in [Keys -> Thread \cup {None}]
         /\ v.wakeups \in Seq(Thread)
         /\ v.next \in 1..(MaxSession + 1)
         /\ v.quit \in BOOLEAN
         /\ v.sel \in Selection \cup {None}
BY DEF VM, Keys, Sleepers

(* Dispatch: the tables stay or lose the coroutine that runs next. *)
LEMMA DispatchGood ==
  ASSUME NEW s, NEW v, Settled(v), v.post = None
  PROVE  Good(s, Dispatch(v))
<1>1. v \in VM /\ Tables(v) /\ Rested(v) /\ JobOK(v) /\ SelectOK(v)
  BY DEF Settled
<1> DEFINE d == Dispatch(v)
<1>2. CASE v.wakeups # <<>>
  <2>1. /\ d = [v EXCEPT !.run = Head(v.wakeups), !.wakeups = Tail(@)]
        /\ v.wakeups \in Seq(Thread)
    BY <1>1, <1>2, VMFields DEF Dispatch
  <2>2. /\ Head(v.wakeups) \in Thread /\ Tail(v.wakeups) \in Seq(Thread)
        /\ 1 \in DOMAIN v.wakeups /\ Head(v.wakeups) = v.wakeups[1]
        /\ \A i \in DOMAIN Tail(v.wakeups) :
             i + 1 \in DOMAIN v.wakeups /\ Tail(v.wakeups)[i] = v.wakeups[i + 1]
             /\ i \in Nat \ {0}
    BY <1>2, <2>1
  <2>3. /\ d \in VM
        /\ d.run = Head(v.wakeups) /\ d.wakeups = Tail(v.wakeups)
        /\ d.lookup = v.lookup /\ d.waiting = v.waiting /\ d.job = v.job
        /\ d.todo = v.todo /\ d.next = v.next /\ d.sel = v.sel
        /\ d.post = v.post
    <3> DEFINE h == Head(v.wakeups)
               r == Tail(v.wakeups)
    <3>1. d = [v EXCEPT !.run = h, !.wakeups = r] /\ h \in Thread /\ r \in Seq(Thread)
      BY <1>1, <2>1, <2>2 DEF VM
    <3> HIDE DEF d, h, r
    <3>2. d \in VM
      BY <1>1, <3>1 DEF VM
    <3>3. /\ d.run = h /\ d.wakeups = r
          /\ d.lookup = v.lookup /\ d.waiting = v.waiting /\ d.job = v.job
          /\ d.todo = v.todo /\ d.next = v.next /\ d.sel = v.sel
          /\ d.post = v.post
      BY <1>1, <3>1 DEF VM
    <3> QED BY <3>2, <3>3 DEF h, r
  <2> HIDE DEF d
  <2>4. Tables(d) /\ Unlisted(d, d.run)
    BY <1>1, <2>2, <2>3 DEF Tables, Unlisted
  <2>5. Rested(d) /\ d.job[d.run] # "free"
    BY <1>1, <2>2, <2>3 DEF Rested, Unlisted
  <2>6. JobOK(d) /\ SelectOK(d) /\ PostOK(s, d)
    BY <1>1, <2>3 DEF JobOK, SelectOK, Open, PostOK
  <2> QED BY <2>3, <2>4, <2>5, <2>6 DEF Good, Settled, Runs, d
<1>3. CASE v.wakeups = <<>>
  <2>1. d = [v EXCEPT !.run = None, !.state = IF v.quit THEN "dead" ELSE @]
    BY <1>3 DEF Dispatch
  <2>2. /\ d \in VM
        /\ d.run = None /\ d.wakeups = v.wakeups
        /\ d.lookup = v.lookup /\ d.waiting = v.waiting /\ d.job = v.job
        /\ d.todo = v.todo /\ d.next = v.next /\ d.sel = v.sel
        /\ d.post = v.post
    BY <1>1, <2>1 DEF VM
  <2> HIDE DEF d
  <2>3. Tables(d) /\ Rested(d) /\ Runs(d)
    BY <1>1, <2>2 DEF Tables, Rested, Unlisted, Runs
  <2>4. JobOK(d) /\ SelectOK(d) /\ PostOK(s, d)
    BY <1>1, <2>2 DEF JobOK, SelectOK, Open, PostOK
  <2> QED BY <2>2, <2>3, <2>4 DEF Good, Settled, d
<1> QED BY <1>2, <1>3

(* new_thread. *)
LEMMA CreateFields ==
  ASSUME NEW v \in VM, NEW t \in Thread, NEW job \in Job,
         NEW from \in Services \cup {None},
         NEW session \in (0..MaxSession) \cup {Nil},
         NEW todo \in SUBSET (Services \X ((0..MaxSession) \cup {Nil}))
  PROVE  LET c == Create(v, t, job, from, session, todo)
         IN  /\ c \in VM
             /\ c.job = [v.job EXCEPT ![t] = job]
             /\ c.from = [v.from EXCEPT ![t] = from]
             /\ c.session = [v.session EXCEPT ![t] = session]
             /\ c.todo = [v.todo EXCEPT ![t] = todo]
             /\ c.lookup = v.lookup /\ c.wakeups = v.wakeups
             /\ c.waiting = v.waiting /\ c.run = v.run /\ c.next = v.next
             /\ c.sel = v.sel /\ c.post = v.post /\ c.state = v.state
             /\ c.quit = v.quit
BY DEF Create, VM

LEMMA RunVM ==
  ASSUME NEW v \in VM, NEW t \in Thread
  PROVE  [v EXCEPT !.run = t] \in VM
BY DEF VM

LEMMA CreateSettled ==
  ASSUME NEW v, Settled(v), NEW t \in Thread, NEW job \in Job,
         NEW from \in Services \cup {None},
         NEW session \in (0..MaxSession) \cup {Nil},
         NEW todo \in SUBSET (Services \X ((0..MaxSession) \cup {Nil})),
         job = "free" => Unlisted(v, t),
         job = "report" => \E call \in Call : todo = {call},
         job = "tell" => todo \subseteq Call
  PROVE  LET c == Create(v, t, job, from, session, todo)
         IN  /\ Settled(c)
             /\ \A u : Unlisted(v, u) => Unlisted(c, u)
<1> DEFINE c == Create(v, t, job, from, session, todo)
<1>1. v \in VM /\ Tables(v) /\ Rested(v) /\ JobOK(v) /\ SelectOK(v)
  BY DEF Settled
<1>2. /\ c \in VM
      /\ c.job = [v.job EXCEPT ![t] = job]
      /\ c.todo = [v.todo EXCEPT ![t] = todo]
      /\ c.lookup = v.lookup /\ c.wakeups = v.wakeups
      /\ c.waiting = v.waiting /\ c.next = v.next /\ c.sel = v.sel
  BY <1>1 DEF Create, VM
<1>3. /\ v.job \in [Thread -> Job]
      /\ v.todo \in [Thread -> SUBSET (Services \X ((0..MaxSession) \cup {Nil}))]
  BY <1>1, VMFields
<1> HIDE DEF c
<1>4. \A u : Unlisted(v, u) => Unlisted(c, u)
  BY <1>2 DEF Unlisted
<1>5. Tables(c) /\ SelectOK(c)
  BY <1>1, <1>2 DEF Tables, SelectOK, Open
<1>6. Rested(c)
  BY <1>1, <1>2, <1>3, <1>4 DEF Rested
<1>7. JobOK(c)
  BY <1>1, <1>2, <1>3 DEF JobOK
<1> QED BY <1>2, <1>4, <1>5, <1>6, <1>7 DEF Settled, c

LEMMA FinishSettled ==
  ASSUME NEW v, Settled(v), NEW t \in Thread, Unlisted(v, t)
  PROVE  /\ Settled(Finish(v, t))
         /\ \A u : Unlisted(v, u) => Unlisted(Finish(v, t), u)
BY CreateSettled DEF Finish, Job

(* The coroutine that is picked for a new session is free. *)
LEMMA NewThreadFree ==
  ASSUME NEW v, FreeThreads(v) # {}
  PROVE  NewThread(v) \in Thread /\ v.job[NewThread(v)] = "free"
<1>1. NewThread(v) \in FreeThreads(v)
  BY DEF NewThread
<1> QED BY <1>1 DEF FreeThreads

(* session_coroutine_suspend_lookup[session_id] = h *)
LEMMA SuspendFields ==
  ASSUME NEW v \in VM, NEW h \in Sleepers, v.next <= MaxSession
  PROVE  LET c == Suspend(v, h)
         IN  /\ c \in VM
             /\ c.lookup = [v.lookup EXCEPT ![v.next] = h]
             /\ c.next = v.next + 1
             /\ c.job = v.job /\ c.from = v.from /\ c.session = v.session
             /\ c.todo = v.todo /\ c.wakeups = v.wakeups
             /\ c.waiting = v.waiting /\ c.run = v.run /\ c.sel = v.sel
             /\ c.post = v.post /\ c.state = v.state /\ c.quit = v.quit
<1>1. v.next \in 1..(MaxSession + 1) /\ v.lookup \in [0..MaxSession -> Sleepers]
  BY VMFields
<1>2. MaxSession \in Nat
  BY SessionAssumption
<1>3. v.next + 1 \in 1..(MaxSession + 1)
  BY <1>1, <1>2
<1>4. [v.lookup EXCEPT ![v.next] = h] \in [0..MaxSession -> Sleepers]
  BY <1>1
<1> QED BY <1>3, <1>4 DEF Suspend, VM, Sleepers

LEMMA SuspendSettled ==
  ASSUME NEW v, Settled(v), NEW h \in Sleepers, v.next <= MaxSession,
         h \in Thread => Unlisted(v, h) /\ v.job[h] # "free",
         h = Select => v.sel # None
  PROVE  /\ Settled(Suspend(v, h))
         /\ \A u : Unlisted(v, u) /\ u # h => Unlisted(Suspend(v, h), u)
<1> DEFINE c == Suspend(v, h)
<1>1. v \in VM /\ Tables(v) /\ Rested(v) /\ JobOK(v) /\ SelectOK(v)
  BY DEF Settled
<1>2. /\ c \in VM
      /\ c.lookup = [v.lookup EXCEPT ![v.next] = h]
      /\ c.next = v.next + 1
      /\ c.job = v.job /\ c.todo = v.todo /\ c.wakeups = v.wakeups
      /\ c.waiting = v.waiting /\ c.sel = v.sel
  BY <1>1, SuspendFields
<1>3. /\ v.lookup \in [0..MaxSession -> Sleepers]
      /\ v.next \in 1..(MaxSession + 1) /\ MaxSession \in Nat
      /\ v.next \in 0..MaxSession
      /\ v.waiting \in [Keys -> Thread \cup {None}]
      /\ v.sel \in Selection \cup {None}
  BY <1>1, VMFields, SessionAssumption
<1> HIDE DEF c
<1>4. \A u : Unlisted(v, u) /\ u # h => Unlisted(c, u)
  BY <1>2, <1>3 DEF Unlisted
<1>5. Tables(c)
  <2>1. /\ \A k \in 0..MaxSession : c.lookup[k] = IF k = v.next THEN h ELSE v.lookup[k]
        /\ \A i \in DOMAIN v.wakeups : v.wakeups[i] \in Thread
    BY <1>1, <1>2, <1>3, VMFields
  <2>2. \A j, k \in 0..MaxSession :
          c.lookup[j] \in Thread /\ c.lookup[j] = c.lookup[k] => j = k
    BY <1>1, <2>1 DEF Tables, Unlisted
  <2>3. \A k \in 0..MaxSession, i \in DOMAIN v.wakeups :
          c.lookup[k] # v.wakeups[i]
    BY <1>1, <2>1 DEF Tables, Unlisted
  <2>4. \A k \in 0..MaxSession, x \in Keys :
          c.lookup[k] \in Thread => c.lookup[k] # v.waiting[x]
    BY <1>1, <2>1 DEF Tables, Unlisted
  <2> QED BY <1>1, <1>2, <2>2, <2>3, <2>4 DEF Tables
<1>6. Rested(c) /\ JobOK(c)
  BY <1>1, <1>2, <1>4 DEF Rested, JobOK
<1>7. SelectOK(c)
  <2>1. v.sel # None => Open(c) = Open(v)
    <3>1. v.sel # None => \A k \in v.sel.sessions :
            k \in Sessions /\ k < v.next /\ c.lookup[k] = v.lookup[k]
      BY <1>1, <1>2, <1>3 DEF SelectOK, Selection, Sessions
    <3> QED BY <1>2, <3>1 DEF Open
  <2>2. v.sel # None => \A k \in v.sel.resp : c.lookup[k] # Select
    BY <1>1, <1>2, <1>3 DEF SelectOK, Selection, Sessions
  <2>3. \A k \in 0..MaxSession :
          c.lookup[k] = Select => c.sel # None /\ k \in 1..(c.next - 1)
    BY <1>1, <1>2, <1>3 DEF SelectOK
  <2>4. v.sel # None => /\ \A k \in v.sel.sessions : k < c.next
                        /\ v.sel.timer # None => v.sel.timer < c.next
    BY <1>1, <1>2, <1>3 DEF SelectOK, Selection, Sessions
  <2> QED BY <1>1, <1>2, <2>1, <2>2, <2>3, <2>4 DEF SelectOK
<1> QED BY <1>2, <1>4, <1>5, <1>6, <1>7 DEF Settled, c

(* A coroutine no table leads to is put in the wakeup queue. *)
LEMMA QueueSettled ==
  ASSUME NEW v, Settled(v), NEW t \in Thread, Unlisted(v, t),
         v.job[t] # "free",
         NEW c, c = [v EXCEPT !.wakeups = Append(@, t)]
  PROVE  /\ Settled(c)
         /\ \A u : Unlisted(v, u) /\ u # t => Unlisted(c, u)
<1>1. v \in VM /\ Tables(v) /\ Rested(v) /\ JobOK(v) /\ SelectOK(v)
  BY DEF Settled
<1>2. v.wakeups \in Seq(Thread)
  BY <1>1, VMFields
<1>3. /\ Append(v.wakeups, t) \in Seq(Thread)
      /\ \A i \in DOMAIN Append(v.wakeups, t) :
           \/ i \in DOMAIN v.wakeups /\ Append(v.wakeups, t)[i] = v.wakeups[i]
           \/ i = Len(v.wakeups) + 1 /\ Append(v.wakeups, t)[i] = t
  BY <1>2
<1>4. /\ c \in VM
      /\ c.wakeups = Append(v.wakeups, t)
      /\ c.lookup = v.lookup /\ c.waiting = v.waiting /\ c.job = v.job
      /\ c.todo = v.todo /\ c.next = v.next /\ c.sel = v.sel
  BY <1>1, <1>3 DEF VM
<1>5. \A u : Unlisted(v, u) /\ u # t => Unlisted(c, u)
  BY <1>3, <1>4 DEF Unlisted
<1>6. Tables(c)
  BY <1>1, <1>3, <1>4 DEF Tables, Unlisted
<1>7. Rested(c) /\ JobOK(c) /\ SelectOK(c)
  BY <1>1, <1>4, <1>5 DEF Rested, JobOK, SelectOK, Open
<1> QED BY <1>4, <1>5, <1>6, <1>7 DEF Settled

LEMMA ForkSettled ==
  ASSUME NEW v, Settled(v), NEW job \in {"user", "quit"},
         FreeThreads(v) # {}
  PROVE  /\ Settled(Fork(v, job))
         /\ \A u : Unlisted(v, u) /\ u # NewThread(v) => Unlisted(Fork(v, job), u)
<1> DEFINE t == NewThread(v)
           w == Create(v, t, job, None, Nil, {})
<1>1. t \in Thread /\ v.job[t] = "free"
  BY NewThreadFree
<1>2. v \in VM /\ Unlisted(v, t)
  BY <1>1 DEF Settled, Rested
<1>3. Settled(w) /\ \A u : Unlisted(v, u) => Unlisted(w, u)
  BY <1>1, CreateSettled DEF Job
<1>4. w.job[t] # "free"
  BY <1>1, <1>2 DEF Create, VM
<1>5. Fork(v, job) = [w EXCEPT !.wakeups = Append(@, t)]
  BY DEF Fork
<1> HIDE DEF t, w
<1>6. Unlisted(w, t)
  BY <1>2, <1>3
<1>7. /\ Settled(Fork(v, job))
      /\ \A u : Unlisted(w, u) /\ u # t => Unlisted(Fork(v, job), u)
  BY <1>1, <1>3, <1>4, <1>5, <1>6, QueueSettled
<1> QED BY <1>3, <1>7 DEF t

(* ltask.wakeup; for the token of a select there is something to find. *)
LEMMA WokenSettled ==
  ASSUME NEW v, Settled(v), NEW x \in Keys,
         x = Select => /\ v.sel # None
                       /\ v.sel.timeout \/ v.sel.resp # {} \/ v.sel.errors > 0
  PROVE  /\ Settled(Woken(v, x))
         /\ \A u \in Thread : Unlisted(v, u) => Unlisted(Woken(v, x), u)
<1>1. v \in VM /\ Tables(v) /\ Rested(v) /\ JobOK(v) /\ SelectOK(v)
  BY DEF Settled
<1>2. CASE v.waiting[x] = None
  BY <1>2 DEF Woken
<1>3. CASE v.waiting[x] # None
  <2> DEFINE t == v.waiting[x]
             w == [v EXCEPT !.waiting[x] = None]
  <2>1. /\ v.waiting \in [Keys -> Thread \cup {None}]
        /\ v.wakeups \in Seq(Thread) /\ v.lookup \in [0..MaxSession -> Sleepers]
        /\ v.sel \in Selection \cup {None}
    BY <1>1, VMFields
  <2>2. t \in Thread
    BY <1>3, <2>1
  <2>3. /\ w \in VM
        /\ w.waiting = [v.waiting EXCEPT ![x] = None]
        /\ w.lookup = v.lookup /\ w.wakeups = v.wakeups /\ w.job = v.job
        /\ w.todo = v.todo /\ w.next = v.next /\ w.sel = v.sel
    BY <1>1, <2>1 DEF VM, Keys
  <2>4. Woken(v, x) = [w EXCEPT !.wakeups = Append(@, t)]
    <3>1. Woken(v, x) = [v EXCEPT !.wakeups = Append(@, t), !.waiting[x] = None]
      BY <1>3 DEF Woken
    <3> QED BY <1>1, <3>1 DEF VM
  <2> HIDE DEF w
  <2>5. /\ \A u \in Thread : Unlisted(v, u) => Unlisted(w, u) /\ u # t
        /\ Unlisted(w, t)
    <3>1. \A y \in Keys : w.waiting[y] = IF y = x THEN None ELSE v.waiting[y]
      BY <2>1, <2>3
    <3>2. \A k \in 0..MaxSession : v.lookup[k] # t
      BY <1>1, <2>2 DEF Tables
    <3> QED BY <1>1, <2>2, <2>3, <3>1, <3>2, NilAssumption DEF Unlisted, Tables
  <2>6. Tables(w)
    BY <1>1, <2>1, <2>3, NilAssumption DEF Tables
  <2>7. Rested(w)
    BY <1>1, <2>3, <2>5, NilAssumption DEF Rested
  <2>8. SelectOK(w)
    <3>1. x # Select => w.waiting[Select] = v.waiting[Select]
      BY <2>1, <2>3 DEF Keys
    <3>2. x = Select => w.waiting[Select] = None
      BY <2>1, <2>3 DEF Keys
    <3>3. Open(w) = Open(v)
      BY <2>3 DEF Open
    <3> QED BY <1>1, <1>3, <2>3, <3>1, <3>2, <3>3 DEF SelectOK
  <2>9. Settled(w) /\ w.job[t] # "free"
    BY <1>1, <2>2, <2>3, <2>6, <2>7, <2>8 DEF Settled, JobOK, Rested, Unlisted
  <2>10. /\ Settled(Woken(v, x))
         /\ \A u : Unlisted(w, u) /\ u # t => Unlisted(Woken(v, x), u)
    BY <2>2, <2>4, <2>5, <2>9, QueueSettled
  <2> QED BY <2>5, <2>10 DEF Unlisted
<1> QED BY <1>2, <1>3

(* The other fields of a service do not matter to the tables. *)
LEMMA SameSettled ==
  ASSUME NEW v, Settled(v), NEW c \in VM,
         c.lookup = v.lookup, c.wakeups = v.wakeups, c.waiting = v.waiting,
         c.job = v.job, c.todo = v.todo, c.next = v.next, c.sel = v.sel
  PROVE  /\ Settled(c)
         /\ \A u : Unlisted(v, u) => Unlisted(c, u)
<1>1. \A u : Unlisted(v, u) <=> Unlisted(c, u)
  BY DEF Unlisted
<1>2. Tables(c) /\ Rested(c) /\ JobOK(c) /\ SelectOK(c)
  BY <1>1 DEF Settled, Tables, Rested, JobOK, SelectOK, Open
<1> QED BY <1>1, <1>2 DEF Settled

(* A select is left: nothing is for request_thread any more. *)
LEMMA ForgetSettled ==
  ASSUME NEW v, Settled(v), v.waiting[Select] = None,
         NEW c \in VM, c.sel = None,
         c.wakeups = v.wakeups, c.waiting = v.waiting, c.job = v.job,
         c.todo = v.todo,
         \A k \in 0..MaxSession :
           \/ c.lookup[k] \in {Ignore, Stale}
           \/ c.lookup[k] = v.lookup[k] /\ c.lookup[k] # Select
  PROVE  /\ Settled(c)
         /\ \A u \in Thread : Unlisted(v, u) => Unlisted(c, u)
<1> DEFINE l == c.lookup
<1>1. v \in VM /\ Tables(v) /\ Rested(v) /\ JobOK(v) /\ SelectOK(v)
  BY DEF Settled
<1>2. /\ v.lookup \in [0..MaxSession -> Sleepers]
      /\ v.wakeups \in Seq(Thread)
  BY <1>1, VMFields
<1>3. /\ c \in VM
      /\ c.lookup = l /\ c.sel = None
      /\ c.wakeups = v.wakeups /\ c.waiting = v.waiting /\ c.job = v.job
      /\ c.todo = v.todo
  OBVIOUS
<1>4. {Ignore, Stale} \cap Thread = {} /\ Select \notin {None, Ignore, Stale}
  BY NilAssumption
<1>5. \A k \in 0..MaxSession :
        l[k] \in Thread => l[k] = v.lookup[k]
  BY <1>4
<1>6. \A u \in Thread : Unlisted(v, u) => Unlisted(c, u)
  BY <1>3, <1>5 DEF Unlisted
<1>7. Tables(c)
  <2>1. \A i \in DOMAIN v.wakeups : v.wakeups[i] \in Thread
    BY <1>2
  <2>2. \A j, k \in 0..MaxSession : l[j] \in Thread /\ l[j] = l[k] => j = k
    BY <1>1, <1>5 DEF Tables
  <2>3. \A k \in 0..MaxSession, i \in DOMAIN v.wakeups : l[k] # v.wakeups[i]
    BY <1>1, <1>5, <2>1 DEF Tables
  <2>4. \A k \in 0..MaxSession, x \in Keys :
          l[k] \in Thread => l[k] # v.waiting[x]
    BY <1>1, <1>5 DEF Tables
  <2> QED BY <1>1, <1>3, <2>2, <2>3, <2>4 DEF Tables
<1>8. Rested(c) /\ JobOK(c)
  BY <1>1, <1>3, <1>6 DEF Rested, JobOK
<1>9. SelectOK(c)
  BY <1>3, <1>4 DEF SelectOK
<1> QED BY <1>3, <1>6, <1>7, <1>8, <1>9 DEF Settled

(* The owner of a select that runs does not wait in its iterator. *)
LEMMA OwnerAwake ==
  ASSUME NEW v, Settled(v), Unlisted(v, v.run), InSelect(v)
  PROVE  v.sel # None /\ v.sel.owner = v.run /\ v.waiting[Select] = None
<1>1. v.sel # None /\ v.sel.owner = v.run
  BY DEF InSelect
<1>2. v.waiting[Select] # v.run
  BY DEF Unlisted, Keys
<1> QED BY <1>1, <1>2 DEF Settled, SelectOK

LEMMA AbandonSettled ==
  ASSUME NEW v, Settled(v), Unlisted(v, v.run)
  PROVE  /\ Settled(Abandon(v))
         /\ \A u \in Thread : Unlisted(v, u) => Unlisted(Abandon(v), u)
         /\ Abandon(v).run = v.run /\ Abandon(v).post = v.post
         /\ Abandon(v).job = v.job /\ Abandon(v).from = v.from
         /\ Abandon(v).session = v.session /\ Abandon(v).todo = v.todo
<1>1. CASE ~InSelect(v)
  BY <1>1 DEF Abandon
<1>2. CASE InSelect(v)
  <2> DEFINE l == [k \in DOMAIN v.lookup |->
                     IF v.lookup[k] = Select THEN Stale ELSE v.lookup[k]]
  <2>1. v.lookup \in [0..MaxSession -> Sleepers] /\ v \in VM
    BY VMFields DEF Settled
  <2>2. /\ Abandon(v) = [v EXCEPT !.sel = None, !.lookup = l]
        /\ l \in [0..MaxSession -> Sleepers]
    BY <1>2, <2>1 DEF Abandon, VM, Sleepers
  <2>3. \A k \in 0..MaxSession :
          l[k] \in {Ignore, Stale} \/ (l[k] = v.lookup[k] /\ l[k] # Select)
    BY <2>1
  <2> HIDE DEF l
  <2>4. /\ Abandon(v) \in VM
        /\ Abandon(v).lookup = l
        /\ Abandon(v).sel = None /\ Abandon(v).wakeups = v.wakeups
        /\ Abandon(v).waiting = v.waiting /\ Abandon(v).job = v.job
        /\ Abandon(v).todo = v.todo /\ Abandon(v).run = v.run
        /\ Abandon(v).post = v.post /\ Abandon(v).from = v.from
        /\ Abandon(v).session = v.session
    BY <2>1, <2>2 DEF VM, Sleepers
  <2>5. \A k \in 0..MaxSession :
          \/ Abandon(v).lookup[k] \in {Ignore, Stale}
          \/ Abandon(v).lookup[k] = v.lookup[k] /\ Abandon(v).lookup[k] # Select
    BY <2>4, <2>3
  <2>6. v.waiting[Select] = None
    BY <1>2, OwnerAwake
  <2> QED BY <2>4, <2>5, <2>6, ForgetSettled
<1> QED BY <1>1, <1>2

LEMMA CloseSettled ==
  ASSUME NEW v, Settled(v), Unlisted(v, v.run), InSelect(v)
  PROVE  /\ Settled(Close(v))
         /\ \A u \in Thread : Unlisted(v, u) => Unlisted(Close(v), u)
         /\ Close(v).run = v.run /\ Close(v).post = v.post
         /\ Close(v).job = v.job /\ Close(v).from = v.from
         /\ Close(v).session = v.session /\ Close(v).todo = v.todo
<1> DEFINE open == IF v.sel.request > 0 THEN v.sel.sessions \ v.sel.resp ELSE {}
           ignored == IF v.sel.timer = None THEN open ELSE open \cup {v.sel.timer}
           l == [k \in DOMAIN v.lookup |->
                   IF k \in ignored THEN Ignore
                   ELSE IF v.lookup[k] = Select THEN Stale ELSE v.lookup[k]]
<1>1. v.lookup \in [0..MaxSession -> Sleepers] /\ v \in VM
  BY VMFields DEF Settled
<1>2. Close(v) = [v EXCEPT !.sel = None, !.lookup = l]
  BY <1>1 DEF Close, VM
<1> HIDE DEF ignored
<1>3. l \in [0..MaxSession -> Sleepers]
  BY <1>1 DEF Sleepers
<1>4. \A k \in 0..MaxSession :
        l[k] \in {Ignore, Stale} \/ (l[k] = v.lookup[k] /\ l[k] # Select)
  BY <1>1
<1> HIDE DEF l
<1>5. /\ Close(v) \in VM
      /\ Close(v).lookup = l
      /\ Close(v).sel = None /\ Close(v).wakeups = v.wakeups
      /\ Close(v).waiting = v.waiting /\ Close(v).job = v.job
      /\ Close(v).todo = v.todo /\ Close(v).run = v.run
      /\ Close(v).post = v.post /\ Close(v).from = v.from
      /\ Close(v).session = v.session
  BY <1>1, <1>2, <1>3 DEF VM, Sleepers
<1>6. \A k \in 0..MaxSession :
        \/ Close(v).lookup[k] \in {Ignore, Stale}
        \/ Close(v).lookup[k] = v.lookup[k] /\ Close(v).lookup[k] # Select
  BY <1>5, <1>4
<1>7. v.waiting[Select] = None
  BY OwnerAwake
<1> QED BY <1>5, <1>6, <1>7, ForgetSettled

(* resume_session of a coroutine that raised an error. *)
LEMMA FailGood ==
  ASSUME NEW s, NEW v, Settled(v), v.run \in Thread, Unlisted(v, v.run),
         v.post = None
  PROVE  Good(s, Fail(v))
<1> DEFINE t == v.run
           a == Abandon(v)
           w == Finish(a, t)
<1>1. v \in VM /\ MaxSession \in Nat
  BY SessionAssumption DEF Settled
<1>2. /\ Settled(a) /\ Unlisted(a, t)
      /\ a.post = None
  BY AbandonSettled
<1>3. /\ Settled(w) /\ Unlisted(w, t)
  BY <1>2, FinishSettled
<1>4. w \in VM /\ w.post = None
  BY <1>2, <1>3 DEF Settled, Finish, Create, VM
<1>5. /\ v.from \in [Thread -> Services \cup {None}]
      /\ v.session \in [Thread -> (0..MaxSession) \cup {Nil}]
  BY <1>1, VMFields
<1>6. Fail(v) = IF v.from[t] = None THEN Dispatch(w)
                ELSE IF v.session[t] = Nil
                THEN [w EXCEPT !.run = None, !.wakeups = <<>>, !.state = "dead"]
                ELSE [w EXCEPT !.run = None,
                               !.post = Mail(v.from[t], "error", v.session[t],
                                             None, "raised")]
  BY DEF Fail
<1> HIDE DEF a, w
<1>7. CASE v.from[t] = None
  BY <1>3, <1>4, <1>6, <1>7, DispatchGood
<1>8. CASE v.from[t] # None /\ v.session[t] = Nil
  <2> DEFINE c == [w EXCEPT !.run = None, !.wakeups = <<>>, !.state = "dead"]
  <2>1. Fail(v) = c
    BY <1>6, <1>8
  <2>2. /\ c \in VM
        /\ c.run = None /\ c.wakeups = <<>> /\ c.post = None
        /\ c.lookup = w.lookup /\ c.waiting = w.waiting /\ c.job = w.job
        /\ c.todo = w.todo /\ c.next = w.next /\ c.sel = w.sel
    <3>1. <<>> \in Seq(Thread) /\ "dead" \in {"live", "dead", "signalled", "gone"}
      OBVIOUS
    <3>2. None \in Thread \cup {None}
      OBVIOUS
    <3> QED BY <1>4, <3>1, <3>2 DEF VM
  <2> HIDE DEF c
  <2>3. Tables(w) /\ Rested(w) /\ JobOK(w) /\ SelectOK(w)
    BY <1>3 DEF Settled
  <2>4. Tables(c)
    BY <2>2, <2>3 DEF Tables
  <2>5. Rested(c)
    BY <2>2, <2>3 DEF Rested, Unlisted
  <2>6. JobOK(c) /\ SelectOK(c)
    BY <2>2, <2>3 DEF JobOK, SelectOK, Open
  <2> QED BY <2>1, <2>2, <2>4, <2>5, <2>6 DEF Good, Settled, Runs, PostOK
<1>9. CASE v.from[t] # None /\ v.session[t] # Nil
  <2> DEFINE m == Mail(v.from[t], "error", v.session[t], None, "raised")
             c == [w EXCEPT !.run = None, !.post = m]
  <2>1. Fail(v) = c
    BY <1>6, <1>9
  <2>2. m \in Post
    BY <1>5, <1>9 DEF Mail, Post
  <2>3. /\ m.then = "raised" /\ m.type = "error" /\ m.report = None
    BY DEF Mail
  <2> HIDE DEF m
  <2>4. /\ c \in VM
        /\ c.run = None /\ c.wakeups = w.wakeups /\ c.post = m
        /\ c.lookup = w.lookup /\ c.waiting = w.waiting /\ c.job = w.job
        /\ c.todo = w.todo /\ c.next = w.next /\ c.sel = w.sel
    BY <1>4, <2>2 DEF VM
  <2> HIDE DEF c
  <2>5. Settled(c)
    BY <1>3, <2>4, SameSettled
  <2>6. PostOK(s, c)
    BY <2>3, <2>4 DEF PostOK
  <2> QED BY <2>1, <2>4, <2>5, <2>6 DEF Good, Runs
<1> QED BY <1>7, <1>8, <1>9

(* A service that has just been started, or is dead. *)
LEMMA EmptyGood ==
  ASSUME NEW s, NEW st \in {"live", "dead", "signalled", "gone"}
  PROVE  Good(s, EmptyVM(st)) /\ EmptyVM(st).run = None /\ EmptyVM(st).post = None
<1> DEFINE e == EmptyVM(st)
<1>1. MaxSession \in Nat
  BY SessionAssumption
<1>2. e \in VM
  BY <1>1 DEF EmptyVM, VM, Job
<1>3. /\ e.run = None /\ e.post = None /\ e.sel = None
      /\ e.wakeups = <<>> /\ e.next = 1
      /\ e.job = [t \in Thread |-> "free"]
      /\ e.lookup = [k \in 0..MaxSession |-> None]
      /\ e.waiting = [w \in Keys |-> None]
  BY DEF EmptyVM, Keys
<1> HIDE DEF e
<1>4. None \notin Thread /\ Select # None
  BY NilAssumption
<1>5. /\ \A k \in 0..MaxSession : e.lookup[k] = None
      /\ \A x \in Keys : e.waiting[x] = None
      /\ DOMAIN e.wakeups = {}
  BY <1>3
<1>6. Tables(e) /\ Rested(e)
  BY <1>4, <1>5 DEF Tables, Rested, Unlisted
<1>7. JobOK(e)
  BY <1>3 DEF JobOK
<1>8. SelectOK(e)
  BY <1>3, <1>4, <1>5 DEF SelectOK, Keys
<1> QED BY <1>2, <1>3, <1>6, <1>7, <1>8 DEF Good, Settled, Runs, PostOK, e

LEMMA StartGood ==
  ASSUME NEW s, NEW t \in Thread
  PROVE  Good(s, [EmptyVM("live") EXCEPT !.run = t, !.job[t] = "user"])
<1> DEFINE e == EmptyVM("live")
           c == [e EXCEPT !.run = t, !.job[t] = "user"]
<1>1. Settled(e) /\ e \in VM
  BY EmptyGood DEF Good, Settled
<1>2. /\ e.job = [u \in Thread |-> "free"]
      /\ e.lookup = [k \in 0..MaxSession |-> None]
      /\ e.waiting = [w \in Keys |-> None]
      /\ e.wakeups = <<>> /\ e.post = None
  BY DEF EmptyVM, Keys
<1>3. t # None
  BY NilAssumption
<1> HIDE DEF e
<1>4. Unlisted(e, t)
  <2>1. /\ \A k \in 0..MaxSession : e.lookup[k] = None
        /\ \A x \in Keys : e.waiting[x] = None
        /\ DOMAIN e.wakeups = {}
    BY <1>2
  <2> QED BY <1>3, <2>1 DEF Unlisted
<1>5. /\ c \in VM /\ c.run = t /\ c.job = [e.job EXCEPT ![t] = "user"]
      /\ c.lookup = e.lookup /\ c.waiting = e.waiting /\ c.wakeups = e.wakeups
      /\ c.todo = e.todo /\ c.next = e.next /\ c.sel = e.sel /\ c.post = None
  BY <1>1, <1>2 DEF VM, Job
<1> HIDE DEF c
<1>6. \A u : Unlisted(e, u) => Unlisted(c, u)
  BY <1>5 DEF Unlisted
<1>7. Tables(c) /\ SelectOK(c)
  BY <1>1, <1>5 DEF Settled, Tables, SelectOK, Open
<1>8. Rested(c) /\ JobOK(c) /\ c.job[t] = "user"
  BY <1>1, <1>2, <1>5, <1>6 DEF Settled, Rested, JobOK
<1>9. Runs(c) /\ PostOK(s, c)
  BY <1>4, <1>5, <1>6, <1>8 DEF Runs, PostOK
<1> QED BY <1>5, <1>7, <1>8, <1>9 DEF Good, Settled, c, e

-----------------------------------------------------------------------------
(* request/select. *)

LEMMA SelectionFields ==
  ASSUME NEW x \in Selection
  PROVE  /\ x.owner \in Thread /\ x.left \in Seq(Users)
         /\ x.sessions \in SUBSET Sessions /\ x.resp \in SUBSET Sessions
         /\ x.errors \in Nat /\ x.request \in Nat
         /\ x.timer \in Sessions \cup {None} /\ x.timeout \in BOOLEAN
         /\ x.at \in {"sending", "body", "woken"}
         /\ x # None
BY NilAssumption DEF Selection

LEMMA SelectSettled ==
  ASSUME NEW v, Settled(v), NEW c \in VM,
         c.lookup = v.lookup, c.wakeups = v.wakeups, c.waiting = v.waiting,
         c.job = v.job, c.todo = v.todo, SelectOK(c)
  PROVE  /\ Settled(c)
         /\ \A u : Unlisted(v, u) => Unlisted(c, u)
<1>1. \A u : Unlisted(v, u) <=> Unlisted(c, u)
  BY DEF Unlisted
<1>2. Tables(c) /\ Rested(c) /\ JobOK(c)
  BY <1>1 DEF Settled, Tables, Rested, JobOK
<1> QED BY <1>1, <1>2 DEF Settled

LEMMA OpenFinite ==
  ASSUME NEW v, NEW x \in Selection, v.sel = x
  PROVE  IsFiniteSet(Open(v)) /\ Open(v) \subseteq Sessions
<1>1. MaxSession \in Nat
  BY SessionAssumption
<1>2. IsFiniteSet(1..MaxSession)
  BY <1>1, FS_Interval
<1>3. Open(v) \subseteq 1..MaxSession
  BY SelectionFields DEF Open, Sessions
<1> QED BY <1>2, <1>3, FS_Subset DEF Sessions

(* The loop begins. *)
LEMMA BeginSettled ==
  ASSUME NEW v, Settled(v), v.run \in Thread, v.sel = None,
         NEW left \in Seq(Users),
         NEW c, c = [v EXCEPT !.sel =
           [owner |-> v.run, left |-> left, sessions |-> {}, resp |-> {},
            errors |-> 0, request |-> 0, timer |-> None, timeout |-> FALSE,
            at |-> "sending"]]
  PROVE  /\ Settled(c)
         /\ \A u : Unlisted(v, u) => Unlisted(c, u)
<1> DEFINE x == [owner |-> v.run, left |-> left, sessions |-> {}, resp |-> {},
                 errors |-> 0, request |-> 0, timer |-> None, timeout |-> FALSE,
                 at |-> "sending"]
<1>1. v \in VM /\ SelectOK(v)
  BY DEF Settled
<1>2. /\ x \in Selection /\ x.sessions = {} /\ x.resp = {} /\ x.request = 0
      /\ x.timer = None /\ x.at = "sending"
  BY DEF Selection
<1> HIDE DEF x
<1>3. /\ c \in VM /\ c.sel = x
      /\ c.lookup = v.lookup /\ c.wakeups = v.wakeups
      /\ c.waiting = v.waiting /\ c.job = v.job /\ c.todo = v.todo
      /\ c.next = v.next
  BY <1>1, <1>2 DEF VM, x
<1>4. Open(c) = {}
  BY <1>2, <1>3 DEF Open
<1>5. Cardinality(Open(c)) = 0
  BY <1>4, FS_EmptySet
<1>6. SelectOK(c)
  BY <1>1, <1>2, <1>3, <1>5 DEF SelectOK
<1> QED BY <1>3, <1>6, SelectSettled

(* The iterator takes an error, or a response. *)
LEMMA PopErrorSettled ==
  ASSUME NEW v, Settled(v), Unlisted(v, v.run), InSelect(v),
         v.sel.errors > 0
  PROVE  /\ Settled(PopError(v))
         /\ \A u : Unlisted(v, u) => Unlisted(PopError(v), u)
         /\ PopError(v).sel # None
<1> DEFINE c == PopError(v)
           x == [v.sel EXCEPT !.errors = @ - 1, !.at = "body"]
<1>1. v \in VM /\ SelectOK(v)
  BY DEF Settled
<1>2. /\ v.sel # None /\ v.sel.owner = v.run /\ v.waiting[Select] = None
  BY OwnerAwake
<1>3. v.sel \in Selection
  BY <1>1, <1>2, VMFields
<1>4. v.sel.errors - 1 \in Nat
  BY <1>3, SelectionFields
<1>5. /\ x \in Selection
      /\ x.sessions = v.sel.sessions /\ x.resp = v.sel.resp
      /\ x.request = v.sel.request /\ x.timer = v.sel.timer
      /\ x.owner = v.sel.owner /\ x.at = "body"
  BY <1>3, <1>4 DEF Selection
<1>6. c = [v EXCEPT !.sel = x]
  BY <1>1, <1>3 DEF PopError, VM, Selection
<1> HIDE DEF x
<1>7. /\ c \in VM /\ c.sel = x
      /\ c.lookup = v.lookup /\ c.wakeups = v.wakeups
      /\ c.waiting = v.waiting /\ c.job = v.job /\ c.todo = v.todo
      /\ c.next = v.next
  BY <1>1, <1>5, <1>6 DEF VM
<1> HIDE DEF c
<1>8. Open(c) = Open(v) /\ x # None
  BY <1>5, <1>7, SelectionFields DEF Open
<1>9. SelectOK(c)
  BY <1>1, <1>2, <1>5, <1>7, <1>8 DEF SelectOK
<1> QED BY <1>7, <1>8, <1>9, SelectSettled DEF c

LEMMA PopResponseSettled ==
  ASSUME NEW v, Settled(v), Unlisted(v, v.run), InSelect(v),
         NEW k \in v.sel.resp
  PROVE  /\ Settled(PopResponse(v, k))
         /\ \A u : Unlisted(v, u) => Unlisted(PopResponse(v, k), u)
         /\ PopResponse(v, k).sel # None
<1> DEFINE c == PopResponse(v, k)
           x == [v.sel EXCEPT !.request = @ - 1, !.resp = @ \ {k},
                              !.sessions = @ \ {k}, !.at = "body"]
<1>1. v \in VM /\ SelectOK(v)
  BY DEF Settled
<1>2. /\ v.sel # None /\ v.sel.owner = v.run /\ v.waiting[Select] = None
  BY OwnerAwake
<1>3. v.sel \in Selection
  BY <1>1, <1>2, VMFields
<1>4. /\ k \in Open(v) /\ v.lookup[k] # Select /\ k \in Sessions
      /\ v.sel.request = Cardinality(Open(v))
  BY <1>1, <1>2, <1>3, SelectionFields DEF SelectOK, Open
<1>5. /\ Cardinality(Open(v) \ {k}) = v.sel.request - 1
      /\ v.sel.request - 1 \in Nat
  <2>1. IsFiniteSet(Open(v))
    BY <1>3, OpenFinite
  <2>2. IsFiniteSet(Open(v) \ {k})
    BY <2>1, FS_RemoveElement
  <2>3. Cardinality(Open(v) \ {k}) = Cardinality(Open(v)) - 1
    BY <1>4, <2>1, FS_RemoveElement
  <2> QED BY <1>4, <2>2, <2>3, FS_CardinalityType
<1>6. /\ x \in Selection
      /\ x.sessions = v.sel.sessions \ {k} /\ x.resp = v.sel.resp \ {k}
      /\ x.request = v.sel.request - 1 /\ x.timer = v.sel.timer
      /\ x.owner = v.sel.owner /\ x.at = "body"
  BY <1>3, <1>5 DEF Selection
<1>7. c = [v EXCEPT !.sel = x]
  BY <1>1, <1>3 DEF PopResponse, VM, Selection
<1> HIDE DEF x
<1>8. /\ c \in VM /\ c.sel = x
      /\ c.lookup = v.lookup /\ c.wakeups = v.wakeups
      /\ c.waiting = v.waiting /\ c.job = v.job /\ c.todo = v.todo
      /\ c.next = v.next
  BY <1>1, <1>6, <1>7 DEF VM
<1> HIDE DEF c
<1>9. Open(c) = Open(v) \ {k}
  BY <1>4, <1>6, <1>8 DEF Open
<1>10. SelectOK(c) /\ x # None
  BY <1>1, <1>2, <1>5, <1>6, <1>8, <1>9, SelectionFields DEF SelectOK
<1> QED BY <1>8, <1>10, SelectSettled DEF c

(* An answer is taken: its session leads nowhere any more. *)
Cleared(u, k) == [u EXCEPT !.lookup[k] = None]

LEMMA ClearedSettled ==
  ASSUME NEW u, Settled(u), NEW k \in 0..MaxSession,
         NEW v, v = Cleared(u, k)
  PROVE  /\ v \in VM /\ v.lookup = [u.lookup EXCEPT ![k] = None]
         /\ v.wakeups = u.wakeups /\ v.waiting = u.waiting /\ v.job = u.job
         /\ v.todo = u.todo /\ v.next = u.next /\ v.sel = u.sel
         /\ v.run = u.run /\ v.post = u.post /\ v.from = u.from
         /\ v.session = u.session /\ v.state = u.state /\ v.quit = u.quit
         /\ Tables(v) /\ Rested(v) /\ JobOK(v)
         /\ \A t \in Thread : Unlisted(u, t) => Unlisted(v, t)
<1>1. u \in VM /\ Tables(u) /\ Rested(u) /\ JobOK(u) /\ SelectOK(u)
  BY DEF Settled
<1>2. u.lookup \in [0..MaxSession -> Sleepers] /\ u.wakeups \in Seq(Thread)
  BY <1>1, VMFields
<1>3. /\ v \in VM /\ v.lookup = [u.lookup EXCEPT ![k] = None]
      /\ v.wakeups = u.wakeups /\ v.waiting = u.waiting /\ v.job = u.job
      /\ v.todo = u.todo /\ v.next = u.next /\ v.sel = u.sel
      /\ v.run = u.run /\ v.post = u.post /\ v.from = u.from
      /\ v.session = u.session /\ v.state = u.state /\ v.quit = u.quit
  BY <1>1, <1>2 DEF VM, Sleepers, Cleared
<1>4. None \notin Thread /\ Select # None
  BY NilAssumption
<1>5. \A j \in 0..MaxSession : v.lookup[j] = IF j = k THEN None ELSE u.lookup[j]
  BY <1>2, <1>3
<1>6. \A t \in Thread : Unlisted(u, t) => Unlisted(v, t)
  BY <1>3, <1>4, <1>5 DEF Unlisted
<1>7. Tables(v)
  <2>1. \A i \in DOMAIN u.wakeups : u.wakeups[i] \in Thread
    BY <1>2
  <2>2. \A i, j \in 0..MaxSession :
          v.lookup[j] \in Thread /\ v.lookup[j] = v.lookup[i] => j = i
    BY <1>1, <1>4, <1>5 DEF Tables
  <2>3. \A j \in 0..MaxSession, i \in DOMAIN u.wakeups :
          v.lookup[j] # u.wakeups[i]
    BY <1>1, <1>4, <1>5, <2>1 DEF Tables
  <2>4. \A j \in 0..MaxSession, x \in Keys :
          v.lookup[j] \in Thread => v.lookup[j] # u.waiting[x]
    BY <1>1, <1>4, <1>5 DEF Tables
  <2> QED BY <1>1, <1>3, <2>2, <2>3, <2>4 DEF Tables
<1>8. Rested(v) /\ JobOK(v)
  BY <1>1, <1>3, <1>6 DEF Rested, JobOK
<1> QED BY <1>3, <1>6, <1>7, <1>8

LEMMA ClearedGood ==
  ASSUME NEW u, Settled(u), NEW k \in 0..MaxSession
  PROVE  /\ Cleared(u, k).run = u.run /\ Cleared(u, k).post = u.post
         /\ u.lookup[k] \in Thread =>
              Unlisted(Cleared(u, k), u.lookup[k])
              /\ Cleared(u, k).job[u.lookup[k]] # "free"
         /\ u.lookup[k] # Select => SelectOK(Cleared(u, k))
<1> DEFINE v == Cleared(u, k)
<1>1. u \in VM /\ Tables(u) /\ Rested(u) /\ SelectOK(u)
  BY DEF Settled
<1>2. u.lookup \in [0..MaxSession -> Sleepers]
  BY <1>1, VMFields
<1>3. /\ v.lookup = [u.lookup EXCEPT ![k] = None]
      /\ v.wakeups = u.wakeups /\ v.waiting = u.waiting /\ v.job = u.job
      /\ v.next = u.next /\ v.sel = u.sel
      /\ v.run = u.run /\ v.post = u.post
  BY <1>1 DEF VM, Cleared
<1> HIDE DEF v
<1>4. None \notin Thread /\ Select # None
  BY NilAssumption
<1>5. \A j \in 0..MaxSession : v.lookup[j] = IF j = k THEN None ELSE u.lookup[j]
  BY <1>2, <1>3
<1>6. u.lookup[k] \in Thread =>
        Unlisted(v, u.lookup[k]) /\ v.job[u.lookup[k]] # "free"
  <2> HAVE u.lookup[k] \in Thread
  <2>1. v.job[u.lookup[k]] # "free"
    BY <1>1, <1>3 DEF Rested, Unlisted
  <2>2. Unlisted(v, u.lookup[k])
    BY <1>1, <1>3, <1>4, <1>5 DEF Unlisted, Tables
  <2> QED BY <2>1, <2>2
<1>7. u.lookup[k] # Select => SelectOK(v)
  <2> HAVE u.lookup[k] # Select
  <2>1. \A j \in 0..MaxSession : v.lookup[j] = Select <=> u.lookup[j] = Select
    BY <1>4, <1>5
  <2>2. u.sel # None => u.sel.sessions \subseteq 0..MaxSession
    BY <1>1, VMFields, SelectionFields, SessionAssumption DEF Sessions
  <2>3. u.sel # None => Open(v) = Open(u)
    BY <1>3, <2>1, <2>2 DEF Open
  <2>4. u.sel # None => \A j \in u.sel.resp : v.lookup[j] # Select
    BY <1>1, <2>1, <2>2 DEF SelectOK
  <2> QED BY <1>1, <1>3, <2>1, <2>3, <2>4 DEF SelectOK
<1> QED BY <1>3, <1>6, <1>7 DEF v

(* request_thread: the message is one the select asked for. *)
LEMMA SelectedSettled ==
  ASSUME NEW u, Settled(u), NEW m, m.session \in Sessions,
         u.lookup[m.session] = Select,
         m.session \in u.sel.sessions \cup {u.sel.timer},
         NEW v, v = Cleared(u, m.session)
  PROVE  /\ Settled(Selected(v, m))
         /\ \A t \in Thread : Unlisted(u, t) => Unlisted(Selected(v, m), t)
<1> DEFINE k == m.session
           y == u.sel
           x == IF k = y.timer THEN [y EXCEPT !.timeout = TRUE, !.timer = None]
                ELSE IF m.type = "response" THEN [y EXCEPT !.resp = @ \cup {k}]
                ELSE [y EXCEPT !.errors = @ + 1, !.request = @ - 1]
           c == [v EXCEPT !.sel = x]
<1>1. u \in VM /\ SelectOK(u)
  BY DEF Settled
<1>2. k \in 0..MaxSession
  BY SessionAssumption DEF Sessions
<1>3. /\ y # None /\ y \in Selection
  BY <1>1, <1>2, VMFields DEF SelectOK
<1>4. /\ v \in VM /\ v.lookup = [u.lookup EXCEPT ![k] = None]
      /\ v.wakeups = u.wakeups /\ v.waiting = u.waiting /\ v.job = u.job
      /\ v.todo = u.todo /\ v.next = u.next /\ v.sel = y
      /\ Tables(v) /\ Rested(v) /\ JobOK(v)
      /\ \A t \in Thread : Unlisted(u, t) => Unlisted(v, t)
  BY <1>2, ClearedSettled
<1>5. Select # None
  BY NilAssumption
<1>6. \A j \in Sessions : v.lookup[j] = Select <=> j # k /\ u.lookup[j] = Select
  <2>1. u.lookup \in [0..MaxSession -> Sleepers] /\ Sessions \subseteq 0..MaxSession
    BY <1>1, VMFields, SessionAssumption DEF Sessions
  <2> QED BY <1>2, <1>4, <1>5, <2>1
<1>7. /\ x \in Selection /\ x.owner = y.owner /\ x.at = y.at
      /\ x.sessions = y.sessions /\ x.resp \subseteq x.sessions
      /\ \A j \in x.resp : v.lookup[j] # Select
      /\ x.timer \notin x.sessions
      /\ x.timer # None => x.timer < v.next
      /\ x.timer \in {y.timer, None}
      /\ x.request = Cardinality({j \in x.sessions :
                                    v.lookup[j] = Select \/ j \in x.resp})
      /\ x.timeout \/ x.resp # {} \/ x.errors > 0
  <2> DEFINE open == {j \in x.sessions : v.lookup[j] = Select \/ j \in x.resp}
  <2>1. /\ y.sessions \subseteq Sessions /\ y.resp \subseteq y.sessions
        /\ y.timer \notin y.sessions /\ y.errors \in Nat
        /\ y.request \in Nat
        /\ y.timer # None => y.timer < v.next
        /\ \A j \in y.resp : u.lookup[j] # Select
        /\ y.request = Cardinality(Open(u))
    BY <1>1, <1>3, <1>4, SelectionFields DEF SelectOK
  <2>2. k # None
    BY NilAssumption
  <2>3. CASE k = y.timer
    <3>1. x = [y EXCEPT !.timeout = TRUE, !.timer = None]
      BY <2>3
    <3>2. /\ x \in Selection /\ x.owner = y.owner /\ x.at = y.at
          /\ x.sessions = y.sessions /\ x.resp = y.resp /\ x.timeout = TRUE
          /\ x.timer = None /\ x.request = y.request
      BY <1>3, <3>1 DEF Selection
    <3> HIDE DEF x
    <3>3. None \notin x.sessions
      BY <2>1, <3>2, NilAssumption
    <3>4. open = Open(u)
      BY <1>6, <2>1, <2>3, <3>2 DEF Open
    <3> QED BY <1>6, <2>1, <3>2, <3>3, <3>4
  <2>4. CASE k # y.timer /\ m.type = "response"
    <3>1. x = [y EXCEPT !.resp = @ \cup {k}]
      BY <2>4
    <3>2. /\ x \in Selection /\ x.owner = y.owner /\ x.at = y.at
          /\ x.sessions = y.sessions /\ x.resp = y.resp \cup {k}
          /\ x.timer = y.timer /\ x.request = y.request
      BY <1>3, <3>1 DEF Selection
    <3> HIDE DEF x
    <3>3. open = Open(u)
      BY <1>6, <2>1, <2>4, <3>2 DEF Open
    <3> QED BY <1>6, <2>1, <2>4, <3>2, <3>3
  <2>5. CASE k # y.timer /\ m.type # "response"
    <3>1. x = [y EXCEPT !.errors = @ + 1, !.request = @ - 1]
      BY <2>5
    <3>2. k \in Open(u) /\ k \notin y.resp
      BY <2>1, <2>5 DEF Open
    <3>3. /\ Cardinality(Open(u) \ {k}) = y.request - 1
          /\ y.request - 1 \in Nat /\ y.errors + 1 \in Nat
      <4>1. IsFiniteSet(Open(u))
        BY <1>3, OpenFinite
      <4>2. IsFiniteSet(Open(u) \ {k})
        BY <4>1, FS_RemoveElement
      <4>3. Cardinality(Open(u) \ {k}) = Cardinality(Open(u)) - 1
        BY <3>2, <4>1, FS_RemoveElement
      <4> QED BY <2>1, <4>2, <4>3, FS_CardinalityType
    <3>4. /\ x \in Selection /\ x.owner = y.owner /\ x.at = y.at
          /\ x.sessions = y.sessions /\ x.resp = y.resp
          /\ x.timer = y.timer /\ x.request = y.request - 1
          /\ x.errors = y.errors + 1
      BY <1>3, <3>1, <3>3 DEF Selection
    <3> HIDE DEF x
    <3>5. open = Open(u) \ {k}
      BY <1>6, <2>1, <3>2, <3>4 DEF Open
    <3>6. x.errors > 0
      BY <2>1, <3>4
    <3> QED BY <1>6, <2>1, <3>3, <3>4, <3>5, <3>6
  <2> QED BY <2>3, <2>4, <2>5
<1>8. Selected(v, m) = Woken(c, Select)
  BY <1>4 DEF Selected
<1> HIDE DEF x
<1>9. /\ c \in VM /\ c.sel = x
      /\ c.lookup = v.lookup /\ c.wakeups = v.wakeups
      /\ c.waiting = v.waiting /\ c.job = v.job /\ c.todo = v.todo
      /\ c.next = v.next
  BY <1>4, <1>7 DEF VM
<1> HIDE DEF c
<1>10. SelectOK(c)
  <2>1. \A j \in 0..MaxSession :
          c.lookup[j] = Select => c.sel # None /\ j \in 1..(c.next - 1)
    <3>1. x # None
      BY <1>7, SelectionFields
    <3>2. \A j \in 0..MaxSession : v.lookup[j] = Select => u.lookup[j] = Select
      BY <1>1, <1>4, <1>5, VMFields
    <3> QED BY <1>1, <1>4, <1>9, <3>1, <3>2 DEF SelectOK
  <2>2. Open(c) = {j \in x.sessions : v.lookup[j] = Select \/ j \in x.resp}
    BY <1>9 DEF Open
  <2>3. x # None
    BY <1>7, SelectionFields
  <2>4. /\ \A j \in x.sessions : j < c.next
        /\ c.waiting[Select] \in {None, x.owner}
        /\ x.at # "woken" => c.waiting[Select] = None
        /\ x.at = "sending" => x.timer = None
    BY <1>1, <1>3, <1>4, <1>7, <1>9 DEF SelectOK
  <2>5. /\ \A j \in x.resp : c.lookup[j] # Select
        /\ x.timer # None => x.timer < c.next
        /\ x.request = Cardinality(Open(c))
    BY <1>7, <1>9, <2>2
  <2> QED BY <1>7, <1>9, <2>1, <2>3, <2>4, <2>5 DEF SelectOK
<1>11. Settled(c) /\ \A t \in Thread : Unlisted(u, t) => Unlisted(c, t)
  BY <1>4, <1>9, <1>10 DEF Settled, Tables, Rested, JobOK, Unlisted
<1>12. c.sel # None /\ (c.sel.timeout \/ c.sel.resp # {} \/ c.sel.errors > 0)
  BY <1>7, <1>9, SelectionFields
<1>13. Select \in Keys
  BY DEF Keys
<1>14. /\ Settled(Woken(c, Select))
       /\ \A t \in Thread : Unlisted(c, t) => Unlisted(Woken(c, Select), t)
  BY <1>11, <1>12, <1>13, WokenSettled
<1> QED BY <1>8, <1>11, <1>14

(* send_requests: the session is registered, then the message is posted. *)
LEMMA SelectSendGood ==
  ASSUME NEW s, NEW v, Settled(v), Runs(v), v.run \in Thread, InSelect(v),
         v.sel.left # <<>>, v.next <= MaxSession
  PROVE  Good(s, [Suspend(v, Select) EXCEPT
           !.sel.left = Tail(@),
           !.post = Mail(Head(v.sel.left), "request", v.next, None, "select")])
<1> DEFINE w == Suspend(v, Select)
           c == [w EXCEPT
             !.sel.left = Tail(@),
             !.post = Mail(Head(v.sel.left), "request", v.next, None, "select")]
           m == Mail(Head(v.sel.left), "request", v.next, None, "select")
           x == [v.sel EXCEPT !.left = Tail(@)]
<1>1. v \in VM /\ SelectOK(v) /\ Unlisted(v, v.run) /\ v.job[v.run] # "free"
  BY NilAssumption DEF Settled, Runs
<1>2. Select \in Sleepers /\ Select \notin Thread /\ v.run # Select
  BY NilAssumption DEF Sleepers
<1>3. v.sel # None /\ v.sel.owner = v.run /\ v.sel \in Selection
  BY <1>1, VMFields, OwnerAwake
<1>4. Settled(w) /\ Unlisted(w, v.run)
  BY <1>1, <1>2, <1>3, SuspendSettled
<1>5. /\ w \in VM /\ w.lookup = [v.lookup EXCEPT ![v.next] = Select]
      /\ w.next = v.next + 1 /\ w.job = v.job /\ w.todo = v.todo
      /\ w.wakeups = v.wakeups /\ w.waiting = v.waiting /\ w.run = v.run
      /\ w.sel = v.sel
  BY <1>1, <1>2, SuspendFields
<1>6. /\ v.next \in Sessions /\ v.lookup \in [0..MaxSession -> Sleepers]
      /\ v.next \in 0..MaxSession /\ v.next \in Nat
  BY <1>1, VMFields, SessionAssumption DEF Sessions
<1>7. /\ x \in Selection /\ x # None
      /\ x.owner = v.sel.owner /\ x.sessions = v.sel.sessions
      /\ x.resp = v.sel.resp /\ x.errors = v.sel.errors
      /\ x.request = v.sel.request /\ x.timer = v.sel.timer
      /\ x.timeout = v.sel.timeout /\ x.at = v.sel.at
  <2>1. v.sel.left \in Seq(Users) /\ Tail(v.sel.left) \in Seq(Users)
    BY <1>3, SelectionFields
  <2>2. x \in Selection
    BY <1>3, <2>1 DEF Selection
  <2> QED BY <1>3, <2>2, SelectionFields DEF Selection
<1>8. /\ m \in Post /\ m.then = "select" /\ m.type = "request"
      /\ m.report = None /\ m.to \in Users /\ m.session = v.next
  <2>1. Head(v.sel.left) \in Users
    BY <1>3, SelectionFields
  <2> QED BY <1>6, <2>1 DEF Mail, Post, Services, Sessions
<1>9. c = [w EXCEPT !.sel = x, !.post = m]
  BY <1>3, <1>5 DEF VM, Selection
<1> HIDE DEF w, m, x, c
<1>10. /\ c \in VM /\ c.sel = x /\ c.post = m
       /\ c.lookup = w.lookup /\ c.wakeups = w.wakeups
       /\ c.waiting = w.waiting /\ c.job = w.job /\ c.todo = w.todo
       /\ c.next = w.next /\ c.run = w.run
  BY <1>5, <1>7, <1>8, <1>9 DEF VM
<1>11. SelectOK(c)
  <2>1. SelectOK(w) /\ Open(c) = Open(w)
    BY <1>4, <1>5, <1>7, <1>10 DEF Settled, Open
  <2> QED BY <1>3, <1>5, <1>7, <1>10, <2>1 DEF SelectOK
<1>12. Settled(c) /\ Unlisted(c, c.run)
  BY <1>4, <1>5, <1>10, <1>11, SelectSettled
<1>13. PostOK(s, c)
  <2>1. c.lookup[m.session] = Select /\ m.session = c.next - 1
    <3>1. m.session = v.next /\ c.next = v.next + 1
      BY <1>5, <1>8, <1>10
    <3>2. c.lookup = [v.lookup EXCEPT ![v.next] = Select]
      BY <1>5, <1>10
    <3>3. c.lookup[v.next] = Select
      BY <1>6, <3>2
    <3> QED BY <1>6, <3>1, <3>3
  <2>2. m.session \notin c.sel.sessions /\ m.session # c.sel.timer
    <3>1. /\ v.sel.sessions \subseteq Sessions
          /\ v.sel.timer \in Sessions \cup {None} /\ None \notin Sessions
      BY <1>3, SelectionFields, NilAssumption
    <3>2. \A k \in v.sel.sessions : k \in Nat /\ k < v.next
      BY <1>1, <1>3, <3>1 DEF SelectOK, Sessions
    <3>3. v.sel.timer # None => v.sel.timer < v.next /\ v.sel.timer \in Nat
      BY <1>1, <1>3, <3>1 DEF SelectOK, Sessions
    <3>4. v.next \notin v.sel.sessions
      BY <1>6, <3>2
    <3>5. v.next # v.sel.timer
      BY <1>6, <3>1, <3>3
    <3> QED BY <1>7, <1>8, <1>10, <3>4, <3>5
  <2> QED BY <1>3, <1>5, <1>6, <1>7, <1>8, <1>10, <2>1, <2>2 DEF PostOK
<1> QED BY <1>1, <1>5, <1>10, <1>12, <1>13 DEF Good, Runs, c, w

(* The receipt of a request of a select. *)
LEMMA SelectTakenSettled ==
  ASSUME NEW v, Settled(v), v.sel # None, NEW k \in Sessions,
         v.lookup[k] = Select, k \notin v.sel.sessions, k # v.sel.timer
  PROVE  LET c == [v EXCEPT !.sel.sessions = @ \cup {k}, !.sel.request = @ + 1]
         IN  /\ Settled(c) /\ c.next = v.next /\ c.lookup = v.lookup
             /\ c.sel.sessions = v.sel.sessions \cup {k} /\ c.sel.timer = v.sel.timer
             /\ c.sel # None
             /\ \A u : Unlisted(v, u) => Unlisted(c, u)
<1> DEFINE c == [v EXCEPT !.sel.sessions = @ \cup {k}, !.sel.request = @ + 1]
           x == [v.sel EXCEPT !.sessions = @ \cup {k}, !.request = @ + 1]
<1>1. v \in VM /\ SelectOK(v) /\ v.sel \in Selection
  BY VMFields DEF Settled
<1>2. /\ IsFiniteSet(Open(v)) /\ v.sel.request = Cardinality(Open(v))
      /\ v.sel.request \in Nat /\ v.sel.resp \subseteq v.sel.sessions
  BY <1>1, OpenFinite, SelectionFields DEF SelectOK
<1>3. k \notin Open(v) /\ k \in 0..MaxSession /\ k \in 1..(v.next - 1)
  BY <1>1, SessionAssumption DEF Open, Sessions, SelectOK
<1>4. Cardinality(Open(v) \cup {k}) = v.sel.request + 1
  BY <1>2, <1>3, FS_AddElement
<1>5. /\ x \in Selection /\ x # None
      /\ x.owner = v.sel.owner /\ x.sessions = v.sel.sessions \cup {k}
      /\ x.resp = v.sel.resp /\ x.errors = v.sel.errors
      /\ x.request = v.sel.request + 1 /\ x.timer = v.sel.timer
      /\ x.timeout = v.sel.timeout /\ x.at = v.sel.at
  <2>1. v.sel.request + 1 \in Nat /\ v.sel.sessions \cup {k} \in SUBSET Sessions
    BY <1>1, <1>2, SelectionFields
  <2>2. x \in Selection
    BY <1>1, <2>1 DEF Selection
  <2> QED BY <1>1, <2>2, SelectionFields DEF Selection
<1>6. c = [v EXCEPT !.sel = x]
  BY <1>1 DEF VM, Selection
<1> HIDE DEF x, c
<1>7. /\ c \in VM /\ c.sel = x
      /\ c.lookup = v.lookup /\ c.wakeups = v.wakeups
      /\ c.waiting = v.waiting /\ c.job = v.job /\ c.todo = v.todo
      /\ c.next = v.next
  BY <1>1, <1>5, <1>6 DEF VM
<1>8. Open(c) = Open(v) \cup {k}
  BY <1>5, <1>7 DEF Open
<1>9. SelectOK(c)
  <2>1. /\ x.resp \subseteq x.sessions
        /\ \A j \in x.resp : c.lookup[j] # Select
        /\ x.timer \notin x.sessions
    BY <1>1, <1>5, <1>7 DEF SelectOK
  <2>2. \A j \in x.sessions : j < c.next
    <3>1. v.next \in Nat /\ k < v.next
      BY <1>1, <1>3, VMFields, SessionAssumption
    <3> QED BY <1>1, <1>5, <1>7, <3>1 DEF SelectOK
  <2>3. x.request = Cardinality(Open(c))
    BY <1>4, <1>5, <1>8
  <2> QED BY <1>1, <1>5, <1>7, <2>1, <2>2, <2>3 DEF SelectOK
<1> QED BY <1>5, <1>7, <1>9, SelectSettled DEF c

LEMMA SelectRefusedSettled ==
  ASSUME NEW v, Settled(v), v.sel # None
  PROVE  LET c == [v EXCEPT !.sel.errors = @ + 1]
         IN  /\ Settled(c) /\ c.next = v.next /\ c.lookup = v.lookup
             /\ c.sel.sessions = v.sel.sessions /\ c.sel.timer = v.sel.timer
             /\ c.sel # None
             /\ \A u : Unlisted(v, u) => Unlisted(c, u)
<1> DEFINE c == [v EXCEPT !.sel.errors = @ + 1]
           x == [v.sel EXCEPT !.errors = @ + 1]
<1>1. v \in VM /\ SelectOK(v) /\ v.sel \in Selection
  BY VMFields DEF Settled
<1>2. /\ x \in Selection /\ x # None
      /\ x.owner = v.sel.owner /\ x.sessions = v.sel.sessions
      /\ x.resp = v.sel.resp /\ x.errors = v.sel.errors + 1
      /\ x.request = v.sel.request /\ x.timer = v.sel.timer
      /\ x.timeout = v.sel.timeout /\ x.at = v.sel.at
      /\ v.sel.errors \in Nat
  <2>1. v.sel.errors + 1 \in Nat /\ v.sel.errors \in Nat
    BY <1>1, SelectionFields
  <2>2. x \in Selection
    BY <1>1, <2>1 DEF Selection
  <2> QED BY <1>1, <2>1, <2>2, SelectionFields DEF Selection
<1>3. c = [v EXCEPT !.sel = x]
  BY <1>1 DEF VM, Selection
<1> HIDE DEF x, c
<1>4. /\ c \in VM /\ c.sel = x
      /\ c.lookup = v.lookup /\ c.wakeups = v.wakeups
      /\ c.waiting = v.waiting /\ c.job = v.job /\ c.todo = v.todo
      /\ c.next = v.next
  BY <1>1, <1>2, <1>3 DEF VM
<1>5. Open(c) = Open(v)
  BY <1>2, <1>4 DEF Open
<1>6. SelectOK(c)
  BY <1>1, <1>2, <1>4, <1>5 DEF SelectOK
<1> QED BY <1>2, <1>4, <1>6, SelectSettled DEF c

(* select(timeout): the timer is asked for. *)
LEMMA SelectTimerSettled ==
  ASSUME NEW v, Settled(v), v.sel # None, v.next <= MaxSession,
         v.sel.at = "sending"
  PROVE  LET c == [Suspend(v, Select) EXCEPT !.sel.timer = v.next,
                                             !.sel.at = "body"]
         IN  /\ Settled(c)
             /\ c.sel # None /\ c.sel.timer = v.next
             /\ c.sel.sessions = v.sel.sessions
             /\ c.next = v.next + 1
             /\ c.lookup = [v.lookup EXCEPT ![v.next] = Select]
             /\ \A u \in Thread : Unlisted(v, u) => Unlisted(c, u)
<1> DEFINE w == Suspend(v, Select)
           x == [v.sel EXCEPT !.timer = v.next, !.at = "body"]
           c == [w EXCEPT !.sel.timer = v.next, !.sel.at = "body"]
<1>1. v \in VM /\ SelectOK(v) /\ v.sel \in Selection
  BY VMFields DEF Settled
<1>2. Select \in Sleepers /\ Select \notin Thread
  BY NilAssumption DEF Sleepers
<1>3. /\ Settled(w)
      /\ \A u \in Thread : Unlisted(v, u) => Unlisted(w, u)
  BY <1>2, SuspendSettled
<1>4. /\ w \in VM /\ w.lookup = [v.lookup EXCEPT ![v.next] = Select]
      /\ w.next = v.next + 1 /\ w.waiting = v.waiting /\ w.sel = v.sel
  BY <1>1, <1>2, SuspendFields
<1>5. v.next \in Sessions /\ v.next \in Nat /\ v.next # None
  BY <1>1, VMFields, SessionAssumption, NilAssumption DEF Sessions
<1>6. /\ x \in Selection /\ x # None
      /\ x.owner = v.sel.owner /\ x.sessions = v.sel.sessions
      /\ x.resp = v.sel.resp /\ x.errors = v.sel.errors
      /\ x.request = v.sel.request /\ x.timer = v.next /\ x.at = "body"
  <2>1. x \in Selection
    BY <1>1, <1>5 DEF Selection
  <2> QED BY <1>1, <2>1, SelectionFields DEF Selection
<1>7. c = [w EXCEPT !.sel = x]
  BY <1>1, <1>4 DEF VM, Selection
<1> HIDE DEF w, x, c
<1>8. /\ c \in VM /\ c.sel = x
      /\ c.lookup = w.lookup /\ c.wakeups = w.wakeups
      /\ c.waiting = w.waiting /\ c.job = w.job /\ c.todo = w.todo
      /\ c.next = w.next
  BY <1>4, <1>6, <1>7 DEF VM
<1>9. SelectOK(c)
  <2>1. SelectOK(w) /\ Open(c) = Open(w)
    BY <1>3, <1>4, <1>6, <1>8 DEF Settled, Open
  <2>2. x.timer \notin x.sessions
    <3>1. \A k \in v.sel.sessions : k < v.next
      BY <1>1, SelectionFields DEF SelectOK
    <3> QED BY <1>5, <1>6, <3>1
  <2>3. x.timer < c.next /\ c.waiting[Select] = None
    BY <1>1, <1>4, <1>5, <1>6, <1>8, SelectionFields DEF SelectOK
  <2> QED BY <1>1, <1>4, <1>6, <1>8, <2>1, <2>2, <2>3, SelectionFields DEF SelectOK
<1>10. Settled(c) /\ \A u : Unlisted(w, u) => Unlisted(c, u)
  BY <1>3, <1>8, <1>9, SelectSettled
<1> QED BY <1>3, <1>4, <1>6, <1>8, <1>10 DEF c, w

(* All is sent, and no timeout is asked for. *)
LEMMA SelectBodySettled ==
  ASSUME NEW v, Settled(v), v.sel # None, v.sel.at = "sending"
  PROVE  LET c == [v EXCEPT !.sel.at = "body"]
         IN  /\ Settled(c)
             /\ c.sel # None /\ c.sel.timer = v.sel.timer
             /\ c.sel.sessions = v.sel.sessions
             /\ \A u : Unlisted(v, u) => Unlisted(c, u)
<1> DEFINE x == [v.sel EXCEPT !.at = "body"]
           c == [v EXCEPT !.sel.at = "body"]
<1>1. v \in VM /\ SelectOK(v) /\ v.sel \in Selection
  BY VMFields DEF Settled
<1>2. /\ x \in Selection /\ x # None
      /\ x.owner = v.sel.owner /\ x.sessions = v.sel.sessions
      /\ x.resp = v.sel.resp /\ x.errors = v.sel.errors
      /\ x.request = v.sel.request /\ x.timer = v.sel.timer /\ x.at = "body"
  <2>1. x \in Selection
    BY <1>1 DEF Selection
  <2> QED BY <1>1, <2>1, SelectionFields DEF Selection
<1>3. c = [v EXCEPT !.sel = x]
  BY <1>1 DEF VM, Selection
<1> HIDE DEF x, c
<1>4. /\ c \in VM /\ c.sel = x
      /\ c.lookup = v.lookup /\ c.wakeups = v.wakeups
      /\ c.waiting = v.waiting /\ c.job = v.job /\ c.todo = v.todo
      /\ c.next = v.next
  BY <1>1, <1>2, <1>3 DEF VM
<1>5. Open(c) = Open(v)
  BY <1>2, <1>4 DEF Open
<1>6. SelectOK(c)
  BY <1>1, <1>2, <1>4, <1>5 DEF SelectOK
<1> QED BY <1>2, <1>4, <1>6, SelectSettled DEF c

(* ltask.wait: session_waiting leads to a coroutine no table leads to. *)
LEMMA ListenTables ==
  ASSUME NEW v, Settled(v), NEW t \in Thread, Unlisted(v, t),
         v.job[t] # "free", NEW x \in Keys,
         NEW c \in VM, c.waiting = [v.waiting EXCEPT ![x] = t],
         c.lookup = v.lookup, c.wakeups = v.wakeups,
         c.job = v.job, c.todo = v.todo
  PROVE  Tables(c) /\ Rested(c) /\ JobOK(c)
<1>1. v \in VM /\ Tables(v) /\ Rested(v) /\ JobOK(v)
  BY DEF Settled
<1>2. v.waiting \in [Keys -> Thread \cup {None}]
  BY <1>1, VMFields
<1>3. \A y \in Keys : c.waiting[y] = IF y = x THEN t ELSE v.waiting[y]
  BY <1>2
<1>4. \A u : Unlisted(v, u) /\ u # t => Unlisted(c, u)
  BY <1>3 DEF Unlisted
<1>5. Tables(c)
  <2>1. \A y, z \in Keys :
          c.waiting[y] \in Thread /\ c.waiting[y] = c.waiting[z] => y = z
    BY <1>1, <1>3 DEF Tables, Unlisted
  <2>2. \A k \in 0..MaxSession, y \in Keys :
          c.lookup[k] \in Thread => c.lookup[k] # c.waiting[y]
    BY <1>1, <1>3 DEF Tables, Unlisted
  <2>3. \A i \in DOMAIN c.wakeups, y \in Keys : c.wakeups[i] # c.waiting[y]
    BY <1>1, <1>3 DEF Tables, Unlisted
  <2> QED BY <1>1, <2>1, <2>2, <2>3 DEF Tables
<1>6. Rested(c) /\ JobOK(c)
  BY <1>1, <1>4 DEF Rested, JobOK
<1> QED BY <1>5, <1>6

LEMMA WaitSettled ==
  ASSUME NEW v, Settled(v), v.run \in Thread, Runs(v),
         NEW token \in Tokens, v.next <= MaxSession
  PROVE  LET c == [v EXCEPT !.waiting[token] = v.run, !.next = @ + 1]
         IN Settled(c) /\ c.post = v.post
<1> DEFINE c == [v EXCEPT !.waiting[token] = v.run, !.next = @ + 1]
<1>1. v \in VM /\ SelectOK(v) /\ Unlisted(v, v.run) /\ v.job[v.run] # "free"
  BY NilAssumption DEF Settled, Runs
<1>2. /\ v.waiting \in [Keys -> Thread \cup {None}]
      /\ v.next + 1 \in 1..(MaxSession + 1) /\ v.next \in Nat
      /\ v.sel \in Selection \cup {None}
  BY <1>1, VMFields, SessionAssumption
<1>3. token \in Keys /\ token # Select /\ Select \in Keys
  BY NilAssumption DEF Keys
<1>4. [v.waiting EXCEPT ![token] = v.run] \in [Keys -> Thread \cup {None}]
  BY <1>2
<1>5. /\ c \in VM /\ c.waiting = [v.waiting EXCEPT ![token] = v.run]
      /\ c.lookup = v.lookup /\ c.wakeups = v.wakeups /\ c.sel = v.sel
      /\ c.job = v.job /\ c.todo = v.todo /\ c.next = v.next + 1
      /\ c.post = v.post
  BY <1>1, <1>2, <1>4 DEF VM, Keys
<1> HIDE DEF c
<1>6. Tables(c) /\ Rested(c) /\ JobOK(c)
  BY <1>1, <1>3, <1>5, ListenTables
<1>7. SelectOK(c)
  <2>1. c.waiting[Select] = v.waiting[Select]
    BY <1>2, <1>3, <1>5
  <2>2. Open(c) = Open(v)
    BY <1>5 DEF Open
  <2>3. v.sel # None => /\ \A k \in v.sel.sessions : k < c.next
                        /\ v.sel.timer # None => v.sel.timer < c.next
    BY <1>1, <1>2, <1>5, SelectionFields DEF SelectOK, Sessions
  <2>4. \A k \in 0..MaxSession :
          c.lookup[k] = Select => c.sel # None /\ k \in 1..(c.next - 1)
    BY <1>1, <1>2, <1>5 DEF SelectOK
  <2> QED BY <1>1, <1>5, <2>1, <2>2, <2>3, <2>4 DEF SelectOK
<1> QED BY <1>5, <1>6, <1>7 DEF Settled, c

(* The wait in the iterator of a select. *)
LEMMA SelectWaitSettled ==
  ASSUME NEW v, Settled(v), v.run \in Thread, Runs(v), InSelect(v),
         v.next <= MaxSession
  PROVE  LET c == [v EXCEPT !.waiting[Select] = v.run, !.next = @ + 1,
                            !.sel.at = "woken"]
         IN  /\ Settled(c) /\ c.post = v.post
             /\ c.sel # None /\ c.sel.timer = v.sel.timer
             /\ c.sel.sessions = v.sel.sessions
             /\ c.lookup = v.lookup /\ c.next = v.next + 1
<1> DEFINE x == [v.sel EXCEPT !.at = "woken"]
           c == [v EXCEPT !.waiting[Select] = v.run, !.next = @ + 1,
                          !.sel.at = "woken"]
<1>1. v \in VM /\ SelectOK(v) /\ Unlisted(v, v.run) /\ v.job[v.run] # "free"
  BY NilAssumption DEF Settled, Runs
<1>2. v.sel # None /\ v.sel.owner = v.run /\ v.sel \in Selection
  BY <1>1, VMFields, OwnerAwake
<1>3. /\ v.waiting \in [Keys -> Thread \cup {None}]
      /\ v.next + 1 \in 1..(MaxSession + 1) /\ v.next \in Nat
  BY <1>1, VMFields, SessionAssumption
<1>4. Select \in Keys /\ v.run # None
  BY NilAssumption DEF Keys
<1>5. [v.waiting EXCEPT ![Select] = v.run] \in [Keys -> Thread \cup {None}]
  BY <1>3
<1>6. /\ x \in Selection /\ x # None
      /\ x.owner = v.sel.owner /\ x.sessions = v.sel.sessions
      /\ x.resp = v.sel.resp /\ x.errors = v.sel.errors
      /\ x.request = v.sel.request /\ x.timer = v.sel.timer /\ x.at = "woken"
  <2>1. x \in Selection
    BY <1>2 DEF Selection
  <2> QED BY <1>2, <2>1, SelectionFields DEF Selection
<1>7. c = [v EXCEPT !.waiting[Select] = v.run, !.next = @ + 1, !.sel = x]
  BY <1>1, <1>2 DEF VM, Selection
<1> HIDE DEF x, c
<1>8. /\ c \in VM /\ c.waiting = [v.waiting EXCEPT ![Select] = v.run]
      /\ c.lookup = v.lookup /\ c.wakeups = v.wakeups /\ c.sel = x
      /\ c.job = v.job /\ c.todo = v.todo /\ c.next = v.next + 1
      /\ c.post = v.post
  BY <1>1, <1>3, <1>5, <1>6, <1>7 DEF VM, Keys
<1>9. Tables(c) /\ Rested(c) /\ JobOK(c)
  BY <1>1, <1>4, <1>8, ListenTables
<1>10. SelectOK(c)
  <2>1. c.waiting[Select] = v.run
    BY <1>3, <1>4, <1>8
  <2>2. Open(c) = Open(v)
    BY <1>6, <1>8 DEF Open
  <2>3. /\ \A k \in v.sel.sessions : k < c.next
        /\ v.sel.timer # None => v.sel.timer < c.next
    BY <1>1, <1>2, <1>3, <1>8, SelectionFields DEF SelectOK, Sessions
  <2>4. \A k \in 0..MaxSession :
          c.lookup[k] = Select => c.sel # None /\ k \in 1..(c.next - 1)
    BY <1>1, <1>3, <1>6, <1>8 DEF SelectOK
  <2> QED BY <1>1, <1>2, <1>4, <1>6, <1>8, <2>1, <2>2, <2>3, <2>4 DEF SelectOK
<1> QED BY <1>6, <1>8, <1>9, <1>10 DEF Settled, c

-----------------------------------------------------------------------------
(* What is due, and what was asked for, from one state of a service to the
   next: w has no answer to give that v has not, and it has handed out the
   sessions v has. *)

Follows(v, w) ==
  /\ \A c \in Services, k \in Sessions : DueVM(w, <<c, k>>) => DueVM(v, <<c, k>>)
  /\ \A k \in Sessions : Asks(v, k) => Asks(w, k)
  /\ w.state = "live" => v.state = "live"

LEMMA FollowsTrans ==
  ASSUME NEW u, NEW v, NEW w, Follows(u, v), Follows(v, w)
  PROVE  Follows(u, w)
BY DEF Follows

(* What is due does not depend on the tables. *)
LEMMA SameDue ==
  ASSUME NEW v, NEW w, w.from = v.from, w.session = v.session,
         w.todo = v.todo, w.post = v.post \/ w.post = None
  PROVE  \A call : DueVM(w, call) => DueVM(v, call)
BY DEF DueVM

LEMMA SameAsks ==
  ASSUME NEW v, NEW w, w.lookup = v.lookup, w.next = v.next, w.sel = v.sel
  PROVE  \A k \in Sessions : Asks(v, k) => Asks(w, k)
BY DEF Asks

LEMMA DispatchFollows ==
  ASSUME NEW v \in VM
  PROVE  Follows(v, Dispatch(v))
<1>1. /\ Dispatch(v).from = v.from /\ Dispatch(v).session = v.session
      /\ Dispatch(v).todo = v.todo /\ Dispatch(v).post = v.post
      /\ Dispatch(v).lookup = v.lookup /\ Dispatch(v).next = v.next
      /\ Dispatch(v).sel = v.sel
      /\ Dispatch(v).state = "live" => v.state = "live"
  BY DEF Dispatch, VM
<1> QED BY <1>1, SameDue, SameAsks DEF Follows

(* A coroutine that begins without a request, or ends. *)
LEMMA CreateFollows ==
  ASSUME NEW v \in VM, NEW t \in Thread, NEW job
  PROVE  Follows(v, Create(v, t, job, None, Nil, {}))
<1> DEFINE w == Create(v, t, job, None, Nil, {})
<1>1. /\ w.from = [v.from EXCEPT ![t] = None]
      /\ w.session = [v.session EXCEPT ![t] = Nil]
      /\ w.todo = [v.todo EXCEPT ![t] = {}]
      /\ w.post = v.post /\ w.lookup = v.lookup /\ w.next = v.next
      /\ w.sel = v.sel /\ w.state = v.state
  BY DEF Create, VM
<1>2. /\ v.from \in [Thread -> Services \cup {None}]
      /\ v.session \in [Thread -> (0..MaxSession) \cup {Nil}]
      /\ v.todo \in [Thread -> SUBSET (Services \X ((0..MaxSession) \cup {Nil}))]
  BY VMFields
<1> HIDE DEF w
<1>3. ASSUME NEW c \in Services, NEW k \in Sessions, DueVM(w, <<c, k>>)
      PROVE  DueVM(v, <<c, k>>)
  <2>1. CASE \E u \in Thread : <<c, k>> = <<w.from[u], w.session[u]>>
    <3>1. PICK u \in Thread : <<c, k>> = <<w.from[u], w.session[u]>>
      BY <2>1
    <3>2. u # t
      BY <1>1, <1>2, <3>1, NilAssumption
    <3> QED BY <1>1, <1>2, <3>1, <3>2 DEF DueVM
  <2>2. CASE \E u \in Thread : <<c, k>> \in w.todo[u]
    BY <1>1, <1>2, <2>2 DEF DueVM
  <2>3. CASE w.post # None /\ DuePost(w.post, <<c, k>>)
    BY <1>1, <2>3 DEF DueVM
  <2> QED BY <1>3, <2>1, <2>2, <2>3 DEF DueVM
<1>4. \A k \in Sessions : Asks(v, k) => Asks(w, k)
  BY <1>1, SameAsks
<1> QED BY <1>1, <1>3, <1>4 DEF Follows, w

LEMMA FinishFollows ==
  ASSUME NEW v \in VM, NEW t \in Thread
  PROVE  Follows(v, Finish(v, t))
BY CreateFollows DEF Finish

(* A session that was handed out is not handed out again. *)
LEMMA SuspendFollows ==
  ASSUME NEW v \in VM, NEW h \in Sleepers, v.next <= MaxSession
  PROVE  Follows(v, Suspend(v, h))
<1> DEFINE w == Suspend(v, h)
<1>1. /\ w.lookup = [v.lookup EXCEPT ![v.next] = h] /\ w.next = v.next + 1
      /\ w.from = v.from /\ w.session = v.session /\ w.todo = v.todo
      /\ w.post = v.post /\ w.sel = v.sel /\ w.state = v.state
  BY SuspendFields
<1>2. v.next \in Nat /\ MaxSession \in Nat /\ v.lookup \in [0..MaxSession -> Sleepers]
  BY VMFields, SessionAssumption
<1> HIDE DEF w
<1>3. \A k \in Sessions : Asks(v, k) => Asks(w, k)
  BY <1>1, <1>2 DEF Asks, Sessions
<1>4. \A call : DueVM(w, call) => DueVM(v, call)
  BY <1>1, SameDue
<1> QED BY <1>1, <1>3, <1>4 DEF Follows, w

LEMMA ForkFollows ==
  ASSUME NEW v \in VM, NEW job \in Job, FreeThreads(v) # {}
  PROVE  Follows(v, Fork(v, job))
<1> DEFINE t == NewThread(v)
           w == Create(v, t, job, None, Nil, {})
<1>1. t \in Thread
  BY NewThreadFree
<1>2. Follows(v, w)
  BY <1>1, CreateFollows
<1>3. w \in VM
  BY <1>1 DEF Create, VM
<1>4. Fork(v, job) = [w EXCEPT !.wakeups = Append(@, t)]
  BY DEF Fork
<1> HIDE DEF w, t
<1>5. /\ Fork(v, job).from = w.from /\ Fork(v, job).session = w.session
      /\ Fork(v, job).todo = w.todo /\ Fork(v, job).post = w.post
      /\ Fork(v, job).lookup = w.lookup /\ Fork(v, job).next = w.next
      /\ Fork(v, job).sel = w.sel /\ Fork(v, job).state = w.state
  BY <1>3, <1>4 DEF VM
<1>6. Follows(w, Fork(v, job))
  BY <1>5, SameDue, SameAsks DEF Follows
<1> QED BY <1>2, <1>6, FollowsTrans

LEMMA WokenFields ==
  ASSUME NEW v \in VM, NEW x
  PROVE  /\ Woken(v, x).from = v.from /\ Woken(v, x).session = v.session
         /\ Woken(v, x).todo = v.todo /\ Woken(v, x).post = v.post
         /\ Woken(v, x).lookup = v.lookup /\ Woken(v, x).next = v.next
         /\ Woken(v, x).sel = v.sel /\ Woken(v, x).state = v.state
         /\ Woken(v, x).run = v.run /\ Woken(v, x).job = v.job
         /\ Woken(v, x).quit = v.quit
<1>1. CASE v.waiting[x] = None
  BY <1>1 DEF Woken
<1>2. CASE v.waiting[x] # None
  <2>1. Woken(v, x) = [v EXCEPT !.wakeups = Append(@, v.waiting[x]),
                                !.waiting[x] = None]
    BY <1>2 DEF Woken
  <2> QED BY <2>1 DEF VM
<1> QED BY <1>1, <1>2

LEMMA WokenFollows ==
  ASSUME NEW v \in VM, NEW x
  PROVE  Follows(v, Woken(v, x))
BY WokenFields, SameDue, SameAsks DEF Follows

(* No session of a select is left when it is closed or abandoned. *)
LEMMA AbandonFollows ==
  ASSUME NEW v \in VM
  PROVE  Follows(v, Abandon(v))
<1>1. CASE ~InSelect(v)
  BY <1>1 DEF Abandon, Follows
<1>2. CASE InSelect(v)
  <2> DEFINE l == [k \in DOMAIN v.lookup |->
                     IF v.lookup[k] = Select THEN Stale ELSE v.lookup[k]]
             w == Abandon(v)
  <2>1. w = [v EXCEPT !.sel = None, !.lookup = l]
    BY <1>2 DEF Abandon, VM
  <2>2. v.lookup \in [0..MaxSession -> Sleepers]
    BY VMFields
  <2>3. \A k \in Sessions : l[k] # Select
    BY <2>2, NilAssumption, SessionAssumption DEF Sessions
  <2> HIDE DEF l
  <2>4. /\ w.from = v.from /\ w.session = v.session /\ w.todo = v.todo
        /\ w.post = v.post /\ w.lookup = l /\ w.next = v.next
        /\ w.state = v.state
    BY <2>1 DEF VM
  <2> HIDE DEF w
  <2>5. \A call : DueVM(w, call) => DueVM(v, call)
    BY <2>4, SameDue
  <2>6. \A k \in Sessions : Asks(v, k) => Asks(w, k)
    BY <2>3, <2>4 DEF Asks
  <2> QED BY <2>4, <2>5, <2>6 DEF Follows, w
<1> QED BY <1>1, <1>2

LEMMA CloseFollows ==
  ASSUME NEW v \in VM
  PROVE  Follows(v, Close(v))
<1> DEFINE open == IF v.sel.request > 0 THEN v.sel.sessions \ v.sel.resp ELSE {}
           ignored == IF v.sel.timer = None THEN open ELSE open \cup {v.sel.timer}
           l == [k \in DOMAIN v.lookup |->
                   IF k \in ignored THEN Ignore
                   ELSE IF v.lookup[k] = Select THEN Stale ELSE v.lookup[k]]
           w == Close(v)
<1>1. w = [v EXCEPT !.sel = None, !.lookup = l]
  BY DEF Close, VM
<1> HIDE DEF ignored
<1>2. v.lookup \in [0..MaxSession -> Sleepers]
  BY VMFields
<1>3. \A k \in Sessions : l[k] # Select
  BY <1>2, NilAssumption, SessionAssumption DEF Sessions
<1> HIDE DEF l
<1>4. /\ w.from = v.from /\ w.session = v.session /\ w.todo = v.todo
      /\ w.post = v.post /\ w.lookup = l /\ w.next = v.next
      /\ w.state = v.state
  BY <1>1 DEF VM
<1> HIDE DEF w
<1>5. \A call : DueVM(w, call) => DueVM(v, call)
  BY <1>4, SameDue
<1>6. \A k \in Sessions : Asks(v, k) => Asks(w, k)
  BY <1>3, <1>4 DEF Asks
<1> QED BY <1>4, <1>5, <1>6 DEF Follows, w

LEMMA FailFollows ==
  ASSUME NEW v, Settled(v), v.run \in Thread, Unlisted(v, v.run),
         v.post = None
  PROVE  Follows(v, Fail(v))
<1> DEFINE t == v.run
           a == Abandon(v)
           w == Finish(a, t)
<1>1. v \in VM
  BY DEF Settled
<1>2. Settled(a) /\ a.post = None
  BY AbandonSettled
<1>3. a \in VM
  BY <1>2 DEF Settled
<1>4. Follows(v, a) /\ Follows(a, w)
  BY <1>1, <1>3, AbandonFollows, FinishFollows
<1>5. w \in VM /\ w.post = None
  BY <1>2, <1>3 DEF Finish, Create, VM, Job
<1>6. Fail(v) = IF v.from[t] = None THEN Dispatch(w)
                ELSE IF v.session[t] = Nil
                THEN [w EXCEPT !.run = None, !.wakeups = <<>>, !.state = "dead"]
                ELSE [w EXCEPT !.run = None,
                               !.post = Mail(v.from[t], "error", v.session[t],
                                             None, "raised")]
  BY DEF Fail
<1> HIDE DEF a, w
<1>7. Follows(v, w)
  BY <1>4, FollowsTrans
<1>8. CASE v.from[t] = None
  BY <1>5, <1>6, <1>7, <1>8, DispatchFollows, FollowsTrans
<1>9. CASE v.from[t] # None /\ v.session[t] = Nil
  <2> DEFINE c == [w EXCEPT !.run = None, !.wakeups = <<>>, !.state = "dead"]
  <2>1. Fail(v) = c
    BY <1>6, <1>9
  <2>2. /\ c.from = w.from /\ c.session = w.session /\ c.todo = w.todo
        /\ c.post = w.post /\ c.lookup = w.lookup /\ c.next = w.next
        /\ c.sel = w.sel /\ c.state = "dead"
    BY <1>5 DEF VM
  <2> HIDE DEF c
  <2>3. Follows(w, c)
    BY <2>2, SameDue, SameAsks DEF Follows
  <2> QED BY <1>7, <2>1, <2>3, FollowsTrans
<1>10. CASE v.from[t] # None /\ v.session[t] # Nil
  <2> DEFINE m == Mail(v.from[t], "error", v.session[t], None, "raised")
             c == [w EXCEPT !.run = None, !.post = m]
  <2>1. Fail(v) = c
    BY <1>6, <1>10
  <2>2. /\ m.then = "raised" /\ m.report = None
        /\ m.to = v.from[t] /\ m.session = v.session[t]
    BY DEF Mail
  <2> HIDE DEF m
  <2>3. /\ c.from = w.from /\ c.session = w.session /\ c.todo = w.todo
        /\ c.post = m /\ c.lookup = w.lookup /\ c.next = w.next
        /\ c.sel = w.sel /\ c.state = w.state
    BY <1>5 DEF VM
  <2> HIDE DEF c
  <2>4. ASSUME NEW b \in Services, NEW k \in Sessions, DueVM(c, <<b, k>>)
        PROVE  DueVM(v, <<b, k>>)
    <3>1. CASE DueVM(w, <<b, k>>)
      BY <1>7, <3>1 DEF Follows
    <3>2. CASE DuePost(m, <<b, k>>)
      <4>1. <<b, k>> # None
        <5>1. <<b, k>> \in Call
          BY SessionAssumption DEF Call, Sessions
        <5> QED BY <5>1, NilAssumption
      <4>2. <<b, k>> = <<v.from[t], v.session[t]>>
        BY <2>2, <3>2, <4>1 DEF DuePost
      <4> QED BY <4>2 DEF DueVM
    <3> QED BY <2>3, <2>4, <3>1, <3>2 DEF DueVM
  <2>5. \A k \in Sessions : Asks(v, k) => Asks(c, k)
    BY <1>7, <2>3, SameAsks DEF Follows
  <2> QED BY <1>7, <2>1, <2>3, <2>4, <2>5 DEF Follows
<1> QED BY <1>8, <1>9, <1>10

LEMMA PopErrorFollows ==
  ASSUME NEW v, Settled(v), Unlisted(v, v.run), InSelect(v),
         v.sel.errors > 0
  PROVE  Follows(v, PopError(v))
<1> DEFINE w == PopError(v)
<1>1. v \in VM /\ v.sel \in Selection
  BY OwnerAwake, VMFields DEF Settled
<1>2. /\ w.from = v.from /\ w.session = v.session /\ w.todo = v.todo
      /\ w.post = v.post /\ w.lookup = v.lookup /\ w.next = v.next
      /\ w.state = v.state
      /\ w.sel = [v.sel EXCEPT !.errors = @ - 1, !.at = "body"]
  BY <1>1 DEF PopError, VM, Selection
<1>3. w.sel # None
  BY PopErrorSettled
<1> HIDE DEF w
<1>4. w.sel.sessions = v.sel.sessions /\ w.sel.timer = v.sel.timer
  BY <1>1, <1>2 DEF Selection
<1> QED BY <1>2, <1>3, <1>4, SameDue DEF Follows, Asks, w

LEMMA PopResponseFollows ==
  ASSUME NEW v, Settled(v), Unlisted(v, v.run), InSelect(v),
         NEW k \in v.sel.resp
  PROVE  Follows(v, PopResponse(v, k))
<1> DEFINE w == PopResponse(v, k)
<1>1. v \in VM /\ v.sel \in Selection /\ v.sel # None /\ SelectOK(v)
  BY OwnerAwake, VMFields DEF Settled
<1>2. /\ w.from = v.from /\ w.session = v.session /\ w.todo = v.todo
      /\ w.post = v.post /\ w.lookup = v.lookup /\ w.next = v.next
      /\ w.state = v.state
      /\ w.sel = [v.sel EXCEPT !.request = @ - 1, !.resp = @ \ {k},
                               !.sessions = @ \ {k}, !.at = "body"]
  BY <1>1 DEF PopResponse, VM, Selection
<1>3. w.sel # None
  BY PopResponseSettled
<1> HIDE DEF w
<1>4. w.sel.sessions = v.sel.sessions \ {k} /\ w.sel.timer = v.sel.timer
  BY <1>1, <1>2 DEF Selection
<1>5. v.lookup[k] # Select
  BY <1>1 DEF SelectOK
<1>6. \A j \in Sessions : Asks(v, j) => Asks(w, j)
  BY <1>2, <1>3, <1>4, <1>5 DEF Asks
<1>7. \A call : DueVM(w, call) => DueVM(v, call)
  BY <1>2, SameDue
<1> QED BY <1>2, <1>6, <1>7 DEF Follows, w

(* An answer is taken. *)
LEMMA ClearedFollows ==
  ASSUME NEW u, Settled(u), NEW k \in 0..MaxSession
  PROVE  Follows(u, Cleared(u, k))
<1> DEFINE v == Cleared(u, k)
<1>1. /\ v.lookup = [u.lookup EXCEPT ![k] = None]
      /\ v.todo = u.todo /\ v.next = u.next /\ v.sel = u.sel
      /\ v.post = u.post /\ v.from = u.from
      /\ v.session = u.session /\ v.state = u.state
  BY ClearedSettled
<1>2. u.lookup \in [0..MaxSession -> Sleepers] /\ Select # None
  BY VMFields, NilAssumption DEF Settled
<1> HIDE DEF v
<1>3. \A j \in Sessions : Asks(u, j) => Asks(v, j)
  <2>1. \A j \in Sessions : v.lookup[j] = Select => u.lookup[j] = Select
    BY <1>1, <1>2, SessionAssumption DEF Sessions
  <2> QED BY <1>1, <2>1 DEF Asks
<1>4. \A call : DueVM(v, call) => DueVM(u, call)
  BY <1>1, SameDue
<1> QED BY <1>1, <1>3, <1>4 DEF Follows, v

LEMMA SelectedFollows ==
  ASSUME NEW u, Settled(u), NEW m, m.session \in Sessions,
         u.lookup[m.session] = Select,
         m.session \in u.sel.sessions \cup {u.sel.timer}
  PROVE  Follows(u, Selected(Cleared(u, m.session), m))
<1> DEFINE k == m.session
           y == u.sel
           v == Cleared(u, k)
           x == IF k = y.timer THEN [y EXCEPT !.timeout = TRUE, !.timer = None]
                ELSE IF m.type = "response" THEN [y EXCEPT !.resp = @ \cup {k}]
                ELSE [y EXCEPT !.errors = @ + 1, !.request = @ - 1]
           c == [v EXCEPT !.sel = x]
           w == Selected(v, m)
<1>1. k \in 0..MaxSession
  BY SessionAssumption DEF Sessions
<1>2. u \in VM /\ SelectOK(u) /\ y \in Selection
  BY <1>1, VMFields DEF Settled, SelectOK
<1>3. /\ v \in VM /\ v.lookup = [u.lookup EXCEPT ![k] = None]
      /\ v.todo = u.todo /\ v.next = u.next /\ v.sel = y
      /\ v.post = u.post /\ v.from = u.from
      /\ v.session = u.session /\ v.state = u.state
  BY <1>1, ClearedSettled
<1>4. w = Woken(c, Select)
  BY <1>3 DEF Selected
<1>5. Settled(w)
  BY SelectedSettled
<1> HIDE DEF v
<1>6. /\ x.sessions = y.sessions
      /\ x.timer = y.timer \/ y.timer = k
  BY <1>2 DEF Selection
<1> HIDE DEF x
<1>7. /\ c.from = v.from /\ c.session = v.session /\ c.todo = v.todo
      /\ c.post = v.post /\ c.lookup = v.lookup /\ c.next = v.next
      /\ c.sel = x /\ c.state = v.state /\ DOMAIN c = DOMAIN v
  BY <1>3 DEF VM
<1>8. /\ w.from = c.from /\ w.session = c.session /\ w.todo = c.todo
      /\ w.post = c.post /\ w.lookup = c.lookup /\ w.next = c.next
      /\ w.sel = c.sel /\ w.state = c.state
  <2>1. CASE c.waiting[Select] = None
    BY <1>4, <2>1 DEF Woken
  <2>2. CASE c.waiting[Select] # None
    <3>1. w = [c EXCEPT !.wakeups = Append(@, c.waiting[Select]),
                        !.waiting[Select] = None]
      BY <1>4, <2>2 DEF Woken
    <3> QED BY <1>3, <1>7, <3>1 DEF VM
  <2> QED BY <2>1, <2>2
<1> HIDE DEF c, w
<1>9. u.lookup \in [0..MaxSession -> Sleepers] /\ Select # None
  BY <1>2, VMFields, NilAssumption
<1>10. \A call : DueVM(w, call) => DueVM(u, call)
  BY <1>3, <1>7, <1>8, SameDue
<1>11. ASSUME NEW j \in Sessions, Asks(u, j)
       PROVE  Asks(w, j)
  <2>1. j \in 0..MaxSession
    BY SessionAssumption DEF Sessions
  <2>2. CASE j = k
    <3>1. w.lookup[k] = None /\ w.next = u.next
      <4>1. w.lookup = [u.lookup EXCEPT ![k] = None] /\ w.next = u.next
        BY <1>3, <1>7, <1>8
      <4>2. k \in DOMAIN u.lookup
        BY <1>1, <1>9
      <4> QED BY <4>1, <4>2, Zenon
    <3>2. w.lookup[j] # Select
      BY <1>9, <2>2, <3>1
    <3> QED BY <1>11, <3>1, <3>2 DEF Asks
  <2>3. CASE j # k
    <3>1. w.lookup[j] = u.lookup[j] /\ w.next = u.next
      BY <1>3, <1>7, <1>8, <1>9, <2>1, <2>3
    <3>2. w.lookup[j] = Select => w.sel # None
      BY <1>5, <2>1 DEF Settled, SelectOK
    <3> QED BY <1>6, <1>7, <1>8, <1>11, <2>3, <3>1, <3>2 DEF Asks
  <2> QED BY <2>2, <2>3
<1> QED BY <1>3, <1>7, <1>8, <1>10, <1>11 DEF Follows, v, w

-----------------------------------------------------------------------------
(* One service changes. *)

LEMMA DropCalls ==
  ASSUME NEW v \in VM, JobOK(v)
  PROVE  Held(v) \subseteq Call /\ ToTell(v) \subseteq Call
<1>1. /\ v.from \in [Thread -> Services \cup {None}]
      /\ v.session \in [Thread -> (0..MaxSession) \cup {Nil}]
  BY VMFields
<1>2. Held(v) \subseteq Call
  BY <1>1 DEF Held, Call
<1>3. ASSUME NEW t \in Thread, v.job[t] \in {"tell", "report"}
      PROVE  v.todo[t] \subseteq Call
  BY <1>3 DEF JobOK
<1>4. ToTell(v) \subseteq Call
  BY <1>3 DEF ToTell
<1> QED BY <1>2, <1>4

LEMMA NotACall ==
  ASSUME NEW c \in Services, NEW k \in Sessions
  PROVE  <<c, k>> # None /\ <<c, k>> \in Call
<1>1. <<c, k>> \in Call
  BY SessionAssumption DEF Call, Sessions
<1> QED BY <1>1, NilAssumption

(* A dead service answers nobody. *)
LEMMA EmptyDue ==
  ASSUME NEW st, NEW c \in Services, NEW k \in Sessions
  PROVE  ~DueVM(EmptyVM(st), <<c, k>>)
<1>1. /\ EmptyVM(st).from = [t \in Thread |-> None]
      /\ EmptyVM(st).todo = [t \in Thread |-> {}]
      /\ EmptyVM(st).post = None
  BY DEF EmptyVM
<1> QED BY <1>1, NilAssumption DEF DueVM

LEMMA ChangeInv ==
  ASSUME Inv, NEW s \in Services, NEW v, Good(s, v),
         NEW drop \in SUBSET Call, Change(s, v, drop),
         v.state = "live" =>
           vm[s].state = "live" /\ \A k \in Sessions : Asks(vm[s], k) => Asks(v, k),
         \A c \in Services, k \in Sessions :
           DueVM(v, <<c, k>>) => Due(<<c, k>>) \/ (c = s /\ Asks(v, k)),
         \A c \in Services, k \in Sessions :
           DueOut(<<c, k>>)' => Due(<<c, k>>) \/ (c = s /\ Asks(v, k))
  PROVE  /\ vm' \in [Services -> VM] /\ lost' \subseteq Call
         /\ \A x \in Services : Good(x, vm[x])'
         /\ Asked'
<1>1. /\ vm \in [Services -> VM] /\ lost \subseteq Call
      /\ \A x \in Services : Good(x, vm[x])
      /\ Asked
  BY DEF Inv, TypeOK
<1> DEFINE w == IF v.state = "live" THEN v ELSE EmptyVM("dead")
<1>2. Good(s, w) /\ w \in VM
  BY EmptyGood DEF Good, Settled
<1>3. vm' = [vm EXCEPT ![s] = w]
  BY DEF Change
<1> HIDE DEF w
<1>4. \A x \in Services : vm'[x] = IF x = s THEN w ELSE vm[x]
  BY <1>1, <1>3
<1>5. vm' \in [Services -> VM]
  BY <1>1, <1>2, <1>3
<1>6. lost' \subseteq Call
  BY <1>1, DropCalls DEF Good, Settled, Change
<1>7. \A x \in Services : Good(x, vm'[x])
  BY <1>1, <1>2, <1>4
<1>8. ASSUME NEW c \in Services, NEW k \in Sessions,
             vm'[c].state = "live", Due(<<c, k>>)'
      PROVE  Asks(vm'[c], k)
  <2>1. Due(<<c, k>>) \/ (c = s /\ Asks(v, k))
    <3>1. CASE DueOut(<<c, k>>)'
      BY <3>1
    <3>2. CASE (\E x \in Services : DueVM(vm[x], <<c, k>>))'
      <4>1. PICK x \in Services : DueVM(vm'[x], <<c, k>>)
        BY <3>2
      <4>2. CASE x # s
        BY <1>4, <4>1, <4>2 DEF Due
      <4>3. CASE x = s
        <5>1. v.state = "live" /\ w = v
          BY <1>4, <4>1, <4>3, EmptyDue DEF w
        <5> QED BY <1>4, <4>1, <4>3, <5>1
      <4> QED BY <4>2, <4>3
    <3> QED BY <1>8, <3>1, <3>2 DEF Due
  <2>2. CASE c # s
    BY <1>1, <1>4, <1>8, <2>1, <2>2 DEF Asked
  <2>3. CASE c = s
    <3>1. v.state = "live" /\ w = v
      <4>1. EmptyVM("dead").state # "live"
        BY DEF EmptyVM
      <4> QED BY <1>4, <1>8, <2>3, <4>1 DEF w
    <3>2. Due(<<c, k>>) => Asks(v, k)
      BY <1>1, <2>3, <3>1 DEF Asked
    <3> QED BY <1>4, <2>1, <2>3, <3>1, <3>2
  <2> QED BY <2>2, <2>3
<1>9. Asked'
  BY <1>8 DEF Asked
<1> QED BY <1>5, <1>6, <1>7, <1>9

(* The same when nothing else moves. *)
LEMMA LocalInv ==
  ASSUME Inv, NEW s \in Services, NEW v, Good(s, v),
         NEW drop \in SUBSET Call, Change(s, v, drop), Follows(vm[s], v),
         UNCHANGED <<can, queue, timers, told, aborted>>
  PROVE  Inv'
<1>1. \A c \in Services, k \in Sessions :
        DueVM(v, <<c, k>>) => Due(<<c, k>>)
  BY DEF Follows, Due
<1>2. \A c \in Services, k \in Sessions :
        DueOut(<<c, k>>)' => Due(<<c, k>>)
  BY DEF Due, DueOut
<1>3. v.state = "live" =>
        vm[s].state = "live" /\ \A k \in Sessions : Asks(vm[s], k) => Asks(v, k)
  BY DEF Follows
<1>4. /\ vm' \in [Services -> VM] /\ lost' \subseteq Call
      /\ \A x \in Services : Good(x, vm[x])'
      /\ Asked'
  BY <1>1, <1>2, <1>3, ChangeInv
<1>5. TypeOK'
  BY <1>4 DEF Inv, TypeOK
<1>6. RootAsked'
  BY DEF Inv, RootAsked
<1> QED BY <1>4, <1>5, <1>6 DEF Inv

-----------------------------------------------------------------------------
(* What the running coroutine does. *)

LEMMA RunningFacts ==
  ASSUME Inv, NEW s \in Services, NEW ops, Running(s, ops)
  PROVE  /\ vm[s] \in VM /\ Settled(vm[s]) /\ Runs(vm[s])
         /\ vm[s].run \in Thread /\ Unlisted(vm[s], vm[s].run)
         /\ vm[s].job[vm[s].run] # "free" /\ vm[s].job[vm[s].run] \in ops
         /\ vm[s].post = None /\ vm[s].state = "live"
<1>1. Good(s, vm[s]) /\ vm[s] \in VM
  BY DEF Inv, TypeOK
<1> QED BY <1>1, VMFields DEF Running, Good, Runs

(* The service posts m: what m answers was due from the service. *)
LEMMA PostInv ==
  ASSUME Inv, NEW s \in Services, NEW ops, Running(s, ops),
         NEW m \in Post, PostMail(s, m),
         PostOK(s, [vm[s] EXCEPT !.post = m]),
         \A c \in Services, k \in Sessions :
           DuePost(m, <<c, k>>) => DueVM(vm[s], <<c, k>>),
         UNCHANGED can
  PROVE  Inv'
<1> DEFINE v == vm[s]
           w == [v EXCEPT !.post = m]
<1>1. v \in VM /\ Settled(v) /\ Runs(v) /\ v.state = "live"
  BY RunningFacts
<1>2. /\ w \in VM /\ w.post = m
      /\ w.lookup = v.lookup /\ w.wakeups = v.wakeups /\ w.waiting = v.waiting
      /\ w.job = v.job /\ w.todo = v.todo /\ w.next = v.next /\ w.sel = v.sel
      /\ w.run = v.run /\ w.from = v.from /\ w.session = v.session
      /\ w.state = v.state
  BY <1>1 DEF VM
<1>3. /\ Change(s, w, {}) /\ PostOK(s, w)
      /\ UNCHANGED <<can, queue, timers, told, aborted>>
  BY DEF PostMail
<1> HIDE DEF w
<1>4. Settled(w) /\ Runs(w)
  BY <1>1, <1>2, SameSettled DEF Runs
<1>5. Follows(v, w)
  <2>1. \A c \in Services, k \in Sessions :
          DueVM(w, <<c, k>>) => DueVM(v, <<c, k>>)
    BY <1>2 DEF DueVM
  <2> QED BY <1>1, <1>2, <2>1, SameAsks DEF Follows
<1> QED BY <1>3, <1>4, <1>5, LocalInv DEF Good

LEMMA SendRequestInv ==
  ASSUME Inv, UNCHANGED can, NEW s \in Users, NEW to \in Users,
         NEW op \in {"call", "send"}, SendRequest(s, to, op)
  PROVE  Inv'
<1> DEFINE v == vm[s]
           m == Mail(to, "request", v.next, None, op)
           w == [v EXCEPT !.post = m]
<1>1. s \in Services /\ Running(s, {"user"})
  BY DEF Services, SendRequest, May
<1>2. v \in VM /\ v.run \in Thread /\ v.next <= MaxSession
  BY <1>1, RunningFacts DEF SendRequest, SessionLeft
<1>3. v.next \in 0..MaxSession
  BY <1>2, VMFields, SessionAssumption
<1>4. /\ m \in Post /\ m.to = to /\ m.type = "request" /\ m.session = v.next
      /\ m.report = None /\ m.then = op
  BY <1>3 DEF Mail, Post, Services
<1>5. PostMail(s, m)
  BY DEF SendRequest
<1> HIDE DEF m
<1>6. w.post = m /\ w.run = v.run /\ w.next = v.next
  BY <1>2 DEF VM
<1>7. PostOK(s, w)
  BY <1>2, <1>4, <1>6 DEF PostOK
<1>8. \A c \in Services, k \in Sessions : ~DuePost(m, <<c, k>>)
  BY <1>4, NotACall DEF DuePost
<1> QED BY <1>1, <1>4, <1>5, <1>7, <1>8, PostInv

LEMMA WakeSelfInv ==
  ASSUME Inv, UNCHANGED can, NEW s \in Users, NEW op \in {"sleep", "timeout"},
         WakeSelf(s, op)
  PROVE  Inv'
<1> DEFINE v == vm[s]
           m == Mail(s, "response", v.next, None, op)
           w == [v EXCEPT !.post = m]
<1>1. s \in Services /\ Running(s, {"user"})
  BY DEF Services, WakeSelf, May
<1>2. v \in VM /\ v.run \in Thread /\ v.next <= MaxSession
  BY <1>1, RunningFacts DEF WakeSelf, SessionLeft
<1>3. v.next \in 0..MaxSession /\ (op = "timeout" => FreeThreads(v) # {})
  BY <1>2, VMFields, SessionAssumption DEF WakeSelf
<1>4. /\ m \in Post /\ m.to = s /\ m.type = "response" /\ m.session = v.next
      /\ m.report = None /\ m.then = op
  BY <1>1, <1>3 DEF Mail, Post
<1>5. PostMail(s, m)
  BY DEF WakeSelf
<1> HIDE DEF m
<1>6. w.post = m /\ w.run = v.run /\ w.next = v.next /\ w.job = v.job
  BY <1>2 DEF VM
<1>7. PostOK(s, w)
  BY <1>2, <1>3, <1>4, <1>6 DEF PostOK, FreeThreads
<1>8. \A c \in Services, k \in Sessions : ~DuePost(m, <<c, k>>)
  BY <1>4, NotACall DEF DuePost
<1> QED BY <1>1, <1>4, <1>5, <1>7, <1>8, PostInv

(* The coroutine that waits for session `next' is in its table. *)
LEMMA SuspendRun ==
  ASSUME NEW s, NEW v, Settled(v), Runs(v), v.run \in Thread \cup {None}, v.post = None,
         v.next <= MaxSession
  PROVE  /\ Good(s, Dispatch(Suspend(v, v.run)))
         /\ Follows(v, Dispatch(Suspend(v, v.run)))
         /\ Asks(Dispatch(Suspend(v, v.run)), v.next)
<1> DEFINE w == Suspend(v, v.run)
<1>1. v \in VM /\ v.run \in Sleepers /\ v.run # Select
  BY NilAssumption DEF Settled, Sleepers
<1>2. Settled(w)
  BY <1>1, SuspendSettled, NilAssumption DEF Runs
<1>3. /\ w \in VM /\ w.post = None /\ w.lookup = [v.lookup EXCEPT ![v.next] = v.run]
      /\ w.next = v.next + 1
  BY <1>1, SuspendFields
<1>4. Follows(v, w)
  BY <1>1, SuspendFollows
<1>5. v.next \in 0..MaxSession /\ v.lookup \in [0..MaxSession -> Sleepers]
      /\ v.next \in Nat
  BY <1>1, VMFields, SessionAssumption
<1> HIDE DEF w
<1>6. Asks(w, v.next)
  <2>1. w.lookup[v.next] = v.run
    BY <1>3, <1>5
  <2>2. v.next < w.next
    BY <1>3, <1>5
  <2> QED BY <1>1, <2>1, <2>2 DEF Asks
<1>7. Good(s, Dispatch(w)) /\ Follows(w, Dispatch(w))
  BY <1>2, <1>3, DispatchGood, DispatchFollows
<1>8. v.next \in Sessions
  BY <1>1, VMFields, SessionAssumption DEF Sessions
<1> QED BY <1>4, <1>6, <1>7, <1>8, FollowsTrans DEF Follows, w

(* The timer service will answer session k of s, one it has handed out. *)
LEMMA TimerInv ==
  ASSUME Inv, NEW s \in Services, NEW v, Good(s, v), NEW k \in Sessions,
         Change(s, v, {}), Follows(vm[s], v), Asks(v, k),
         timers' = timers \cup {<<s, k>>},
         UNCHANGED <<can, queue, told, aborted>>
  PROVE  Inv'
<1>1. \A c \in Services, j \in Sessions :
        DueVM(v, <<c, j>>) => Due(<<c, j>>)
  BY DEF Follows, Due
<1>2. ASSUME NEW c \in Services, NEW j \in Sessions, DueOut(<<c, j>>)'
      PROVE  Due(<<c, j>>) \/ (c = s /\ Asks(v, j))
  BY <1>2 DEF Due, DueOut
<1>3. v.state = "live" =>
        vm[s].state = "live" /\ \A j \in Sessions : Asks(vm[s], j) => Asks(v, j)
  BY DEF Follows
<1>4. /\ vm' \in [Services -> VM] /\ lost' \subseteq Call
      /\ \A x \in Services : Good(x, vm[x])'
      /\ Asked'
  BY <1>1, <1>2, <1>3, ChangeInv
<1>5. TypeOK'
  BY <1>4 DEF Inv, TypeOK
<1>6. RootAsked'
  BY DEF Inv, RootAsked
<1> QED BY <1>4, <1>5, <1>6 DEF Inv

LEMMA SleepTimeInv ==
  ASSUME Inv, UNCHANGED can, NEW s \in Users, SleepTime(s)
  PROVE  Inv'
<1> DEFINE v == vm[s]
           w == Dispatch(Suspend(v, v.run))
<1>1. s \in Services /\ Running(s, {"user"})
  BY DEF Services, SleepTime, May
<1>2. v \in VM /\ Settled(v) /\ Runs(v) /\ v.run \in Thread /\ v.post = None
      /\ v.next <= MaxSession
  BY <1>1, RunningFacts DEF SleepTime, SessionLeft
<1>3. v.next \in Sessions
  BY <1>2, VMFields, SessionAssumption DEF Sessions
<1>4. Good(s, w) /\ Follows(v, w) /\ Asks(w, v.next)
  BY <1>2, SuspendRun
<1>5. /\ timers' = timers \cup {<<s, v.next>>} /\ Change(s, w, {})
      /\ UNCHANGED <<queue, told, aborted>>
  BY DEF SleepTime
<1> HIDE DEF w
<1> QED BY <1>1, <1>3, <1>4, <1>5, TimerInv

LEMMA ForkInv ==
  ASSUME Inv, UNCHANGED can, NEW s \in Users, ForkUser(s) \/ Quit(s)
  PROVE  Inv'
<1> DEFINE v == vm[s]
<1>1. s \in Services /\ Running(s, {"user"})
  BY DEF Services, ForkUser, Quit, May
<1>2. /\ v \in VM /\ Settled(v) /\ Runs(v) /\ v.run \in Thread /\ v.post = None
      /\ Unlisted(v, v.run) /\ v.job[v.run] # "free"
  BY <1>1, RunningFacts
<1>3. PICK job \in {"user", "quit"} : Local(s, Fork(v, job)) /\ FreeThreads(v) # {}
  BY DEF ForkUser, Quit
<1> DEFINE w == Fork(v, job)
           t == NewThread(v)
           c == Create(v, t, job, None, Nil, {})
<1>4. t \in Thread /\ v.job[t] = "free"
  BY <1>3, NewThreadFree
<1>5. Settled(w) /\ Unlisted(w, v.run)
  BY <1>2, <1>3, <1>4, ForkSettled
<1>6. Follows(v, w)
  BY <1>2, <1>3, ForkFollows DEF Job
<1>7. w.run = v.run /\ w.post = None /\ w.job[v.run] # "free"
  <2>1. c \in VM /\ c.run = v.run /\ c.post = v.post /\ c.job = [v.job EXCEPT ![t] = job]
    BY <1>2, <1>4 DEF Create, VM, Job
  <2>2. w = [c EXCEPT !.wakeups = Append(@, t)]
    BY DEF Fork
  <2> HIDE DEF c
  <2>3. w.run = c.run /\ w.post = c.post /\ w.job = c.job
    BY <2>1, <2>2 DEF VM
  <2>4. v.job \in [Thread -> Job]
    BY <1>2, VMFields
  <2> QED BY <1>2, <1>4, <2>1, <2>3, <2>4
<1> HIDE DEF w
<1>8. Good(s, w)
  BY <1>5, <1>7 DEF Good, Runs, PostOK
<1> QED BY <1>1, <1>3, <1>6, <1>8, LocalInv DEF Local, w

LEMMA WaitInv ==
  ASSUME Inv, UNCHANGED can, NEW s \in Users, NEW token \in Tokens,
         Wait(s, token)
  PROVE  Inv'
<1> DEFINE v == vm[s]
           c == [v EXCEPT !.waiting[token] = v.run, !.next = @ + 1]
           w == Dispatch(c)
<1>1. s \in Services /\ Running(s, {"user"})
  BY DEF Services, Wait, May
<1>2. v \in VM /\ Settled(v) /\ Runs(v) /\ v.run \in Thread /\ v.post = None
      /\ v.next <= MaxSession
  BY <1>1, RunningFacts DEF Wait, SessionLeft
<1>3. Settled(c) /\ c.post = None
  BY <1>2, WaitSettled
<1>4. /\ c.from = v.from /\ c.session = v.session /\ c.todo = v.todo
      /\ c.lookup = v.lookup /\ c.next = v.next + 1 /\ c.sel = v.sel
      /\ c.state = v.state
  BY <1>2 DEF VM
<1>5. Local(s, w)
  BY DEF Wait
<1> HIDE DEF c
<1>6. Good(s, w) /\ Follows(c, w)
  BY <1>3, DispatchGood, DispatchFollows DEF Settled
<1>7. Follows(v, c)
  <2>1. v.next \in Nat
    BY <1>2, VMFields, SessionAssumption
  <2>2. \A k \in Sessions : Asks(v, k) => Asks(c, k)
    BY <1>4, <2>1 DEF Asks, Sessions
  <2> QED BY <1>2, <1>3, <1>4, <2>2, SameDue DEF Follows
<1>8. Follows(v, w)
  BY <1>6, <1>7, FollowsTrans
<1> HIDE DEF w
<1> QED BY <1>1, <1>5, <1>6, <1>8, LocalInv DEF Local

LEMMA WakeupInv ==
  ASSUME Inv, UNCHANGED can, NEW s \in Users, NEW token \in Tokens,
         Wakeup(s, token)
  PROVE  Inv'
<1> DEFINE v == vm[s]
           w == Woken(v, token)
<1>1. s \in Services /\ Running(s, {"user"})
  BY DEF Services, Wakeup, May
<1>2. /\ v \in VM /\ Settled(v) /\ v.run \in Thread /\ v.post = None
      /\ Unlisted(v, v.run) /\ v.job[v.run] # "free"
  BY <1>1, RunningFacts
<1>3. token \in Keys /\ token # Select
  BY NilAssumption DEF Keys
<1>4. Settled(w) /\ Unlisted(w, v.run)
  BY <1>2, <1>3, WokenSettled
<1>5. w.run = v.run /\ w.post = v.post /\ w.job = v.job
  BY <1>2, WokenFields
<1>6. Follows(v, w) /\ Local(s, w)
  BY <1>2, WokenFollows DEF Wakeup
<1> HIDE DEF w
<1>7. Good(s, w)
  BY <1>2, <1>4, <1>5 DEF Good, Runs, PostOK
<1> QED BY <1>1, <1>6, <1>7, LocalInv DEF Local

LEMMA NoResponseInv ==
  ASSUME Inv, UNCHANGED can, NEW s \in Users, NoResponse(s)
  PROVE  Inv'
<1> DEFINE v == vm[s]
           w == [v EXCEPT !.session[v.run] = Nil]
           call == <<v.from[v.run], v.session[v.run]>>
<1>1. s \in Services /\ Running(s, {"user"})
  BY DEF Services, NoResponse, May
<1>2. /\ v \in VM /\ Settled(v) /\ Runs(v) /\ v.run \in Thread /\ v.post = None
  BY <1>1, RunningFacts
<1>3. /\ v.from \in [Thread -> Services \cup {None}]
      /\ v.session \in [Thread -> (0..MaxSession) \cup {Nil}]
  BY <1>2, VMFields
<1>4. /\ w \in VM /\ w.session = [v.session EXCEPT ![v.run] = Nil]
      /\ w.lookup = v.lookup /\ w.wakeups = v.wakeups /\ w.waiting = v.waiting
      /\ w.job = v.job /\ w.todo = v.todo /\ w.next = v.next /\ w.sel = v.sel
      /\ w.run = v.run /\ w.from = v.from /\ w.post = v.post
      /\ w.state = v.state
  BY <1>2, <1>3 DEF VM
<1>5. Change(s, w, {call} \ told) /\ UNCHANGED <<queue, timers, told, aborted>>
  BY DEF NoResponse
<1>6. {call} \ told \in SUBSET Call
  BY <1>2, <1>3 DEF NoResponse, Call
<1> HIDE DEF w
<1>7. Settled(w) /\ Runs(w)
  BY <1>2, <1>4, SameSettled DEF Runs
<1>8. ASSUME NEW c \in Services, NEW k \in Sessions, DueVM(w, <<c, k>>)
      PROVE  DueVM(v, <<c, k>>)
  <2>1. k # Nil
    BY NilAssumption, SessionAssumption DEF Sessions
  <2>2. ASSUME NEW t \in Thread, <<c, k>> = <<w.from[t], w.session[t]>>
        PROVE  <<c, k>> = <<v.from[t], v.session[t]>>
    BY <1>3, <1>4, <2>1, <2>2
  <2> QED BY <1>4, <1>8, <2>2 DEF DueVM
<1>9. Follows(v, w)
  BY <1>4, <1>8, SameAsks DEF Follows
<1>10. Good(s, w)
  BY <1>2, <1>4, <1>7 DEF Good, PostOK
<1> HIDE DEF call
<1> QED BY <1>1, <1>5, <1>6, <1>9, <1>10, LocalInv

LEMMA RaiseInv ==
  ASSUME Inv, UNCHANGED can, NEW s \in Users, Raise(s)
  PROVE  Inv'
<1> DEFINE v == vm[s]
<1>1. s \in Services /\ Running(s, {"user"})
  BY DEF Services, Raise, May
<1>2. /\ Settled(v) /\ v.run \in Thread /\ v.post = None /\ Unlisted(v, v.run)
  BY <1>1, RunningFacts
<1>3. Good(s, Fail(v)) /\ Follows(v, Fail(v))
  BY <1>2, FailGood, FailFollows
<1>4. Local(s, Fail(v))
  BY DEF Raise
<1> QED BY <1>1, <1>3, <1>4, LocalInv DEF Local

(* The turn of the coroutine that runs is over and it has ended. *)
LEMMA EndGood ==
  ASSUME NEW s, NEW v, Settled(v), v.run \in Thread, Unlisted(v, v.run),
         v.post = None
  PROVE  Good(s, End(v)) /\ Follows(v, End(v))
<1> DEFINE w == Finish(v, v.run)
<1>1. v \in VM
  BY DEF Settled
<1>2. Settled(w) /\ Follows(v, w)
  BY <1>1, FinishSettled, FinishFollows
<1>3. w \in VM /\ w.post = None
  BY <1>1 DEF Finish, Create, VM, Job
<1> HIDE DEF w
<1>4. Good(s, Dispatch(w)) /\ Follows(w, Dispatch(w))
  BY <1>2, <1>3, DispatchGood, DispatchFollows
<1> QED BY <1>2, <1>4, FollowsTrans DEF End, w

LEMMA ReturnInv ==
  ASSUME Inv, UNCHANGED can, NEW s \in Users, Return(s)
  PROVE  Inv'
<1> DEFINE v == vm[s]
           t == v.run
<1>1. s \in Services /\ Running(s, {"user"})
  BY DEF Services, Return
<1>2. /\ v \in VM /\ Settled(v) /\ t \in Thread /\ v.post = None /\ Unlisted(v, t)
      /\ v.job[t] # "free"
  BY <1>1, RunningFacts
<1>3. CASE Local(s, End(v))
  <2>1. Good(s, End(v)) /\ Follows(v, End(v))
    BY <1>2, EndGood
  <2> QED BY <1>1, <1>3, <2>1, LocalInv DEF Local
<1>4. CASE ~Local(s, End(v))
  <2> DEFINE m == Mail(v.from[t], "response", v.session[t], None, "response")
             c == Create(v, t, "user", None, Nil, {})
             w == [c EXCEPT !.post = m]
  <2>1. Local(s, w) /\ v.from[t] # None /\ v.session[t] \notin {Nil, 0}
    BY <1>4 DEF Return
  <2>2. /\ v.from \in [Thread -> Services \cup {None}]
        /\ v.session \in [Thread -> (0..MaxSession) \cup {Nil}]
        /\ v.job \in [Thread -> Job]
    BY <1>2, VMFields
  <2>3. v.from[t] \in Services /\ v.session[t] \in 0..MaxSession
    BY <1>2, <2>1, <2>2
  <2>4. /\ m \in Post /\ m.then = "response" /\ m.report = None
        /\ m.to = v.from[t] /\ m.session = v.session[t] /\ m.type = "response"
    BY <2>3 DEF Mail, Post
  <2>5. Settled(c) /\ \A u : Unlisted(v, u) => Unlisted(c, u)
    BY <1>2, CreateSettled DEF Job
  <2>6. Follows(v, c)
    BY <1>2, CreateFollows
  <2>7. c \in VM /\ c.run = t /\ c.job = [v.job EXCEPT ![t] = "user"]
    BY <1>2 DEF Create, VM, Job
  <2> HIDE DEF m, c
  <2>8. /\ w \in VM /\ w.post = m
        /\ w.lookup = c.lookup /\ w.wakeups = c.wakeups /\ w.waiting = c.waiting
        /\ w.job = c.job /\ w.todo = c.todo /\ w.next = c.next /\ w.sel = c.sel
        /\ w.run = c.run /\ w.from = c.from /\ w.session = c.session
        /\ w.state = c.state
    BY <2>4, <2>7 DEF VM
  <2> HIDE DEF w
  <2>9. Settled(w) /\ Unlisted(w, t)
    BY <1>2, <2>5, <2>8, SameSettled
  <2>10. w.job[t] # "free"
    BY <1>2, <2>2, <2>7, <2>8
  <2>11. Good(s, w)
    BY <1>2, <2>4, <2>7, <2>8, <2>9, <2>10 DEF Good, Runs, PostOK
  <2>12. ASSUME NEW b \in Services, NEW k \in Sessions, DueVM(w, <<b, k>>)
         PROVE  DueVM(v, <<b, k>>)
    <3>1. CASE DueVM(c, <<b, k>>)
      BY <2>6, <3>1 DEF Follows
    <3>2. CASE DuePost(m, <<b, k>>)
      BY <1>2, <2>4, <3>2, NotACall DEF DuePost, DueVM
    <3> QED BY <2>8, <2>12, <3>1, <3>2 DEF DueVM
  <2>13. \A k \in Sessions : Asks(v, k) => Asks(w, k)
    BY <2>6, <2>8, SameAsks DEF Follows
  <2>14. Follows(v, w)
    BY <2>6, <2>8, <2>12, <2>13 DEF Follows
  <2> QED BY <1>1, <2>1, <2>11, <2>14, LocalInv DEF Local, w, c, m
<1> QED BY <1>3, <1>4

LEMMA BeginSelectInv ==
  ASSUME Inv, UNCHANGED can, NEW s \in Users, BeginSelect(s)
  PROVE  Inv'
<1> DEFINE v == vm[s]
           x == [owner |-> v.run, left |-> SelectList[s], sessions |-> {},
                 resp |-> {}, errors |-> 0, request |-> 0, timer |-> None,
                 timeout |-> FALSE, at |-> "sending"]
           w == [v EXCEPT !.sel = x]
<1>1. s \in Services /\ Running(s, {"user"})
  BY DEF Services, BeginSelect, May
<1>2. /\ v \in VM /\ Settled(v) /\ v.run \in Thread /\ v.post = None
      /\ Unlisted(v, v.run) /\ v.job[v.run] # "free"
  BY <1>1, RunningFacts
<1>3. v.sel = None /\ Local(s, w) /\ SelectList[s] \in Seq(Users)
  BY SessionAssumption DEF BeginSelect
<1>4. Settled(w) /\ Unlisted(w, v.run)
  BY <1>2, <1>3, BeginSettled
<1>5. /\ w.lookup = v.lookup /\ w.next = v.next /\ w.run = v.run
      /\ w.job = v.job /\ w.from = v.from /\ w.session = v.session
      /\ w.todo = v.todo /\ w.post = v.post /\ w.state = v.state
  BY <1>2 DEF VM
<1> HIDE DEF w
<1>6. \A k \in Sessions : Asks(v, k) => Asks(w, k)
  BY <1>2, <1>3, <1>5 DEF Asks
<1>7. Follows(v, w)
  BY <1>5, <1>6, SameDue DEF Follows
<1>8. Good(s, w)
  BY <1>2, <1>4, <1>5 DEF Good, Runs, PostOK
<1> QED BY <1>1, <1>3, <1>7, <1>8, LocalInv DEF Local

LEMMA SelectSendInv ==
  ASSUME Inv, UNCHANGED can, NEW s \in Users, SelectSend(s)
  PROVE  Inv'
<1> DEFINE v == vm[s]
           m == Mail(Head(v.sel.left), "request", v.next, None, "select")
           c == Suspend(v, Select)
           x == [v.sel EXCEPT !.left = Tail(@)]
           w == [c EXCEPT !.sel.left = Tail(@), !.post = m]
<1>1. s \in Services /\ Running(s, {"user"})
  BY DEF Services, SelectSend, Selecting
<1>2. /\ v \in VM /\ Settled(v) /\ Runs(v) /\ v.run \in Thread /\ v.post = None
  BY <1>1, RunningFacts
<1>3. /\ InSelect(v) /\ v.sel.left # <<>> /\ v.next <= MaxSession
      /\ Local(s, w)
  BY DEF SelectSend, Selecting, SessionLeft
<1>4. Good(s, w)
  BY <1>2, <1>3, SelectSendGood
<1>5. c \in VM /\ c.sel = v.sel /\ Follows(v, c)
  BY <1>2, <1>3, SuspendFields, SuspendFollows DEF Sleepers
<1>6. v.sel \in Selection
  BY <1>2, <1>3, VMFields DEF InSelect
<1>7. m.report = None /\ m.then = "select"
  BY DEF Mail
<1>8. w = [c EXCEPT !.sel = x, !.post = m]
  BY <1>5, <1>6 DEF VM, Selection
<1>9. x # None /\ x.sessions = v.sel.sessions /\ x.timer = v.sel.timer
  <2>1. Tail(v.sel.left) \in Seq(Users)
    BY <1>3, <1>6, SelectionFields
  <2>2. x \in Selection
    BY <1>6, <2>1 DEF Selection
  <2> QED BY <1>6, <2>2, SelectionFields DEF Selection
<1> HIDE DEF m, c, x, w
<1>10. /\ w.from = c.from /\ w.session = c.session /\ w.todo = c.todo
      /\ w.post = m /\ w.lookup = c.lookup /\ w.next = c.next
      /\ w.sel = x /\ w.state = c.state
  BY <1>5, <1>8 DEF VM
<1>11. ASSUME NEW b \in Services, NEW k \in Sessions, DueVM(w, <<b, k>>)
       PROVE  DueVM(c, <<b, k>>)
  BY <1>7, <1>10, <1>11, NotACall DEF DueVM, DuePost
<1>12. \A k \in Sessions : Asks(c, k) => Asks(w, k)
  BY <1>5, <1>10, <1>9 DEF Asks
<1>13. Follows(c, w)
  BY <1>10, <1>11, <1>12 DEF Follows
<1>14. Follows(v, w)
  BY <1>5, <1>13, FollowsTrans
<1> QED BY <1>1, <1>3, <1>4, <1>14, LocalInv DEF Local, w, c, x, m

LEMMA SelectSentInv ==
  ASSUME Inv, UNCHANGED can, NEW s \in Users, SelectSent(s)
  PROVE  Inv'
<1> DEFINE v == vm[s]
           w == Suspend(v, Select)
           c == [w EXCEPT !.sel.timer = v.next, !.sel.at = "body"]
           b == [v EXCEPT !.sel.at = "body"]
<1>1. s \in Services /\ Running(s, {"user"})
  BY DEF Services, SelectSent, Selecting
<1>2. /\ v \in VM /\ Settled(v) /\ v.run \in Thread /\ v.post = None
      /\ Unlisted(v, v.run) /\ v.job[v.run] # "free"
  BY <1>1, RunningFacts
<1>3. /\ InSelect(v) /\ v.sel.at = "sending" /\ v.sel # None
      /\ UNCHANGED <<queue, told, aborted>>
      /\ \/ /\ v.next <= MaxSession
            /\ timers' = timers \cup {<<s, v.next>>}
            /\ Change(s, c, {})
         \/ Change(s, b, {}) /\ UNCHANGED timers
  BY DEF SelectSent, Selecting, InSelect, SessionLeft
<1>4. v.sel \in Selection /\ v.sel.timer = None
  BY <1>2, <1>3, VMFields DEF Settled, SelectOK
<1>5. v.next \in 1..(MaxSession + 1) /\ MaxSession \in Nat
      /\ v.lookup \in [0..MaxSession -> Sleepers]
  BY <1>2, VMFields, SessionAssumption
<1>6. CASE v.next <= MaxSession /\ timers' = timers \cup {<<s, v.next>>} /\ Change(s, c, {})
  <2>1. v.next \in Sessions /\ v.next \in 0..MaxSession
    BY <1>5, <1>6 DEF Sessions
  <2>2. /\ Settled(c)
        /\ c.sel # None /\ c.sel.timer = v.next /\ c.sel.sessions = v.sel.sessions
        /\ c.next = v.next + 1 /\ c.lookup = [v.lookup EXCEPT ![v.next] = Select]
        /\ Unlisted(c, v.run)
    BY <1>2, <1>3, <1>6, SelectTimerSettled
  <2>3. /\ w \in VM /\ w.from = v.from /\ w.session = v.session
        /\ w.todo = v.todo /\ w.post = v.post /\ w.state = v.state
        /\ w.run = v.run /\ w.job = v.job
    BY <1>2, <1>6, SuspendFields DEF Sleepers
  <2> HIDE DEF w
  <2>4. /\ c.from = v.from /\ c.session = v.session /\ c.todo = v.todo
        /\ c.post = v.post /\ c.state = v.state /\ c.run = v.run
        /\ c.job = v.job
    BY <2>3 DEF VM
  <2> HIDE DEF c
  <2>5. Good(s, c)
    BY <1>2, <2>2, <2>4 DEF Good, Runs, PostOK
  <2>6. \A k \in 0..MaxSession :
          c.lookup[k] = IF k = v.next THEN Select ELSE v.lookup[k]
    BY <1>5, <2>2
  <2>7. ASSUME NEW k \in Sessions, Asks(v, k)
        PROVE  Asks(c, k)
    <3>1. k \in 0..MaxSession /\ k # v.next /\ k < c.next
      BY <1>5, <2>2, <2>7 DEF Asks, Sessions
    <3>2. c.lookup[k] = v.lookup[k]
      BY <2>6, <3>1
    <3>3. k # None
      BY NilAssumption
    <3> QED BY <1>4, <2>2, <2>7, <3>1, <3>2, <3>3 DEF Asks
  <2>8. Follows(v, c)
    BY <2>4, <2>7, SameDue DEF Follows
  <2>9. Asks(c, v.next)
    BY <1>5, <2>1, <2>2 DEF Asks
  <2> QED BY <1>1, <1>3, <1>6, <2>1, <2>5, <2>8, <2>9, TimerInv
<1>7. CASE Change(s, b, {}) /\ UNCHANGED timers
  <2>1. /\ Settled(b)
        /\ b.sel # None /\ b.sel.timer = v.sel.timer
        /\ b.sel.sessions = v.sel.sessions /\ Unlisted(b, v.run)
    BY <1>2, <1>3, SelectBodySettled
  <2>2. /\ b.from = v.from /\ b.session = v.session /\ b.todo = v.todo
        /\ b.post = v.post /\ b.state = v.state /\ b.run = v.run
        /\ b.job = v.job /\ b.lookup = v.lookup /\ b.next = v.next
    BY <1>2 DEF VM
  <2> HIDE DEF b
  <2>3. Good(s, b)
    BY <1>2, <2>1, <2>2 DEF Good, Runs, PostOK
  <2>4. Follows(v, b)
    BY <2>1, <2>2, SameDue DEF Follows, Asks
  <2> QED BY <1>1, <1>3, <1>7, <2>3, <2>4, LocalInv
<1> QED BY <1>3, <1>6, <1>7

(* The loop over a select goes on with what there is, or ends. *)
LEMMA IterateInv ==
  ASSUME Inv, UNCHANGED can, NEW s \in Users,
         Running(s, {"user"}), InSelect(vm[s]),
         \/ vm[s].sel.errors > 0 /\ Local(s, PopError(vm[s]))
         \/ \E k \in vm[s].sel.resp : Local(s, PopResponse(vm[s], k))
         \/ Local(s, Close(vm[s]))
  PROVE  Inv'
<1> DEFINE v == vm[s]
<1>1. s \in Services
  BY DEF Services
<1>2. /\ v \in VM /\ Settled(v) /\ v.run \in Thread /\ v.post = None
      /\ Unlisted(v, v.run) /\ v.job[v.run] # "free"
  BY <1>1, RunningFacts
<1>3. ASSUME NEW w, Settled(w), Unlisted(w, v.run), Follows(v, w), Local(s, w),
             w.run = v.run, w.post = v.post, w.job = v.job
      PROVE  Inv'
  <2>1. Good(s, w)
    BY <1>2, <1>3 DEF Good, Runs, PostOK
  <2> QED BY <1>1, <1>3, <2>1, LocalInv DEF Local
<1>4. CASE v.sel.errors > 0 /\ Local(s, PopError(v))
  <2>1. Settled(PopError(v)) /\ Unlisted(PopError(v), v.run)
    BY <1>2, <1>4, PopErrorSettled
  <2>2. Follows(v, PopError(v))
    BY <1>2, <1>4, PopErrorFollows
  <2>3. /\ PopError(v).run = v.run /\ PopError(v).post = v.post
        /\ PopError(v).job = v.job
    BY <1>2 DEF PopError, VM
  <2> QED BY <1>3, <1>4, <2>1, <2>2, <2>3
<1>5. CASE \E k \in v.sel.resp : Local(s, PopResponse(v, k))
  <2>1. PICK k \in v.sel.resp : Local(s, PopResponse(v, k))
    BY <1>5
  <2> DEFINE w == PopResponse(v, k)
  <2>2. Settled(w) /\ Unlisted(w, v.run)
    BY <1>2, PopResponseSettled
  <2>3. Follows(v, w)
    BY <1>2, PopResponseFollows
  <2>4. w.run = v.run /\ w.post = v.post /\ w.job = v.job
    BY <1>2 DEF PopResponse, VM
  <2> HIDE DEF w
  <2> QED BY <1>3, <2>1, <2>2, <2>3, <2>4 DEF w
<1>6. CASE Local(s, Close(v))
  <2>1. /\ Settled(Close(v)) /\ Unlisted(Close(v), v.run)
        /\ Close(v).run = v.run /\ Close(v).post = v.post /\ Close(v).job = v.job
    BY <1>2, CloseSettled
  <2>2. Follows(v, Close(v))
    BY <1>2, CloseFollows
  <2> QED BY <1>3, <1>6, <2>1, <2>2
<1> QED BY <1>4, <1>5, <1>6

LEMMA SelectNextInv ==
  ASSUME Inv, UNCHANGED can, NEW s \in Users, SelectNext(s)
  PROVE  Inv'
<1> DEFINE v == vm[s]
           c == [v EXCEPT !.waiting[Select] = v.run, !.next = @ + 1,
                          !.sel.at = "woken"]
<1>1. s \in Services /\ Running(s, {"user"}) /\ InSelect(v)
  BY DEF Services, SelectNext, Selecting
<1>2. \/ v.sel.errors > 0 /\ Local(s, PopError(v))
      \/ \E k \in v.sel.resp : Local(s, PopResponse(v, k))
      \/ Local(s, Close(v))
      \/ v.next <= MaxSession /\ Local(s, Dispatch(c))
  BY DEF SelectNext, SessionLeft
<1>3. CASE v.next <= MaxSession /\ Local(s, Dispatch(c))
  <2>1. /\ v \in VM /\ Settled(v) /\ Runs(v) /\ v.run \in Thread /\ v.post = None
    BY <1>1, RunningFacts
  <2>2. /\ Settled(c) /\ c.post = v.post /\ c.sel # None
        /\ c.sel.timer = v.sel.timer /\ c.sel.sessions = v.sel.sessions
        /\ c.lookup = v.lookup /\ c.next = v.next + 1
    BY <1>1, <1>3, <2>1, SelectWaitSettled
  <2>3. /\ c.from = v.from /\ c.session = v.session /\ c.todo = v.todo
        /\ c.state = v.state
    BY <2>1 DEF VM
  <2> HIDE DEF c
  <2>4. Good(s, Dispatch(c)) /\ Follows(c, Dispatch(c))
    BY <2>1, <2>2, DispatchGood, DispatchFollows DEF Settled
  <2>5. v.next \in Nat
    BY <2>1, VMFields, SessionAssumption
  <2>6. \A k \in Sessions : Asks(v, k) => Asks(c, k)
    BY <2>2, <2>5 DEF Asks, Sessions
  <2>7. Follows(v, c)
    BY <2>2, <2>3, <2>6, SameDue DEF Follows
  <2>8. Follows(v, Dispatch(c))
    BY <2>4, <2>7, FollowsTrans
  <2> QED BY <1>1, <1>3, <2>4, <2>8, LocalInv DEF Local
<1> HIDE DEF c
<1> QED BY <1>1, <1>2, <1>3, IterateInv

LEMMA SelectWokenInv ==
  ASSUME Inv, UNCHANGED can, NEW s \in Users, SelectWoken(s) \/ SelectClose(s)
  PROVE  Inv'
<1>1. Running(s, {"user"}) /\ InSelect(vm[s])
  BY DEF SelectWoken, SelectClose, Selecting
<1>2. \/ vm[s].sel.errors > 0 /\ Local(s, PopError(vm[s]))
      \/ \E k \in vm[s].sel.resp : Local(s, PopResponse(vm[s], k))
      \/ Local(s, Close(vm[s]))
  BY DEF SelectWoken, SelectClose
<1> QED BY <1>1, <1>2, IterateInv

-----------------------------------------------------------------------------
(* What the runtime sends for the coroutines that end badly. *)

LEMMA BeginQuitInv ==
  ASSUME Inv, UNCHANGED can, NEW s \in Services, BeginQuit(s)
  PROVE  Inv'
<1> DEFINE v == vm[s]
           t == v.run
           callers == {<<v.from[u], v.session[u]>> :
                         u \in {x \in Thread : v.from[x] # None}}
           w == [v EXCEPT !.job[v.run] = "quitting", !.todo[v.run] = callers]
<1>1. Running(s, {"quit"}) /\ Local(s, w)
  BY DEF BeginQuit
<1>2. /\ v \in VM /\ Settled(v) /\ t \in Thread /\ v.post = None
      /\ Unlisted(v, t)
  BY <1>1, RunningFacts
<1>3. /\ v.from \in [Thread -> Services \cup {None}]
      /\ v.session \in [Thread -> (0..MaxSession) \cup {Nil}]
      /\ v.job \in [Thread -> Job]
      /\ v.todo \in [Thread -> SUBSET (Services \X ((0..MaxSession) \cup {Nil}))]
  BY <1>2, VMFields
<1>4. callers \subseteq Services \X ((0..MaxSession) \cup {Nil})
  BY <1>3
<1>5. \A call \in callers : \E u \in Thread : call = <<v.from[u], v.session[u]>>
  OBVIOUS
<1> HIDE DEF callers
<1>6. /\ w \in VM /\ w.job = [v.job EXCEPT ![t] = "quitting"]
      /\ w.todo = [v.todo EXCEPT ![t] = callers]
      /\ w.lookup = v.lookup /\ w.wakeups = v.wakeups /\ w.waiting = v.waiting
      /\ w.next = v.next /\ w.sel = v.sel /\ w.run = v.run /\ w.from = v.from
      /\ w.session = v.session /\ w.post = v.post /\ w.state = v.state
  BY <1>2, <1>4 DEF VM, Job
<1> HIDE DEF w
<1>7. Unlisted(w, t) /\ w.job[t] # "free"
  BY <1>2, <1>3, <1>6 DEF Unlisted
<1>8. Tables(w) /\ SelectOK(w) /\ Rested(w) /\ JobOK(w)
  <2>1. Tables(w) /\ SelectOK(w)
    BY <1>2, <1>6 DEF Settled, Tables, SelectOK, Open
  <2>2. \A u \in Thread : w.job[u] = "free" => v.job[u] = "free"
    BY <1>2, <1>3, <1>6
  <2>3. Rested(w)
    BY <1>2, <1>6, <2>2 DEF Settled, Rested, Unlisted
  <2>4. \A u \in Thread : \/ w.job[u] = "quitting"
                          \/ w.job[u] = v.job[u] /\ w.todo[u] = v.todo[u]
    BY <1>2, <1>3, <1>6
  <2>5. JobOK(w)
    BY <1>2, <2>4 DEF Settled, JobOK
  <2> QED BY <2>1, <2>3, <2>5
<1>9. ASSUME NEW c \in Services, NEW k \in Sessions, DueVM(w, <<c, k>>)
      PROVE  DueVM(v, <<c, k>>)
  <2>1. CASE \E u \in Thread : <<c, k>> \in w.todo[u]
    <3>1. PICK u \in Thread : <<c, k>> \in w.todo[u]
      BY <2>1
    <3>2. CASE u = t
      <4>1. <<c, k>> \in callers
        BY <1>2, <1>3, <1>6, <3>1, <3>2
      <4> QED BY <1>5, <4>1 DEF DueVM
    <3>3. CASE u # t
      <4>1. <<c, k>> \in v.todo[u]
        BY <1>3, <1>6, <3>1, <3>3
      <4> QED BY <4>1 DEF DueVM
    <3> QED BY <3>2, <3>3
  <2> QED BY <1>6, <1>9, <2>1 DEF DueVM
<1>10. Follows(v, w)
  BY <1>6, <1>9, SameAsks DEF Follows
<1>11. Good(s, w)
  BY <1>2, <1>6, <1>7, <1>8 DEF Good, Settled, Runs, PostOK
<1> QED BY <1>1, <1>10, <1>11, LocalInv DEF Local

LEMMA TellInv ==
  ASSUME Inv, UNCHANGED can, NEW s \in Services, NEW call, Tell(s, call)
  PROVE  Inv'
<1> DEFINE v == vm[s]
           t == v.run
           m == Mail(call[1], "error", call[2], None, "tell")
           w == [v EXCEPT !.todo[v.run] = @ \ {call}, !.post = m]
<1>1. Running(s, {"tell", "quitting"}) /\ call \in v.todo[t]
      /\ Local(s, IF call[2] = Nil THEN Fail(v) ELSE w)
  BY DEF Tell
<1>2. /\ v \in VM /\ Settled(v) /\ t \in Thread /\ v.post = None
      /\ Unlisted(v, t) /\ v.job[t] # "free" /\ v.job[t] \in {"tell", "quitting"}
  BY <1>1, RunningFacts
<1>3. CASE call[2] = Nil
  <2>1. Good(s, Fail(v)) /\ Follows(v, Fail(v))
    BY <1>2, FailGood, FailFollows
  <2> QED BY <1>1, <1>3, <2>1, LocalInv DEF Local
<1>4. CASE call[2] # Nil
  <2>1. v.todo \in [Thread -> SUBSET (Services \X ((0..MaxSession) \cup {Nil}))]
    BY <1>2, VMFields
  <2>2. /\ call[1] \in Services /\ call[2] \in 0..MaxSession
        /\ call = <<call[1], call[2]>>
    BY <1>1, <1>2, <1>4, <2>1
  <2>3. /\ m \in Post /\ m.then = "tell" /\ m.type = "error" /\ m.report = None
        /\ m.to = call[1] /\ m.session = call[2]
    BY <2>2 DEF Mail, Post
  <2> HIDE DEF m
  <2>4. /\ w \in VM /\ w.todo = [v.todo EXCEPT ![t] = @ \ {call}]
        /\ w.lookup = v.lookup /\ w.wakeups = v.wakeups /\ w.waiting = v.waiting
        /\ w.next = v.next /\ w.sel = v.sel /\ w.run = v.run /\ w.from = v.from
        /\ w.session = v.session /\ w.post = m /\ w.state = v.state
        /\ w.job = v.job
    BY <1>2, <2>1, <2>3 DEF VM
  <2> HIDE DEF w
  <2>5. \A u \in Thread : \/ w.todo[u] = v.todo[u]
                          \/ u = t /\ w.todo[u] = v.todo[t] \ {call}
    BY <1>2, <2>1, <2>4
  <2>6. Tables(w) /\ SelectOK(w) /\ Rested(w) /\ Unlisted(w, t)
    BY <1>2, <2>4 DEF Settled, Tables, SelectOK, Open, Rested, Unlisted
  <2>7. JobOK(w)
    BY <1>2, <2>4, <2>5 DEF Settled, JobOK
  <2>8. Good(s, w)
    BY <1>2, <2>3, <2>4, <2>6, <2>7 DEF Good, Settled, Runs, PostOK
  <2>9. ASSUME NEW c \in Services, NEW k \in Sessions, DueVM(w, <<c, k>>)
        PROVE  DueVM(v, <<c, k>>)
    <3>1. CASE \E u \in Thread : <<c, k>> \in w.todo[u]
      BY <2>5, <3>1 DEF DueVM
    <3>2. CASE DuePost(m, <<c, k>>)
      <4>1. <<c, k>> = call
        BY <2>2, <2>3, <3>2, NotACall DEF DuePost
      <4> QED BY <1>1, <1>2, <4>1 DEF DueVM
    <3> QED BY <2>4, <2>9, <3>1, <3>2 DEF DueVM
  <2>10. Follows(v, w)
    BY <2>4, <2>9, SameAsks DEF Follows
  <2> QED BY <1>1, <1>4, <2>8, <2>10, LocalInv DEF Local, w, m
<1> QED BY <1>3, <1>4

LEMMA TellEndInv ==
  ASSUME Inv, UNCHANGED can, NEW s \in Services, TellEnd(s)
  PROVE  Inv'
<1> DEFINE v == vm[s]
           q == v.quit \/ v.job[v.run] = "quitting"
           w == [v EXCEPT !.quit = q]
<1>1. Running(s, {"tell", "quitting"}) /\ Local(s, End(w))
  BY DEF TellEnd
<1>2. /\ v \in VM /\ Settled(v) /\ v.run \in Thread /\ v.post = None
      /\ Unlisted(v, v.run)
  BY <1>1, RunningFacts
<1>3. /\ w \in VM
      /\ w.lookup = v.lookup /\ w.wakeups = v.wakeups /\ w.waiting = v.waiting
      /\ w.job = v.job /\ w.todo = v.todo /\ w.next = v.next /\ w.sel = v.sel
      /\ w.run = v.run /\ w.from = v.from /\ w.session = v.session
      /\ w.post = v.post /\ w.state = v.state
  <2>1. q \in BOOLEAN
    OBVIOUS
  <2> HIDE DEF q
  <2>2. w \in VM
    BY <1>2, <2>1 DEF VM
  <2>3. /\ w.lookup = v.lookup /\ w.wakeups = v.wakeups /\ w.waiting = v.waiting
        /\ w.job = v.job /\ w.todo = v.todo /\ w.next = v.next /\ w.sel = v.sel
        /\ w.run = v.run /\ w.from = v.from /\ w.session = v.session
        /\ w.post = v.post /\ w.state = v.state
    BY <1>2 DEF VM
  <2> QED BY <2>2, <2>3
<1> HIDE DEF w
<1>4. Settled(w) /\ Unlisted(w, w.run)
  BY <1>2, <1>3, SameSettled
<1>5. Good(s, End(w)) /\ Follows(w, End(w))
  BY <1>2, <1>3, <1>4, EndGood
<1>6. Follows(v, w)
  BY <1>3, SameDue, SameAsks DEF Follows
<1>7. Follows(v, End(w))
  BY <1>5, <1>6, FollowsTrans
<1> QED BY <1>1, <1>5, <1>7, LocalInv DEF Local

LEMMA ReportInv ==
  ASSUME Inv, UNCHANGED can, NEW s \in Services, Report(s)
  PROVE  Inv'
<1> DEFINE v == vm[s]
           call == CHOOSE c \in v.todo[v.run] : TRUE
           m == Mail(Root, "request", 0, call, "report")
           w == [v EXCEPT !.post = m]
<1>1. Running(s, {"report"}) /\ PostMail(s, m)
  BY DEF Report
<1>2. /\ v \in VM /\ Settled(v) /\ v.run \in Thread /\ v.post = None
      /\ v.job[v.run] = "report"
  BY <1>1, RunningFacts
<1>3. call \in Call /\ call \in v.todo[v.run]
  <2>1. PICK c \in Call : v.todo[v.run] = {c}
    BY <1>2 DEF Settled, JobOK
  <2> QED BY <2>1
<1> HIDE DEF call
<1>4. /\ m \in Post /\ m.to = Root /\ m.type = "request" /\ m.session = 0
      /\ m.report = call /\ m.then = "report"
  BY <1>3, SessionAssumption DEF Mail, Post, Services
<1> HIDE DEF m
<1>5. w.post = m /\ w.run = v.run
  BY <1>2 DEF VM
<1>6. PostOK(s, w)
  BY <1>2, <1>3, <1>4, <1>5 DEF PostOK
<1>7. \A c \in Services, k \in Sessions : DuePost(m, <<c, k>>) => DueVM(v, <<c, k>>)
  BY <1>2, <1>3, <1>4 DEF DuePost, DueVM
<1> QED BY <1>1, <1>4, <1>6, <1>7, PostInv

-----------------------------------------------------------------------------
(* The message a service has posted, and its receipt. *)

Taken(u) == [u EXCEPT !.post = None]

LEMMA TakenGood ==
  ASSUME NEW s, NEW u, Good(s, u)
  PROVE  LET v == Taken(u)
         IN  /\ v \in VM /\ Settled(v) /\ Runs(v) /\ Good(s, v) /\ Follows(u, v)
             /\ v.post = None /\ v.run = u.run /\ v.next = u.next
             /\ v.lookup = u.lookup /\ v.sel = u.sel /\ v.job = u.job
             /\ v.todo = u.todo /\ v.from = u.from /\ v.session = u.session
             /\ v.state = u.state /\ FreeThreads(v) = FreeThreads(u)
             /\ (u.run # None => Unlisted(v, u.run) /\ u.job[u.run] # "free")
<1> DEFINE v == Taken(u)
<1>1. u \in VM /\ Settled(u) /\ Runs(u)
  BY DEF Good, Settled
<1>2. /\ v \in VM
      /\ v.lookup = u.lookup /\ v.wakeups = u.wakeups /\ v.waiting = u.waiting
      /\ v.job = u.job /\ v.todo = u.todo /\ v.next = u.next /\ v.sel = u.sel
      /\ v.run = u.run /\ v.from = u.from /\ v.session = u.session
      /\ v.post = None /\ v.state = u.state
  BY <1>1 DEF VM, Taken
<1> HIDE DEF v
<1>3. /\ Settled(v) /\ \A x : Unlisted(u, x) => Unlisted(v, x)
  BY <1>1, <1>2, SameSettled
<1>4. Runs(v) /\ PostOK(s, v)
  BY <1>1, <1>2, <1>3 DEF Runs, PostOK
<1>5. Follows(u, v)
  BY <1>2, SameDue, SameAsks DEF Follows
<1>6. FreeThreads(v) = FreeThreads(u)
  BY <1>2 DEF FreeThreads
<1> QED BY <1>1, <1>2, <1>3, <1>4, <1>5, <1>6 DEF Good, Runs, v

(* What a message on its way is. *)
LEMMA PostFields ==
  ASSUME Inv, NEW s \in Services, vm[s].post # None
  PROVE  LET m == vm[s].post
         IN  /\ Good(s, vm[s]) /\ vm[s] \in VM
             /\ m \in Post /\ m.to \in Services /\ m.session \in 0..MaxSession
             /\ m.type \in {"request", "response", "error"}
             /\ m.report \in Call \cup {None}
             /\ m.then \in {"call", "send", "sleep", "timeout", "select",
                            "response", "raised", "tell", "later", "report"}
<1>1. Good(s, vm[s]) /\ vm[s] \in VM
  BY DEF Inv, TypeOK
<1>2. vm[s].post \in Post
  BY <1>1, VMFields
<1> QED BY <1>1, <1>2 DEF Post

(* The mail a message becomes in the queue of its receiver. *)
Posted(s) ==
  LET m == vm[s].post
  IN [from |-> s, session |-> m.session, type |-> m.type,
      report |-> IF m.type = "request" THEN m.report ELSE None]
Arrives(s) ==
  LET to == vm[s].post.to
  IN queue' = IF Receipt(to) = "done" THEN [queue EXCEPT ![to] = Append(@, Posted(s))]
              ELSE queue

(* The sessions that a message is about to hand out. *)
Handed == {"call", "send", "sleep", "timeout", "later", "select"}

LEMMA MailFields ==
  ASSUME Inv, NEW s \in Services, vm[s].post # None
  PROVE  LET m == vm[s].post
             mail == Posted(s)
         IN  /\ mail \in Message
             /\ m.to = Root => ForRoot(mail)
             /\ \A c \in Services, k \in Sessions :
                  DueMail(m.to, mail, <<c, k>>) =>
                    \/ DueVM(vm[s], <<c, k>>)
                    \/ c = s /\ k = m.session
                       /\ m.then \in Handed
<1> DEFINE m == vm[s].post
           mail == Posted(s)
<1>1. /\ PostOK(s, vm[s]) /\ m.session \in 0..MaxSession
      /\ m.type \in {"request", "response", "error"}
      /\ m.report \in Call \cup {None}
      /\ m.then \in {"call", "send", "sleep", "timeout", "select",
                     "response", "raised", "tell", "later", "report"}
  BY PostFields DEF Good
<1> /\ mail.from = s /\ mail.session = m.session /\ mail.type = m.type
    /\ mail.report = IF m.type = "request" THEN m.report ELSE None
  BY DEF Posted
<1>2. mail \in Message
  BY <1>1 DEF Message, Posted
<1>3. m.to = Root => ForRoot(mail)
  BY <1>1, SessionAssumption DEF PostOK, ForRoot
<1>4. ASSUME NEW c \in Services, NEW k \in Sessions, DueMail(m.to, mail, <<c, k>>)
      PROVE  \/ DueVM(vm[s], <<c, k>>)
             \/ c = s /\ k = m.session
                /\ m.then \in Handed
  <2>1. k # 0 /\ <<c, k>> # None
    BY NotACall, SessionAssumption DEF Sessions
  <2>2. CASE mail.type = "request"
    <3>1. <<c, k>> = <<s, m.session>> \/ <<c, k>> = m.report
      BY <1>4, <2>2 DEF DueMail
    <3>2. CASE <<c, k>> = m.report
      BY <3>2 DEF DueVM, DuePost
    <3>3. CASE <<c, k>> = <<s, m.session>>
      BY <1>1, <2>1, <2>2, <3>3 DEF PostOK, Handed
    <3> QED BY <3>1, <3>2, <3>3
  <2>3. CASE mail.type # "request"
    <3>1. c = m.to /\ k = m.session
      BY <1>4, <2>3 DEF DueMail
    <3>2. CASE m.then \in {"response", "raised", "tell"}
      BY <3>1, <3>2 DEF DueVM, DuePost
    <3>3. CASE m.then \notin {"response", "raised", "tell"}
      BY <1>1, <2>3, <3>1, <3>3 DEF PostOK, Handed
    <3> QED BY <3>2, <3>3
  <2> QED BY <2>2, <2>3
<1> QED BY <1>2, <1>3, <1>4

LEMMA Appended ==
  ASSUME NEW S, NEW q \in Seq(S), NEW m \in S, NEW i \in DOMAIN Append(q, m)
  PROVE  \/ i \in DOMAIN q /\ Append(q, m)[i] = q[i]
         \/ Append(q, m)[i] = m
OBVIOUS

(* What follows from a message that arrives, or not, when its sender goes on
   as w. *)
LEMMA ArrivesInv ==
  ASSUME Inv, UNCHANGED can, NEW s \in Services, vm[s].post # None,
         NEW w, Good(s, w), Follows(vm[s], w),
         NEW drop \in SUBSET Call, Change(s, w, drop), Arrives(s),
         Receipt(vm[s].post.to) = "done" /\ vm[s].post.then \in Handed
           => Asks(w, vm[s].post.session),
         \/ UNCHANGED timers
         \/ \E k \in Sessions : timers' = timers \cup {<<s, k>>} /\ Asks(w, k),
         told' \subseteq Call, aborted' \in BOOLEAN
  PROVE  Inv'
<1> DEFINE m == vm[s].post
           to == m.to
           mail == Posted(s)
<1>1. /\ m \in Post /\ to \in Services
  BY PostFields
<1>2. /\ mail \in Message
      /\ to = Root => ForRoot(mail)
      /\ \A c \in Services, k \in Sessions :
           DueMail(to, mail, <<c, k>>) =>
             DueVM(vm[s], <<c, k>>) \/ (c = s /\ k = m.session /\ m.then \in Handed)
  BY MailFields
<1>3. /\ queue \in [Services -> Seq(Message)]
      /\ \A x \in Services : Len(queue[x]) <= QueueLen
      /\ QueueLen \in Nat
      /\ RootAsked
  BY SessionAssumption DEF Inv, TypeOK
<1>4. \/ UNCHANGED queue
      \/ /\ Receipt(to) = "done" /\ Len(queue[to]) < QueueLen
         /\ queue' = [queue EXCEPT ![to] = Append(@, mail)]
  <2>1. Len(queue[to]) \in Nat
    BY <1>1, <1>3
  <2> QED BY <1>3, <2>1 DEF Arrives, Receipt
<1> HIDE DEF mail, to
<1>5. /\ queue' \in [Services -> Seq(Message)]
      /\ \A x \in Services : Len(queue'[x]) <= QueueLen
      /\ \A x \in Services :
           \/ queue'[x] = queue[x]
           \/ x = to /\ Receipt(to) = "done" /\ queue'[x] = Append(queue[x], mail)
  <2>1. CASE UNCHANGED queue
    BY <1>3, <2>1
  <2>2. CASE /\ Receipt(to) = "done" /\ Len(queue[to]) < QueueLen
             /\ queue' = [queue EXCEPT ![to] = Append(@, mail)]
    <3>1. Append(queue[to], mail) \in Seq(Message)
          /\ Len(Append(queue[to], mail)) <= QueueLen
      BY <1>1, <1>2, <1>3, <2>2 DEF to
    <3> QED BY <1>1, <1>3, <2>2, <3>1 DEF to
  <2> QED BY <1>4, <2>1, <2>2
<1>6. \A x \in Services : \A i \in DOMAIN queue'[x] :
        \/ i \in DOMAIN queue[x] /\ queue'[x][i] = queue[x][i]
        \/ x = to /\ Receipt(to) = "done" /\ queue'[x][i] = mail
  <2> TAKE x \in Services
  <2> TAKE i \in DOMAIN queue'[x]
  <2>1. queue[x] \in Seq(Message)
    BY <1>3
  <2>2. CASE queue'[x] = queue[x]
    BY <2>2
  <2>3. CASE x = to /\ Receipt(to) = "done" /\ queue'[x] = Append(queue[x], mail)
    BY <1>2, <2>1, <2>3, Appended
  <2> QED BY <1>5, <2>2, <2>3
<1>7. RootAsked'
  <2>1. Root \in Services
    BY DEF Services
  <2> QED BY <1>2, <1>3, <1>6, <2>1 DEF RootAsked
<1>8. ASSUME NEW c \in Services, NEW k \in Sessions, DueOut(<<c, k>>)'
      PROVE  Due(<<c, k>>) \/ (c = s /\ Asks(w, k))
  <2>1. CASE <<c, k>> \in timers'
    BY <2>1 DEF Due, DueOut
  <2>2. CASE (\E x \in Services : DueQueue(queue[x], x, <<c, k>>))'
    <3>1. PICK x \in Services : \E i \in DOMAIN queue'[x] :
                DueMail(x, queue'[x][i], <<c, k>>)
      BY <2>2 DEF DueQueue
    <3>2. PICK i \in DOMAIN queue'[x] : DueMail(x, queue'[x][i], <<c, k>>)
      BY <3>1
    <3>3. CASE i \in DOMAIN queue[x] /\ queue'[x][i] = queue[x][i]
      BY <3>2, <3>3 DEF Due, DueOut, DueQueue
    <3>4. CASE x = to /\ Receipt(to) = "done" /\ queue'[x][i] = mail
      <4>1. DueVM(vm[s], <<c, k>>) \/ (c = s /\ k = m.session /\ m.then \in Handed)
        BY <1>2, <3>2, <3>4
      <4> QED BY <3>4, <4>1 DEF Due, to
    <3> QED BY <1>6, <3>3, <3>4
  <2> QED BY <1>8, <2>1, <2>2 DEF DueOut
<1>9. \A c \in Services, k \in Sessions :
        DueVM(w, <<c, k>>) => Due(<<c, k>>) \/ (c = s /\ Asks(w, k))
  BY DEF Follows, Due
<1>10. w.state = "live" =>
         vm[s].state = "live" /\ \A k \in Sessions : Asks(vm[s], k) => Asks(w, k)
  BY DEF Follows
<1>11. /\ vm' \in [Services -> VM] /\ lost' \subseteq Call
       /\ \A x \in Services : Good(x, vm[x])'
       /\ Asked'
  BY <1>8, <1>9, <1>10, ChangeInv
<1>12. TypeOK'
  BY <1>5, <1>11 DEF Inv, TypeOK
<1> QED BY <1>7, <1>11, <1>12 DEF Inv

(* A coroutine for session `next' that begins when it is answered: a timeout,
   or report_error. *)
LEMMA LaterGood ==
  ASSUME NEW s, NEW v, Settled(v), Runs(v), v.run \in Thread, v.post = None,
         v.next <= MaxSession, FreeThreads(v) # {},
         NEW job \in {"user", "report"},
         NEW todo \in SUBSET Call, job = "report" => \E call \in Call : todo = {call}
  PROVE  LET c == Create(v, NewThread(v), job, None, Nil, todo)
             w == Suspend(c, NewThread(v))
         IN  /\ Good(s, w)
             /\ Asks(w, v.next)
             /\ \A k \in Sessions : Asks(v, k) => Asks(w, k)
             /\ \A call : DueVM(w, call) =>
                  DueVM(Create(v, NewThread(v), job, None, Nil, todo), call)
             /\ w.state = v.state
<1> DEFINE t == NewThread(v)
           c == Create(v, t, job, None, Nil, todo)
           w == Suspend(c, t)
<1>1. v \in VM /\ t \in Thread /\ v.job[t] = "free" /\ Rested(v)
  BY NewThreadFree DEF Settled
<1>2. Unlisted(v, t) /\ t # v.run /\ Unlisted(v, v.run) /\ v.job[v.run] # "free"
  BY <1>1, NilAssumption DEF Rested, Runs
<1>3. /\ job \in Job /\ None \in Services \cup {None}
      /\ Nil \in (0..MaxSession) \cup {Nil}
      /\ todo \in SUBSET (Services \X ((0..MaxSession) \cup {Nil}))
  BY DEF Job, Call
<1>4. /\ Settled(c) /\ \A u : Unlisted(v, u) => Unlisted(c, u)
  BY <1>1, <1>3, CreateSettled
<1>5. /\ c \in VM /\ c.job = [v.job EXCEPT ![t] = job] /\ c.run = v.run
      /\ c.next = v.next /\ c.lookup = v.lookup /\ c.sel = v.sel
      /\ c.post = v.post /\ c.state = v.state
  BY <1>1, <1>3 DEF Create, VM
<1>6. v.job \in [Thread -> Job] /\ v.next \in 1..(MaxSession + 1)
      /\ v.lookup \in [0..MaxSession -> Sleepers] /\ MaxSession \in Nat
  BY <1>1, VMFields, SessionAssumption
<1> HIDE DEF t, c
<1>7. c.job[t] # "free" /\ c.job[v.run] # "free"
  BY <1>1, <1>2, <1>5, <1>6
<1>8. t \in Sleepers /\ t # Select
  BY <1>1, NilAssumption DEF Sleepers
<1>9. Settled(w) /\ Unlisted(w, v.run)
  BY <1>2, <1>4, <1>5, <1>7, <1>8, SuspendSettled
<1>10. /\ w.lookup = [c.lookup EXCEPT ![c.next] = t] /\ w.next = c.next + 1
       /\ w.job = c.job /\ w.run = c.run /\ w.post = c.post
       /\ w.state = c.state /\ w.sel = c.sel
  BY <1>5, <1>8, SuspendFields
<1>11. Follows(c, w)
  BY <1>5, <1>8, SuspendFollows
<1>12. \A call : DueVM(w, call) => DueVM(c, call)
  <2>1. w.from = c.from /\ w.session = c.session /\ w.todo = c.todo
    BY <1>5, <1>8, SuspendFields
  <2> QED BY <1>10, <2>1, SameDue
<1> HIDE DEF w
<1>13. Good(s, w)
  BY <1>5, <1>7, <1>9, <1>10 DEF Good, Runs, PostOK
<1>14. Asks(w, v.next)
  <2>1. w.lookup[v.next] = t
    BY <1>5, <1>6, <1>10
  <2> QED BY <1>5, <1>6, <1>8, <1>10, <2>1 DEF Asks
<1>15. \A k \in Sessions : Asks(v, k) => Asks(w, k)
  BY <1>5, <1>11, SameAsks DEF Follows
<1> QED BY <1>5, <1>10, <1>12, <1>13, <1>14, <1>15 DEF w, c, t

LEMMA SentInv ==
  ASSUME Inv, UNCHANGED can, NEW s \in Services, vm[s].post # None, Arrives(s),
         Sent(s, Taken(vm[s]), vm[s].post, Receipt(vm[s].post.to)),
         UNCHANGED <<timers, told, aborted>>
  PROVE  Inv'
<1> DEFINE u == vm[s]
           m == vm[s].post
           r == Receipt(vm[s].post.to)
           v == Taken(vm[s])
<1>1. /\ Good(s, u) /\ PostOK(s, u)
      /\ m.to \in Services /\ m.session \in 0..MaxSession
  BY PostFields DEF Good
<1>2. /\ v \in VM /\ Settled(v) /\ Runs(v) /\ Good(s, v) /\ Follows(u, v)
      /\ v.post = None /\ v.run = u.run /\ v.next = u.next
      /\ v.lookup = u.lookup /\ v.sel = u.sel /\ v.job = u.job
      /\ v.state = u.state /\ FreeThreads(v) = FreeThreads(u)
      /\ (u.run # None => Unlisted(v, u.run) /\ u.job[u.run] # "free")
  BY <1>1, TakenGood
<1>3. Sent(s, v, m, r)
  OBVIOUS
<1>4. told \subseteq Call /\ aborted \in BOOLEAN
  BY DEF Inv, TypeOK
<1>5. ASSUME NEW w, Good(s, w), Follows(v, w), NEW drop \in SUBSET Call,
             Change(s, w, drop),
             r = "done" /\ m.then \in Handed => Asks(w, m.session)
      PROVE  Inv'
  <2>1. Follows(u, w)
    BY <1>2, <1>5, FollowsTrans
  <2> QED BY <1>4, <1>5, <2>1, ArrivesInv
<1> HIDE DEF v, m, r
<1>6. {} \in SUBSET Call /\ Follows(v, v)
  BY DEF Follows
<1>7. CASE m.then \in {"call", "sleep"}
  <2>1. Change(s, IF r = "done" THEN Dispatch(Suspend(v, v.run)) ELSE v, {})
    BY <1>3, <1>7 DEF Sent
  <2>2. m.session = v.next /\ v.next <= MaxSession /\ v.run \in Thread
    BY <1>1, <1>2, <1>7 DEF PostOK, m
  <2>3. CASE r = "done"
    <3>1. /\ Good(s, Dispatch(Suspend(v, v.run)))
          /\ Follows(v, Dispatch(Suspend(v, v.run)))
          /\ Asks(Dispatch(Suspend(v, v.run)), v.next)
      BY <1>2, <2>2, SuspendRun
    <3>2. Change(s, Dispatch(Suspend(v, v.run)), {})
      BY <2>1, <2>3
    <3> QED BY <1>5, <1>6, <2>2, <3>1, <3>2
  <2>4. CASE r # "done"
    BY <1>2, <1>5, <1>6, <2>1, <2>4
  <2> QED BY <2>3, <2>4
<1>8. CASE m.then = "send"
  <2> DEFINE w == Suspend(v, Ignore)
  <2>1. Change(s, IF r = "done" THEN w ELSE v, {})
    BY <1>3, <1>8 DEF Sent
  <2>2. m.session = v.next /\ v.next <= MaxSession /\ v.run \in Thread
    BY <1>1, <1>2, <1>8 DEF PostOK, m
  <2>3. Ignore \in Sleepers /\ Ignore \notin Thread /\ Ignore # Select
    BY NilAssumption DEF Sleepers
  <2>4. Settled(w) /\ Unlisted(w, v.run) /\ Follows(v, w)
    BY <1>2, <2>2, <2>3, SuspendSettled, SuspendFollows, NilAssumption
  <2>5. /\ w.lookup = [v.lookup EXCEPT ![v.next] = Ignore] /\ w.next = v.next + 1
        /\ w.job = v.job /\ w.run = v.run /\ w.post = v.post
    BY <1>2, <2>2, <2>3, SuspendFields
  <2> HIDE DEF w
  <2>6. Good(s, w)
    BY <1>2, <2>2, <2>4, <2>5, NilAssumption DEF Good, Runs, PostOK
  <2>7. Asks(w, m.session)
    <3>1. v.lookup \in [0..MaxSession -> Sleepers]
      BY <1>2, VMFields
    <3>2. v.next < v.next + 1
      BY <1>1, <2>2
    <3>3. w.lookup[m.session] = Ignore
      BY <1>1, <2>2, <2>5, <3>1 DEF m
    <3> QED BY <2>2, <2>3, <2>5, <3>2, <3>3 DEF Asks
  <2> QED BY <1>2, <1>5, <1>6, <2>1, <2>4, <2>6, <2>7
<1>9. CASE m.then = "timeout"
  <2> DEFINE c == Create(v, NewThread(v), "user", None, Nil, {})
             w == Suspend(c, NewThread(v))
  <2>1. Change(s, IF r = "done" THEN w ELSE v, {})
    BY <1>3, <1>9 DEF Sent
  <2>2. m.session = v.next /\ v.next <= MaxSession /\ v.run \in Thread
        /\ FreeThreads(v) # {}
    BY <1>1, <1>2, <1>9 DEF PostOK, m
  <2>3. /\ Good(s, w) /\ Asks(w, v.next) /\ w.state = v.state
        /\ \A k \in Sessions : Asks(v, k) => Asks(w, k)
        /\ \A call : DueVM(w, call) => DueVM(c, call)
    BY <1>2, <2>2, LaterGood
  <2>4. Follows(v, c)
    BY <1>2, <2>2, NewThreadFree, CreateFollows
  <2> HIDE DEF w, c
  <2>5. Follows(v, w)
    BY <2>3, <2>4 DEF Follows
  <2> QED BY <1>2, <1>5, <1>6, <2>1, <2>2, <2>3, <2>5
<1>10. CASE m.then = "select"
  <2> DEFINE k == m.session
             w == [v EXCEPT !.sel.sessions = @ \cup {m.session},
                            !.sel.request = @ + 1]
             x == [v EXCEPT !.sel.errors = @ + 1]
  <2>1. Change(s, CASE r = "done" -> w [] r = "error" -> x
                    [] r = "block" -> Abandon(v), {})
    BY <1>3, <1>10 DEF Sent
  <2>2. /\ k = v.next - 1 /\ k \in Sessions /\ v.lookup[k] = Select
        /\ v.sel # None /\ k \notin v.sel.sessions /\ k # v.sel.timer
        /\ v.run \in Thread
    BY <1>1, <1>2, <1>10 DEF PostOK, m
  <2>3. r \in {"done", "error", "block"}
    BY DEF Receipt, r
  <2>4. Unlisted(v, v.run) /\ v.job[v.run] # "free" /\ v.next \in Nat
    BY <1>2, <2>2, VMFields, NilAssumption
  <2>5. CASE r = "done"
    <3>1. /\ Settled(w) /\ w.next = v.next /\ w.lookup = v.lookup
          /\ w.sel.sessions = v.sel.sessions \cup {k} /\ w.sel.timer = v.sel.timer
          /\ w.sel # None
          /\ \A t : Unlisted(v, t) => Unlisted(w, t)
      BY <1>2, <2>2, SelectTakenSettled
    <3>2. /\ w.from = v.from /\ w.session = v.session /\ w.todo = v.todo
          /\ w.post = v.post /\ w.state = v.state /\ w.run = v.run
          /\ w.job = v.job
      BY <1>2 DEF VM
    <3>3. Change(s, w, {})
      BY <2>1, <2>5
    <3> HIDE DEF w
    <3>4. Good(s, w)
      BY <1>2, <2>4, <3>1, <3>2 DEF Good, Runs, PostOK
    <3>5. Follows(v, w)
      BY <3>1, <3>2, SameDue DEF Follows, Asks
    <3>6. Asks(w, k)
      BY <2>2, <2>4, <3>1 DEF Asks
    <3> QED BY <1>5, <1>6, <3>3, <3>4, <3>5, <3>6
  <2>6. CASE r = "error"
    <3>1. /\ Settled(x) /\ x.next = v.next /\ x.lookup = v.lookup
          /\ x.sel.sessions = v.sel.sessions /\ x.sel.timer = v.sel.timer
          /\ x.sel # None
          /\ \A t : Unlisted(v, t) => Unlisted(x, t)
      BY <1>2, <2>2, SelectRefusedSettled
    <3>2. /\ x.from = v.from /\ x.session = v.session /\ x.todo = v.todo
          /\ x.post = v.post /\ x.state = v.state /\ x.run = v.run
          /\ x.job = v.job
      BY <1>2 DEF VM
    <3>3. Change(s, x, {})
      BY <2>1, <2>6
    <3> HIDE DEF x
    <3>4. Good(s, x)
      BY <1>2, <2>4, <3>1, <3>2 DEF Good, Runs, PostOK
    <3>5. Follows(v, x)
      BY <3>1, <3>2, SameDue DEF Follows, Asks
    <3> QED BY <1>5, <1>6, <2>6, <3>3, <3>4, <3>5
  <2>7. CASE r = "block"
    <3>1. /\ Settled(Abandon(v)) /\ Unlisted(Abandon(v), v.run)
          /\ Abandon(v).run = v.run /\ Abandon(v).post = v.post
          /\ Abandon(v).job = v.job
      BY <1>2, <2>2, <2>4, AbandonSettled
    <3>2. Good(s, Abandon(v))
      BY <1>2, <2>4, <3>1 DEF Good, Runs, PostOK
    <3>3. Follows(v, Abandon(v))
      BY <1>2, AbandonFollows
    <3>4. Change(s, Abandon(v), {})
      BY <2>1, <2>7
    <3> QED BY <1>5, <1>6, <2>7, <3>2, <3>3, <3>4
  <2> QED BY <2>3, <2>5, <2>6, <2>7
<1>11. CASE m.then = "response"
  <2> DEFINE drop == IF r = "block" THEN {<<m.to, m.session>>} \ told ELSE {}
  <2>1. Change(s, End(v), drop)
    BY <1>3, <1>11 DEF Sent
  <2>2. drop \in SUBSET Call
    BY <1>1 DEF Call, m
  <2>3. v.run \in Thread
    BY <1>1, <1>2, <1>11 DEF PostOK, m
  <2>4. Good(s, End(v)) /\ Follows(v, End(v))
    BY <1>2, <2>3, EndGood, NilAssumption DEF Runs
  <2> HIDE DEF drop
  <2> QED BY <1>5, <1>11, <2>1, <2>2, <2>4 DEF Handed
<1>12. m.then \in {"call", "send", "sleep", "timeout", "select", "response"}
  BY <1>3 DEF Sent
<1> QED BY <1>7, <1>8, <1>9, <1>10, <1>11, <1>12

LEMMA ToldInv ==
  ASSUME Inv, UNCHANGED can, NEW s \in Services, vm[s].post # None, Arrives(s),
         Told(s, Taken(vm[s]), vm[s].post, Receipt(vm[s].post.to))
  PROVE  Inv'
<1> DEFINE u == vm[s]
           m == vm[s].post
           r == Receipt(vm[s].post.to)
           v == Taken(vm[s])
           t == v.run
           call == IF m.report = None THEN <<m.to, m.session>> ELSE m.report
<1>1. /\ Good(s, u) /\ PostOK(s, u)
      /\ m.to \in Services /\ m.session \in 0..MaxSession
      /\ m.report \in Call \cup {None}
  BY PostFields DEF Good
<1>2. /\ v \in VM /\ Settled(v) /\ Runs(v) /\ Good(s, v) /\ Follows(u, v)
      /\ v.post = None /\ v.run = u.run /\ v.next = u.next
      /\ v.lookup = u.lookup /\ v.sel = u.sel /\ v.job = u.job
      /\ v.from = u.from /\ v.session = u.session /\ v.todo = u.todo
      /\ v.state = u.state /\ FreeThreads(v) = FreeThreads(u)
      /\ (u.run # None => Unlisted(v, u.run) /\ u.job[u.run] # "free")
  BY <1>1, TakenGood
<1>3. Told(s, v, m, r)
  OBVIOUS
<1>4. told \subseteq Call /\ aborted \in BOOLEAN
  BY DEF Inv, TypeOK
<1>5. call \in Call
  BY <1>1 DEF Call
<1>6. ASSUME NEW w, Good(s, w), Follows(u, w), NEW drop \in SUBSET Call,
             Change(s, w, drop),
             r = "done" /\ m.then \in Handed => Asks(w, m.session),
             \/ UNCHANGED timers
             \/ \E k \in Sessions : timers' = timers \cup {<<s, k>>} /\ Asks(w, k),
             told' \subseteq Call, aborted' \in BOOLEAN
      PROVE  Inv'
  BY <1>6, ArrivesInv
<1>7. (r = "done" => r # "block") /\ {} \in SUBSET Call
  OBVIOUS
<1>8. CASE m.then = "raised"
  <2>1. /\ Change(s, IF r = "block" THEN v ELSE Dispatch(v), {})
        /\ aborted' = (r = "block") /\ UNCHANGED <<timers, told>>
    BY <1>3, <1>8 DEF Told
  <2>2. Good(s, Dispatch(v)) /\ Follows(v, Dispatch(v))
    BY <1>2, DispatchGood, DispatchFollows
  <2>3. Follows(u, Dispatch(v))
    BY <1>2, <2>2, FollowsTrans
  <2>4. m.then \notin Handed
    BY <1>8 DEF Handed
  <2>5. told' \subseteq Call /\ aborted' \in BOOLEAN
    BY <1>4, <2>1
  <2> HIDE DEF v, m, r
  <2>6. CASE r = "block"
    BY <1>2, <1>6, <1>7, <2>1, <2>4, <2>5, <2>6
  <2>7. CASE r # "block"
    BY <1>6, <1>7, <2>1, <2>2, <2>3, <2>4, <2>5, <2>7
  <2> QED BY <2>6, <2>7
<1>9. CASE m.then = "tell"
  <2> DEFINE p == Mail(s, "response", v.next, call, "later")
             w == [v EXCEPT !.post = p]
  <2>1. /\ r = "block" => v.next <= MaxSession /\ FreeThreads(v) # {}
        /\ Change(s, IF r # "block" THEN v ELSE w, {})
        /\ told' = (IF r = "done" /\ v.job[t] = "quitting" THEN told \cup {call} ELSE told)
        /\ UNCHANGED <<timers, aborted>>
    BY <1>3, <1>9 DEF Told, SessionLeft
  <2>2. t \in Thread /\ m.report = None
    BY <1>1, <1>2, <1>9 DEF PostOK
  <2>3. call = <<m.to, m.session>>
    BY <2>2
  <2>4. told' \subseteq Call /\ aborted' \in BOOLEAN
    BY <1>4, <1>5, <2>1
  <2>5. m.then \notin Handed
    BY <1>9 DEF Handed
  <2>6. \A b : b = call => DueVM(u, b)
    BY <1>9, <2>3 DEF DueVM, DuePost
  <2> HIDE DEF v, m, r, call, u
  <2>7. CASE r # "block"
    BY <1>2, <1>6, <1>7, <2>1, <2>4, <2>5, <2>7
  <2>8. CASE r = "block"
    <3>1. v.next \in 0..MaxSession
      BY <1>2, <2>1, <2>8, VMFields, SessionAssumption
    <3>2. /\ p \in Post /\ p.to = s /\ p.type = "response" /\ p.session = v.next
          /\ p.report = call /\ p.then = "later"
      BY <1>5, <3>1 DEF Mail, Post
    <3> HIDE DEF p
    <3>3. /\ w \in VM /\ w.post = p
          /\ w.lookup = v.lookup /\ w.wakeups = v.wakeups /\ w.waiting = v.waiting
          /\ w.job = v.job /\ w.todo = v.todo /\ w.next = v.next /\ w.sel = v.sel
          /\ w.run = v.run /\ w.from = v.from /\ w.session = v.session
          /\ w.state = v.state
      BY <1>2, <3>2 DEF VM
    <3> HIDE DEF w
    <3>4. Settled(w) /\ \A x : Unlisted(v, x) => Unlisted(w, x)
      BY <1>2, <3>3, SameSettled
    <3>5. FreeThreads(w) # {} /\ w.next <= MaxSession
      BY <2>1, <2>8, <3>3 DEF FreeThreads
    <3>6. PostOK(s, w)
      BY <1>5, <2>2, <3>2, <3>3, <3>5 DEF PostOK, t
    <3>7. Good(s, w)
      BY <1>2, <3>3, <3>4, <3>6 DEF Good, Runs
    <3>8. ASSUME NEW c \in Services, NEW k \in Sessions, DueVM(w, <<c, k>>)
          PROVE  DueVM(u, <<c, k>>)
      <4>1. CASE DueVM(v, <<c, k>>)
        BY <1>2, <4>1 DEF Follows
      <4>2. CASE DuePost(p, <<c, k>>)
        BY <2>6, <3>2, <4>2 DEF DuePost
      <4> QED BY <3>3, <3>8, <4>1, <4>2 DEF DueVM
    <3>9. Follows(u, w)
      <4>1. \A k \in Sessions : Asks(v, k) => Asks(w, k)
        BY <3>3, SameAsks
      <4> QED BY <1>2, <3>3, <3>8, <4>1 DEF Follows
    <3>10. Change(s, w, {})
      BY <2>1, <2>8
    <3> QED BY <1>6, <1>7, <2>1, <2>4, <2>5, <3>7, <3>9, <3>10
  <2> QED BY <2>7, <2>8
<1>10. CASE m.then = "later"
  <2> DEFINE c == Create(v, NewThread(v), "report", None, Nil, {call})
             w == Suspend(c, NewThread(v))
             drop == IF v.job[t] = "tell" THEN {call} \cup v.todo[t] ELSE {}
  <2>1. /\ IF r = "done" THEN Change(s, w, {}) ELSE Change(s, Fail(v), drop)
        /\ told' = (IF r = "done" /\ v.job[t] = "quitting" THEN told \cup {call} ELSE told)
        /\ UNCHANGED <<timers, aborted>>
    BY <1>3, <1>10 DEF Told
  <2>2. /\ t \in Thread /\ m.report = call /\ FreeThreads(v) # {}
        /\ m.session = v.next /\ v.next <= MaxSession
    BY <1>1, <1>2, <1>10, NilAssumption DEF PostOK
  <2>3. told' \subseteq Call /\ aborted' \in BOOLEAN
    BY <1>4, <1>5, <2>1
  <2>4. \A b : b = call => DueVM(u, b)
    BY <1>1, <2>2, NilAssumption DEF DueVM, DuePost
  <2>5. Unlisted(v, t)
    BY <1>2, <2>2, NilAssumption
  <2> HIDE DEF v, m, r, call, u
  <2>6. CASE r = "done"
    <3>1. {call} \in SUBSET Call /\ \E b \in Call : {call} = {b}
      BY <1>5
    <3>2. /\ Good(s, w) /\ Asks(w, v.next) /\ w.state = v.state
          /\ \A k \in Sessions : Asks(v, k) => Asks(w, k)
          /\ \A b : DueVM(w, b) => DueVM(c, b)
      BY <1>2, <2>2, <3>1, LaterGood
    <3>3. \A b : DueVM(c, b) => DueVM(Create(v, NewThread(v), "report", None, Nil, {}), b) \/ b = call
      <4>1. NewThread(v) \in Thread
        BY <2>2, NewThreadFree
      <4>2. v.todo \in [Thread -> SUBSET (Services \X ((0..MaxSession) \cup {Nil}))]
        BY <1>2, VMFields
      <4> DEFINE e == Create(v, NewThread(v), "report", None, Nil, {})
      <4>3. /\ c.from = e.from /\ c.session = e.session /\ c.post = e.post
            /\ c.todo = [v.todo EXCEPT ![NewThread(v)] = {call}]
            /\ e.todo = [v.todo EXCEPT ![NewThread(v)] = {}]
        BY <1>2 DEF Create, VM
      <4> HIDE DEF e, c
      <4>4. \A x \in Thread : c.todo[x] = e.todo[x] \/ c.todo[x] = {call}
        BY <4>1, <4>2, <4>3
      <4> QED BY <4>3, <4>4 DEF DueVM, e
    <3>4. Follows(v, Create(v, NewThread(v), "report", None, Nil, {}))
      BY <1>2, <2>2, NewThreadFree, CreateFollows
    <3> HIDE DEF w, c
    <3>5. Follows(u, w)
      BY <1>2, <2>4, <3>2, <3>3, <3>4 DEF Follows
    <3>6. Change(s, w, {})
      BY <2>1, <2>6
    <3> QED BY <1>6, <1>7, <2>1, <2>2, <2>3, <3>2, <3>5, <3>6
  <2>7. CASE r # "done"
    <3>1. Good(s, Fail(v)) /\ Follows(v, Fail(v))
      BY <1>2, <2>2, <2>5, FailGood, FailFollows DEF t
    <3>2. Follows(u, Fail(v))
      BY <1>2, <3>1, FollowsTrans
    <3>3. drop \in SUBSET Call
      BY <1>2, <1>5, <2>2 DEF Settled, JobOK
    <3>4. Change(s, Fail(v), drop)
      BY <2>1, <2>7
    <3> HIDE DEF drop
    <3> QED BY <1>6, <2>1, <2>3, <2>7, <3>1, <3>2, <3>3, <3>4
  <2> QED BY <2>6, <2>7
<1>11. CASE m.then = "report"
  <2> DEFINE w == Dispatch(Suspend(v, t))
             drop == IF r = "error" THEN {call} ELSE {}
  <2>1. /\ r = "block" => v.next <= MaxSession
        /\ Change(s, IF r = "block" THEN w ELSE End(v), drop)
        /\ timers' = (IF r = "block" THEN timers \cup {<<s, v.next>>} ELSE timers)
        /\ UNCHANGED <<told, aborted>>
    BY <1>3, <1>11 DEF Told, SessionLeft
  <2>2. t \in Thread
    BY <1>1, <1>2, <1>11 DEF PostOK
  <2>3. told' \subseteq Call /\ aborted' \in BOOLEAN
    BY <1>4, <2>1
  <2>4. m.then \notin Handed
    BY <1>11 DEF Handed
  <2>5. Unlisted(v, t)
    BY <1>2, <2>2, NilAssumption
  <2>6. drop \in SUBSET Call
    BY <1>5
  <2> HIDE DEF v, m, r, call, u, drop
  <2>7. CASE r = "block"
    <3>1. Good(s, w) /\ Follows(v, w) /\ Asks(w, v.next)
      BY <1>2, <2>1, <2>2, <2>7, SuspendRun DEF t
    <3>2. v.next \in Sessions
      BY <1>2, <2>1, <2>7, VMFields, SessionAssumption DEF Sessions
    <3>3. Follows(u, w)
      BY <1>2, <3>1, FollowsTrans
    <3>4. Change(s, w, drop) /\ timers' = timers \cup {<<s, v.next>>}
      BY <2>1, <2>7
    <3> HIDE DEF w
    <3> QED BY <1>6, <2>3, <2>4, <2>6, <3>1, <3>2, <3>3, <3>4
  <2>8. CASE r # "block"
    <3>1. Good(s, End(v)) /\ Follows(v, End(v))
      BY <1>2, <2>2, <2>5, EndGood DEF t
    <3>2. Follows(u, End(v))
      BY <1>2, <3>1, FollowsTrans
    <3>3. Change(s, End(v), drop) /\ UNCHANGED timers
      BY <2>1, <2>8
    <3> QED BY <1>6, <2>3, <2>4, <2>6, <3>1, <3>2, <3>3
  <2> QED BY <2>7, <2>8
<1>12. m.then \in {"raised", "tell", "later", "report"}
  BY <1>3 DEF Told
<1> QED BY <1>8, <1>9, <1>10, <1>11, <1>12

LEMMA DeliverInv ==
  ASSUME Inv, UNCHANGED can, NEW s \in Services, Deliver(s)
  PROVE  Inv'
<1>1. vm[s].post # None /\ Arrives(s)
  BY DEF Deliver, Arrives, Posted
<1>2. \/ /\ Sent(s, Taken(vm[s]), vm[s].post, Receipt(vm[s].post.to))
         /\ UNCHANGED <<timers, told, aborted>>
      \/ Told(s, Taken(vm[s]), vm[s].post, Receipt(vm[s].post.to))
  BY DEF Deliver, Taken
<1> QED BY <1>1, <1>2, SentInv, ToldInv

-----------------------------------------------------------------------------
(* A service takes the next message of its queue. *)

(* A coroutine that is free begins. *)
Begin(v, job, from, session, todo) ==
  [Create(v, NewThread(v), job, from, session, todo) EXCEPT !.run = NewThread(v)]

LEMMA BeginGood ==
  ASSUME NEW s, NEW v, Settled(v), v.post = None, FreeThreads(v) # {},
         NEW job \in {"user", "tell"}, NEW from \in Services \cup {None},
         NEW session \in (0..MaxSession) \cup {Nil}, NEW todo \in SUBSET Call
  PROVE  LET w == Begin(v, job, from, session, todo)
         IN  /\ Good(s, w)
             /\ \A k \in Sessions : Asks(v, k) => Asks(w, k)
             /\ \A call : DueVM(w, call) =>
                  DueVM(v, call) \/ call = <<from, session>> \/ call \in todo
<1> DEFINE t == NewThread(v)
           c == Create(v, t, job, from, session, todo)
           w == [c EXCEPT !.run = t]
<1>1. v \in VM /\ t \in Thread /\ v.job[t] = "free" /\ Unlisted(v, t)
  BY NewThreadFree DEF Settled, Rested
<1>2. /\ job \in Job
      /\ todo \in SUBSET (Services \X ((0..MaxSession) \cup {Nil}))
  BY DEF Job, Call
<1>3. /\ Settled(c) /\ \A u : Unlisted(v, u) => Unlisted(c, u)
  BY <1>1, <1>2, CreateSettled
<1>4. LET d == Create(v, t, job, from, session, todo)
      IN  /\ d \in VM /\ d.job = [v.job EXCEPT ![t] = job]
          /\ d.from = [v.from EXCEPT ![t] = from]
          /\ d.session = [v.session EXCEPT ![t] = session]
          /\ d.todo = [v.todo EXCEPT ![t] = todo]
          /\ d.lookup = v.lookup /\ d.next = v.next /\ d.sel = v.sel
          /\ d.post = v.post /\ d.state = v.state
  BY <1>1, <1>2, CreateFields
<1>5. /\ v.job \in [Thread -> Job]
      /\ v.from \in [Thread -> Services \cup {None}]
      /\ v.session \in [Thread -> (0..MaxSession) \cup {Nil}]
      /\ v.todo \in [Thread -> SUBSET (Services \X ((0..MaxSession) \cup {Nil}))]
  BY <1>1, VMFields
<1> HIDE DEF t, c
<1>6. c \in VM /\ c.job[t] = job
  BY <1>1, <1>4, <1>5 DEF c
<1>7. /\ w \in VM /\ w.run = t
      /\ w.lookup = c.lookup /\ w.wakeups = c.wakeups /\ w.waiting = c.waiting
      /\ w.job = c.job /\ w.todo = c.todo /\ w.next = c.next /\ w.sel = c.sel
      /\ w.from = c.from /\ w.session = c.session /\ w.post = c.post
      /\ w.state = c.state
  <2>1. w \in VM
    BY <1>1, <1>6, RunVM
  <2>2. /\ w.run = t
        /\ w.lookup = c.lookup /\ w.wakeups = c.wakeups /\ w.waiting = c.waiting
        /\ w.job = c.job /\ w.todo = c.todo /\ w.next = c.next /\ w.sel = c.sel
        /\ w.from = c.from /\ w.session = c.session /\ w.post = c.post
        /\ w.state = c.state
    BY <1>6 DEF VM
  <2> QED BY <2>1, <2>2
<1> HIDE DEF w
<1>8. Settled(w) /\ Unlisted(w, t)
  BY <1>1, <1>3, <1>7, SameSettled
<1>9. Good(s, w)
  BY <1>4, <1>6, <1>7, <1>8 DEF Good, Runs, PostOK, c
<1>10. \A k \in Sessions : Asks(v, k) => Asks(w, k)
  BY <1>4, <1>7, SameAsks DEF c
<1>11. \A u \in Thread :
         /\ <<w.from[u], w.session[u]>> \in {<<v.from[u], v.session[u]>>, <<from, session>>}
         /\ w.todo[u] \in {v.todo[u], todo}
  <2> TAKE u \in Thread
  <2>1. CASE u = t
    BY <1>1, <1>4, <1>5, <1>7, <2>1 DEF c
  <2>2. CASE u # t
    BY <1>4, <1>5, <1>7, <2>2 DEF c
  <2> QED BY <2>1, <2>2
<1>12. w.post = v.post /\ w.state = v.state
  BY <1>4, <1>7 DEF c
<1>13. ASSUME NEW call, DueVM(w, call)
       PROVE  DueVM(v, call) \/ call = <<from, session>> \/ call \in todo
  BY <1>11, <1>12, <1>13 DEF DueVM
<1> QED BY <1>9, <1>10, <1>12, <1>13 DEF Begin, w, c, t

LEMMA TailElements ==
  ASSUME NEW S, NEW q \in Seq(S), q # <<>>
  PROVE  /\ Head(q) \in S /\ 1 \in DOMAIN q /\ q[1] = Head(q)
         /\ Tail(q) \in Seq(S) /\ Len(Tail(q)) <= Len(q)
         /\ \A i \in DOMAIN Tail(q) : i + 1 \in DOMAIN q /\ Tail(q)[i] = q[i + 1]
OBVIOUS

(* The service goes on as w with the message it has taken. *)
LEMMA TakesInv ==
  ASSUME Inv, UNCHANGED can, NEW s \in Services, Ready(s),
         NEW w, Good(s, w), Change(s, w, {}),
         w.state = "live" => \A k \in Sessions : Asks(vm[s], k) => Asks(w, k),
         \A c \in Services, k \in Sessions :
           DueVM(w, <<c, k>>) =>
             DueVM(vm[s], <<c, k>>) \/ DueMail(s, Head(queue[s]), <<c, k>>),
         queue' = [queue EXCEPT ![s] = Tail(@)],
         UNCHANGED <<timers, told, aborted>>
  PROVE  Inv'
<1>1. /\ queue \in [Services -> Seq(Message)]
      /\ \A x \in Services : Len(queue[x]) <= QueueLen
      /\ QueueLen \in Nat
      /\ RootAsked
  BY SessionAssumption DEF Inv, TypeOK
<1>2. queue[s] \in Seq(Message) /\ queue[s] # <<>>
  BY <1>1 DEF Ready
<1>3. /\ 1 \in DOMAIN queue[s] /\ queue[s][1] = Head(queue[s])
      /\ Tail(queue[s]) \in Seq(Message)
      /\ Len(Tail(queue[s])) <= Len(queue[s])
      /\ \A i \in DOMAIN Tail(queue[s]) :
           i + 1 \in DOMAIN queue[s] /\ Tail(queue[s])[i] = queue[s][i + 1]
  BY <1>2, TailElements
<1>4. \A x \in Services :
        queue'[x] = IF x = s THEN Tail(queue[s]) ELSE queue[x]
  BY <1>1
<1>5. /\ queue' \in [Services -> Seq(Message)]
      /\ \A x \in Services : Len(queue'[x]) <= QueueLen
  <2>1. queue' \in [Services -> Seq(Message)]
    BY <1>1, <1>3
  <2>2. Len(Tail(queue[s])) <= QueueLen
    <3>1. Len(Tail(queue[s])) \in Nat /\ Len(queue[s]) \in Nat
      BY <1>2, <1>3
    <3> QED BY <1>1, <1>3, <3>1
  <2> QED BY <1>1, <1>4, <2>1, <2>2
<1>6. \A x \in Services : \A i \in DOMAIN queue'[x] :
        \E j \in DOMAIN queue[x] : queue'[x][i] = queue[x][j]
  BY <1>3, <1>4
<1>7. RootAsked'
  <2>1. Root \in Services
    BY DEF Services
  <2> QED BY <1>1, <1>6, <2>1 DEF RootAsked
<1>8. \A c \in Services, k \in Sessions : DueOut(<<c, k>>)' => DueOut(<<c, k>>)
  BY <1>6 DEF DueOut, DueQueue
<1>9. \A c \in Services, k \in Sessions : DueVM(w, <<c, k>>) => Due(<<c, k>>)
  BY <1>3 DEF Due, DueOut, DueQueue
<1>10. /\ vm' \in [Services -> VM] /\ lost' \subseteq Call
       /\ \A x \in Services : Good(x, vm[x])'
       /\ Asked'
  BY <1>8, <1>9, ChangeInv DEF Ready, Due
<1>11. TypeOK'
  BY <1>5, <1>10 DEF Inv, TypeOK
<1> QED BY <1>7, <1>10, <1>11 DEF Inv

LEMMA RecvRequestInv ==
  ASSUME Inv, UNCHANGED can, NEW s \in Services, RecvRequest(s)
  PROVE  Inv'
<1> DEFINE v == vm[s]
           m == Head(queue[s])
<1>1. /\ Ready(s) /\ m.type = "request" /\ FreeThreads(v) # {}
      /\ \/ Change(s, Begin(v, "user", m.from, m.session, {}), {})
         \/ Change(s, Begin(v, "tell", None, Nil, {<<m.from, m.session>>}), {})
         \/ s = Root /\ Change(s, Begin(v, "tell", m.from, m.session, {m.report}), {})
      /\ queue' = [queue EXCEPT ![s] = Tail(@)]
      /\ UNCHANGED <<timers, told, aborted>>
  BY DEF RecvRequest, Begin
<1>2. /\ Settled(v) /\ v.post = None /\ FreeThreads(v) # {}
  BY <1>1 DEF Inv, Good, Ready
<1>3. /\ m \in Message /\ 1 \in DOMAIN queue[s] /\ queue[s][1] = m
  <2>1. queue[s] \in Seq(Message) /\ queue[s] # <<>>
    BY <1>1 DEF Inv, TypeOK, Ready
  <2> QED BY <2>1, TailElements
<1>4. /\ m.from \in Services /\ m.session \in 0..MaxSession
      /\ s = Root => m.report \in Call
  BY <1>1, <1>3 DEF Inv, RootAsked, ForRoot, Message
<1>5. /\ DueMail(s, m, <<m.from, m.session>>) /\ DueMail(s, m, m.report)
  BY <1>1 DEF DueMail
<1>6. ASSUME NEW job \in {"user", "tell"}, NEW from \in Services \cup {None},
             NEW session \in (0..MaxSession) \cup {Nil}, NEW todo \in SUBSET Call,
             Change(s, Begin(v, job, from, session, todo), {}),
             <<from, session>> \in {<<m.from, m.session>>, <<None, Nil>>},
             todo \subseteq {<<m.from, m.session>>, m.report}
      PROVE  Inv'
  <2> DEFINE w == Begin(v, job, from, session, todo)
  <2> HIDE DEF v, m
  <2>1. /\ Good(s, w)
        /\ \A k \in Sessions : Asks(v, k) => Asks(w, k)
        /\ \A call : DueVM(w, call) =>
             DueVM(v, call) \/ call = <<from, session>> \/ call \in todo
    BY <1>2, BeginGood
  <2> HIDE DEF w
  <2>2. ASSUME NEW c \in Services, NEW k \in Sessions, DueVM(w, <<c, k>>)
        PROVE  DueVM(v, <<c, k>>) \/ DueMail(s, m, <<c, k>>)
    <3>1. CASE <<c, k>> = <<from, session>>
      <4>1. <<from, session>> # <<None, Nil>>
        BY <3>1, NilAssumption
      <4> QED BY <1>5, <1>6, <3>1, <4>1
    <3>2. CASE <<c, k>> \in todo
      BY <1>5, <1>6, <3>2
    <3> QED BY <2>1, <2>2, <3>1, <3>2
  <2>3. Change(s, w, {})
    BY <1>6 DEF w
  <2> QED BY <1>1, <2>1, <2>2, <2>3, TakesInv DEF v, m
<1>7. CASE Change(s, Begin(v, "user", m.from, m.session, {}), {})
  <2>1. <<m.from, m.session>> \in {<<m.from, m.session>>, <<None, Nil>>}
        /\ {} \in SUBSET Call /\ {} \subseteq {<<m.from, m.session>>, m.report}
    OBVIOUS
  <2>2. m.from \in Services \cup {None} /\ m.session \in (0..MaxSession) \cup {Nil}
    BY <1>4
  <2> HIDE DEF v, m
  <2> QED BY <1>6, <1>7, <2>1, <2>2
<1>8. CASE Change(s, Begin(v, "tell", None, Nil, {<<m.from, m.session>>}), {})
  <2>1. <<m.from, m.session>> \in Call
    BY <1>4 DEF Call
  <2>2. /\ {<<m.from, m.session>>} \in SUBSET Call
        /\ {<<m.from, m.session>>} \subseteq {<<m.from, m.session>>, m.report}
        /\ <<None, Nil>> \in {<<m.from, m.session>>, <<None, Nil>>}
    BY <2>1
  <2>3. None \in Services \cup {None} /\ Nil \in (0..MaxSession) \cup {Nil}
    OBVIOUS
  <2> HIDE DEF v, m
  <2> QED BY <1>6, <1>8, <2>2, <2>3
<1>9. CASE s = Root /\ Change(s, Begin(v, "tell", m.from, m.session, {m.report}), {})
  <2>1. {m.report} \in SUBSET Call /\ {m.report} \subseteq {<<m.from, m.session>>, m.report}
    BY <1>4, <1>9
  <2>2. m.from \in Services \cup {None} /\ m.session \in (0..MaxSession) \cup {Nil}
    BY <1>4
  <2>3. Change(s, Begin(v, "tell", m.from, m.session, {m.report}), {})
    BY <1>9
  <2>4. <<m.from, m.session>> \in {<<m.from, m.session>>, <<None, Nil>>}
    OBVIOUS
  <2> HIDE DEF v, m
  <2> QED BY <1>6, <2>1, <2>2, <2>3, <2>4
<1> QED BY <1>1, <1>7, <1>8, <1>9

LEMMA RecvAnswerInv ==
  ASSUME Inv, UNCHANGED can, NEW s \in Services, RecvAnswer(s)
  PROVE  Inv'
<1> DEFINE u == vm[s]
           m == Head(queue[s])
           k == m.session
           h == u.lookup[k]
           v == Cleared(u, k)
           w == CASE h = None -> Dispatch(Fork(v, "quit"))
                  [] h \in {Ignore, Stale} -> v
                  [] h = Select -> Dispatch(Selected(v, m))
                  [] OTHER -> [v EXCEPT !.run = h]
<1>1. /\ Ready(s) /\ m.type \in {"response", "error"}
      /\ h = None => FreeThreads(v) # {}
      /\ Change(s, w, {})
      /\ queue' = [queue EXCEPT ![s] = Tail(@)]
      /\ UNCHANGED <<timers, told, aborted>>
  BY DEF RecvAnswer, Cleared
<1>2. /\ u \in VM /\ Settled(u) /\ SelectOK(u) /\ u.run = None /\ u.post = None
      /\ u.state = "live"
  BY <1>1 DEF Inv, Good, Settled, Ready
<1>3. /\ m \in Message /\ 1 \in DOMAIN queue[s] /\ queue[s][1] = m
  <2>1. queue[s] \in Seq(Message) /\ queue[s] # <<>>
    BY <1>1 DEF Inv, TypeOK, Ready
  <2> QED BY <2>1, TailElements
<1>4. k \in 0..MaxSession
  BY <1>3 DEF Message
<1>5. h \in Sleepers
  BY <1>2, <1>4, VMFields
<1>6. /\ v \in VM /\ Tables(v) /\ Rested(v) /\ JobOK(v)
      /\ v.run = None /\ v.post = None
      /\ h \in Thread => Unlisted(v, h) /\ v.job[h] # "free"
      /\ h # Select => SelectOK(v)
  <2> DEFINE c == Cleared(u, k)
  <2> HIDE DEF u, k
  <2>1. c \in VM
    BY <1>2, <1>4, ClearedSettled
  <2>2. Tables(c) /\ Rested(c) /\ JobOK(c)
    BY <1>2, <1>4, ClearedSettled
  <2>3. /\ c.run = u.run /\ c.post = u.post
        /\ u.lookup[k] \in Thread =>
             Unlisted(c, u.lookup[k]) /\ c.job[u.lookup[k]] # "free"
        /\ u.lookup[k] # Select => SelectOK(c)
    <3>1. Settled(u)
      BY <1>2
    <3> QED BY <3>1, <1>4, ClearedGood
  <2> HIDE DEF c
  <2> QED BY <1>2, <2>1, <2>2, <2>3 DEF c
<1>7. Follows(u, v)
  BY <1>2, <1>4, ClearedFollows
<1>8. h # Select => Settled(v)
  BY <1>6 DEF Settled
<1>9. ASSUME NEW x, Good(s, x), Follows(u, x), Change(s, x, {})
      PROVE  Inv'
  <2> HIDE DEF h, v, w
  <2>1. x.state = "live" => \A j \in Sessions : Asks(vm[s], j) => Asks(x, j)
    BY <1>9 DEF Follows
  <2>2. \A c \in Services, j \in Sessions :
          DueVM(x, <<c, j>>) =>
            DueVM(vm[s], <<c, j>>) \/ DueMail(s, Head(queue[s]), <<c, j>>)
    BY <1>9 DEF Follows
  <2> QED BY <1>1, <1>9, <2>1, <2>2, TakesInv
<1>10. CASE h = None
  <2>1. w = Dispatch(Fork(v, "quit"))
    BY <1>10, NilAssumption
  <2>2. h # Select /\ FreeThreads(v) # {}
    BY <1>1, <1>10, NilAssumption
  <2> HIDE DEF v, h, w
  <2> DEFINE f == Fork(v, "quit")
  <2>3. Settled(f) /\ Follows(v, f)
    BY <1>6, <1>8, <2>2, ForkSettled, ForkFollows DEF Job
  <2>4. f \in VM /\ f.post = None
    <3>1. f \in VM
      BY <2>3 DEF Settled
    <3> DEFINE t == NewThread(v)
               c == Create(v, t, "quit", None, Nil, {})
    <3>2. t \in Thread
      BY <2>2, NewThreadFree
    <3>3. c \in VM /\ c.post = None
      BY <1>6, <3>2 DEF Create, VM, Job
    <3>4. f = [c EXCEPT !.wakeups = Append(@, t)]
      BY DEF Fork
    <3> HIDE DEF c, f
    <3>5. f.post = c.post
      BY <3>3, <3>4 DEF VM
    <3> QED BY <3>1, <3>3, <3>5
  <2> HIDE DEF f
  <2>5. Good(s, Dispatch(f)) /\ Follows(f, Dispatch(f))
    BY <2>3, <2>4, DispatchGood, DispatchFollows
  <2>6. Follows(u, Dispatch(f))
    BY <1>7, <2>3, <2>5, FollowsTrans
  <2> QED BY <1>1, <1>9, <2>1, <2>5, <2>6 DEF f
<1>11. CASE h \in {Ignore, Stale}
  <2>1. w = v /\ h # Select
    BY <1>11, NilAssumption
  <2>2. Good(s, v)
    BY <1>6, <1>8, <2>1 DEF Good, Runs, PostOK
  <2> QED BY <1>1, <1>7, <1>9, <2>1, <2>2
<1>12. CASE h = Select
  <2>1. w = Dispatch(Selected(v, m))
    BY <1>12, NilAssumption
  <2>2. k \in Sessions
    <3>1. k \in 1..(u.next - 1) /\ u.next \in 1..(MaxSession + 1) /\ MaxSession \in Nat
      BY <1>2, <1>4, <1>12, VMFields, SessionAssumption DEF SelectOK
    <3> QED BY <1>4, <3>1 DEF Sessions
  <2>3. Due(<<s, k>>)
    BY <1>1, <1>3 DEF Due, DueOut, DueQueue, DueMail
  <2>4. k \in u.sel.sessions \cup {u.sel.timer}
    BY <1>2, <1>12, <2>2, <2>3 DEF Inv, Asked, Asks
  <2> DEFINE x == Selected(v, m)
  <2>5. Settled(x)
    BY <1>2, <1>12, <2>2, <2>4, SelectedSettled
  <2>6. Follows(u, x)
    BY <1>2, <1>12, <2>2, <2>4, SelectedFollows
  <2>7. x.post = None
    <3> DEFINE sel == IF k = v.sel.timer
                      THEN [v.sel EXCEPT !.timeout = TRUE, !.timer = None]
                      ELSE IF m.type = "response" THEN [v.sel EXCEPT !.resp = @ \cup {k}]
                      ELSE [v.sel EXCEPT !.errors = @ + 1, !.request = @ - 1]
               c == [v EXCEPT !.sel = sel]
    <3>1. x = Woken(c, Select)
      BY DEF Selected
    <3> HIDE DEF v, sel
    <3>2. c.post = None
      BY <1>6 DEF VM
    <3>3. CASE c.waiting[Select] = None
      BY <3>1, <3>2, <3>3 DEF Woken
    <3>4. CASE c.waiting[Select] # None
      <4>1. x = [c EXCEPT !.wakeups = Append(@, c.waiting[Select]),
                          !.waiting[Select] = None]
        BY <3>1, <3>4 DEF Woken
      <4>2. c = [v EXCEPT !.sel = sel]
        OBVIOUS
      <4> HIDE DEF c, x
      <4> QED BY <1>6, <3>2, <4>1, <4>2 DEF VM
    <3> QED BY <3>3, <3>4
  <2> HIDE DEF x, w
  <2>8. Good(s, Dispatch(x)) /\ Follows(x, Dispatch(x))
    BY <2>5, <2>7, DispatchGood, DispatchFollows DEF Settled
  <2>9. Follows(u, Dispatch(x))
    BY <2>6, <2>8, FollowsTrans
  <2> QED BY <1>1, <1>9, <2>1, <2>8, <2>9 DEF x
<1>13. CASE h \in Thread
  <2> DEFINE x == [v EXCEPT !.run = h]
  <2>1. h # None /\ h \notin {Ignore, Stale} /\ h # Select
    BY <1>13, NilAssumption
  <2>2. w = x
    BY <2>1
  <2> HIDE DEF v, h, w
  <2>3. /\ x \in VM /\ x.run = h
        /\ x.lookup = v.lookup /\ x.wakeups = v.wakeups /\ x.waiting = v.waiting
        /\ x.job = v.job /\ x.todo = v.todo /\ x.next = v.next /\ x.sel = v.sel
        /\ x.from = v.from /\ x.session = v.session /\ x.post = v.post
        /\ x.state = v.state
    BY <1>6, <1>13 DEF VM
  <2> HIDE DEF x
  <2>4. Settled(x) /\ Unlisted(x, h)
    BY <1>6, <1>8, <1>13, <2>1, <2>3, SameSettled
  <2>5. Good(s, x)
    BY <1>6, <1>13, <2>3, <2>4 DEF Good, Runs, PostOK
  <2>6. Follows(v, x)
    BY <2>3, SameDue, SameAsks DEF Follows
  <2>7. Follows(u, x)
    BY <1>7, <2>6, FollowsTrans
  <2> QED BY <1>1, <1>9, <2>2, <2>5, <2>7
<1> QED BY <1>5, <1>10, <1>11, <1>12, <1>13 DEF Sleepers

-----------------------------------------------------------------------------
(* The death of a service, and timers. *)

(* The state of a service is nothing its tables depend on. *)
LEMMA StateGood ==
  ASSUME NEW s, NEW v, Good(s, v), NEW st \in {"live", "dead", "signalled", "gone"}
  PROVE  Good(s, [v EXCEPT !.state = st])
<1> DEFINE w == [v EXCEPT !.state = st]
<1>1. v \in VM /\ Settled(v) /\ Runs(v) /\ PostOK(s, v)
  BY DEF Good, Settled
<1>2. /\ w \in VM /\ w.state = st
      /\ w.lookup = v.lookup /\ w.wakeups = v.wakeups /\ w.waiting = v.waiting
      /\ w.job = v.job /\ w.todo = v.todo /\ w.next = v.next /\ w.sel = v.sel
      /\ w.run = v.run /\ w.from = v.from /\ w.session = v.session
      /\ w.post = v.post
  BY <1>1 DEF VM
<1> HIDE DEF w
<1>3. Settled(w) /\ \A t : Unlisted(v, t) => Unlisted(w, t)
  BY <1>1, <1>2, SameSettled
<1>4. Runs(w) /\ PostOK(s, w)
  BY <1>1, <1>2, <1>3 DEF Runs, PostOK, FreeThreads
<1> QED BY <1>2, <1>3, <1>4 DEF Good, w

(* A mail that is put into the queue of x. *)
LEMMA AppendQueue ==
  ASSUME Inv, NEW x \in Services, Len(queue[x]) < QueueLen,
         NEW mail \in Message, x = Root => ForRoot(mail),
         queue' = [queue EXCEPT ![x] = Append(@, mail)],
         timers' \subseteq timers
  PROVE  /\ queue' \in [Services -> Seq(Message)]
         /\ \A y \in Services : Len(queue'[y]) <= QueueLen
         /\ RootAsked'
         /\ \A c \in Services, k \in Sessions :
              DueOut(<<c, k>>)' => DueOut(<<c, k>>) \/ DueMail(x, mail, <<c, k>>)
<1>1. /\ queue \in [Services -> Seq(Message)]
      /\ \A y \in Services : Len(queue[y]) <= QueueLen
      /\ QueueLen \in Nat
      /\ RootAsked
  BY SessionAssumption DEF Inv, TypeOK
<1>2. /\ Append(queue[x], mail) \in Seq(Message)
      /\ Len(Append(queue[x], mail)) <= QueueLen
  BY <1>1
<1>3. \A y \in Services : queue'[y] = IF y = x THEN Append(queue[x], mail) ELSE queue[y]
  BY <1>1
<1>4. /\ queue' \in [Services -> Seq(Message)]
      /\ \A y \in Services : Len(queue'[y]) <= QueueLen
  BY <1>1, <1>2, <1>3
<1>5. \A y \in Services : \A i \in DOMAIN queue'[y] :
        \/ i \in DOMAIN queue[y] /\ queue'[y][i] = queue[y][i]
        \/ y = x /\ queue'[y][i] = mail
  <2> TAKE y \in Services
  <2> TAKE i \in DOMAIN queue'[y]
  <2>1. queue[y] \in Seq(Message)
    BY <1>1
  <2>2. CASE y # x
    BY <1>3, <2>2
  <2>3. CASE y = x
    BY <1>3, <2>1, <2>3, Appended
  <2> QED BY <2>2, <2>3
<1>6. RootAsked'
  <2>1. Root \in Services
    BY DEF Services
  <2> QED BY <1>1, <1>5, <2>1 DEF RootAsked
<1>7. \A c \in Services, k \in Sessions :
        DueOut(<<c, k>>)' => DueOut(<<c, k>>) \/ DueMail(x, mail, <<c, k>>)
  BY <1>5 DEF DueOut, DueQueue
<1> QED BY <1>4, <1>6, <1>7

LEMMA SignalInv ==
  ASSUME Inv, UNCHANGED can, NEW s \in Services, Signal(s)
  PROVE  Inv'
<1> DEFINE mail == [from |-> s, session |-> 0, type |-> "signal", report |-> None]
           w == [vm[s] EXCEPT !.state = "signalled"]
<1>1. /\ s # Root /\ Len(queue[Root]) < QueueLen /\ Root \in Services
      /\ vm[s].state = "dead"
      /\ queue' = [queue EXCEPT ![Root] = Append(@, mail)]
      /\ vm' = [vm EXCEPT ![s] = w]
      /\ UNCHANGED <<timers, lost, told, aborted>>
  BY DEF Signal, Services
<1>2. mail \in Message /\ ForRoot(mail)
  BY <1>1, SessionAssumption DEF Message, ForRoot
<1>3. \A c \in Services, k \in Sessions : ~DueMail(Root, mail, <<c, k>>)
  BY SessionAssumption DEF DueMail, Sessions
<1> HIDE DEF mail
<1>4. /\ queue' \in [Services -> Seq(Message)]
      /\ \A y \in Services : Len(queue'[y]) <= QueueLen
      /\ RootAsked'
      /\ \A c \in Services, k \in Sessions :
           DueOut(<<c, k>>)' => DueOut(<<c, k>>) \/ DueMail(Root, mail, <<c, k>>)
  BY <1>1, <1>2, AppendQueue
<1>5. /\ vm \in [Services -> VM]
      /\ \A x \in Services : Good(x, vm[x])
      /\ Asked
  BY DEF Inv, TypeOK
<1>6. /\ Good(s, w) /\ w.state = "signalled" /\ w \in VM
      /\ \A call : DueVM(w, call) => DueVM(vm[s], call)
  <2>1. Good(s, w)
    BY <1>5, StateGood
  <2>2. /\ w.state = "signalled"
        /\ w.from = vm[s].from /\ w.session = vm[s].session
        /\ w.todo = vm[s].todo /\ w.post = vm[s].post
    BY <1>5 DEF VM
  <2> HIDE DEF w
  <2> QED BY <2>1, <2>2, SameDue DEF Good, Settled
<1> HIDE DEF w
<1>7. \A x \in Services : vm'[x] = IF x = s THEN w ELSE vm[x]
  BY <1>1, <1>5
<1>8. vm' \in [Services -> VM] /\ \A x \in Services : Good(x, vm'[x])
  BY <1>1, <1>5, <1>6, <1>7
<1>9. ASSUME NEW c \in Services, NEW k \in Sessions,
             vm'[c].state = "live", Due(<<c, k>>)'
      PROVE  Asks(vm'[c], k)
  <2>1. Due(<<c, k>>)
    BY <1>3, <1>4, <1>6, <1>7, <1>9 DEF Due
  <2>2. c # s /\ vm'[c] = vm[c]
    BY <1>6, <1>7, <1>9
  <2> QED BY <1>5, <1>9, <2>1, <2>2 DEF Asked
<1>10. TypeOK'
  BY <1>1, <1>4, <1>8 DEF Inv, TypeOK
<1>11. Asked'
  BY <1>9 DEF Asked
<1> QED BY <1>4, <1>8, <1>10, <1>11 DEF Inv

LEMMA FireInv ==
  ASSUME Inv, UNCHANGED can, NEW s \in Services, NEW k \in Sessions, Fire(s, k)
  PROVE  Inv'
<1> DEFINE mail == [from |-> s, session |-> k, type |-> "response", report |-> None]
<1>1. /\ <<s, k>> \in timers /\ timers' = timers \ {<<s, k>>}
      /\ \/ /\ Len(queue[s]) < QueueLen
            /\ queue' = [queue EXCEPT ![s] = Append(@, mail)]
         \/ UNCHANGED queue
      /\ UNCHANGED <<vm, lost, told, aborted>>
  BY DEF Fire
<1>2. mail \in Message /\ ForRoot(mail)
  BY SessionAssumption DEF Message, ForRoot, Sessions
<1>3. \A c \in Services, j \in Sessions :
        DueMail(s, mail, <<c, j>>) => <<c, j>> \in timers
  BY <1>1 DEF DueMail
<1> HIDE DEF mail
<1>4. /\ queue' \in [Services -> Seq(Message)]
      /\ \A y \in Services : Len(queue'[y]) <= QueueLen
      /\ RootAsked'
      /\ \A c \in Services, j \in Sessions : DueOut(<<c, j>>)' => DueOut(<<c, j>>)
  <2>1. CASE /\ Len(queue[s]) < QueueLen
             /\ queue' = [queue EXCEPT ![s] = Append(@, mail)]
    <3>1. /\ queue' \in [Services -> Seq(Message)]
          /\ \A y \in Services : Len(queue'[y]) <= QueueLen
          /\ RootAsked'
          /\ \A c \in Services, j \in Sessions :
               DueOut(<<c, j>>)' => DueOut(<<c, j>>) \/ DueMail(s, mail, <<c, j>>)
      BY <1>1, <1>2, <2>1, AppendQueue
    <3> QED BY <1>3, <3>1 DEF DueOut
  <2>2. CASE UNCHANGED queue
    <3>1. \A c \in Services, j \in Sessions : DueOut(<<c, j>>)' => DueOut(<<c, j>>)
      BY <1>1, <2>2 DEF DueOut
    <3> QED BY <2>2, <3>1 DEF Inv, TypeOK, RootAsked
  <2> QED BY <1>1, <2>1, <2>2
<1>5. \A c \in Services, j \in Sessions : Due(<<c, j>>)' => Due(<<c, j>>)
  BY <1>1, <1>4 DEF Due
<1>6. Asked'
  BY <1>1, <1>5 DEF Inv, Asked
<1>7. TypeOK'
  BY <1>1, <1>4 DEF Inv, TypeOK
<1>8. \A x \in Services : Good(x, vm[x])'
  BY <1>1 DEF Inv
<1> QED BY <1>4, <1>6, <1>7, <1>8 DEF Inv

LEMMA RecvSignalInv ==
  ASSUME Inv, UNCHANGED can, RecvSignal
  PROVE  Inv'
<1> DEFINE m == Head(queue[Root])
           d == m.from
           v == vm[Root]
           w == Begin(v, "tell", d, 0, Untaken(d))
           g == [vm[d] EXCEPT !.state = "gone"]
<1>1. /\ Ready(Root) /\ m.type = "signal" /\ FreeThreads(v) # {}
      /\ UNCHANGED <<timers, lost, told, aborted>>
      /\ queue' = [queue EXCEPT ![Root] = Tail(@), ![d] = <<>>]
  BY DEF RecvSignal
<1>2. /\ vm \in [Services -> VM]
      /\ queue \in [Services -> Seq(Message)]
      /\ \A x \in Services : Len(queue[x]) <= QueueLen
      /\ QueueLen \in Nat
      /\ \A x \in Services : Good(x, vm[x])
      /\ RootAsked /\ Asked /\ Root \in Services
  BY SessionAssumption DEF Inv, TypeOK, Services
<1>3. /\ m \in Message /\ 1 \in DOMAIN queue[Root] /\ queue[Root][1] = m
      /\ Tail(queue[Root]) \in Seq(Message)
      /\ Len(Tail(queue[Root])) <= Len(queue[Root])
      /\ \A i \in DOMAIN Tail(queue[Root]) :
           i + 1 \in DOMAIN queue[Root] /\ Tail(queue[Root])[i] = queue[Root][i + 1]
  <2>1. queue[Root] \in Seq(Message) /\ queue[Root] # <<>>
    BY <1>1, <1>2 DEF Ready
  <2> QED BY <2>1, TailElements
<1>4. d \in Services /\ d # Root
  BY <1>1, <1>2, <1>3 DEF RootAsked, ForRoot, Message
<1>5. vm' = [vm EXCEPT ![d] = g, ![Root] = w]
  BY <1>4 DEF RecvSignal, Begin
<1> HIDE DEF m, d
<1>6. Untaken(d) \in SUBSET Call
      /\ \A call \in Untaken(d) : DueQueue(queue[d], d, call)
  <2>1. queue[d] \in Seq(Message)
    BY <1>2, <1>4
  <2>2. ASSUME NEW i \in DOMAIN queue[d], queue[d][i].type = "request"
        PROVE  /\ <<queue[d][i].from, queue[d][i].session>> \in Call
               /\ DueQueue(queue[d], d, <<queue[d][i].from, queue[d][i].session>>)
    <3>1. queue[d][i] \in Message
      BY <2>1
    <3> QED BY <2>2, <3>1 DEF Message, Call, DueQueue, DueMail
  <2> QED BY <2>2 DEF Untaken
<1>7. /\ Good(Root, w)
      /\ \A k \in Sessions : Asks(v, k) => Asks(w, k)
      /\ \A call : DueVM(w, call) =>
           DueVM(v, call) \/ call = <<d, 0>> \/ call \in Untaken(d)
  <2>1. Settled(v) /\ v.post = None
    BY <1>1, <1>2 DEF Good, Ready
  <2>2. 0 \in (0..MaxSession) \cup {Nil} /\ d \in Services \cup {None}
    BY <1>4, SessionAssumption
  <2> HIDE DEF v
  <2> QED BY <1>1, <1>6, <2>1, <2>2, BeginGood
<1>8. /\ Good(d, g) /\ g.state = "gone" /\ g \in VM /\ w \in VM
      /\ \A call : DueVM(g, call) => DueVM(vm[d], call)
  <2>1. Good(d, g)
    BY <1>2, <1>4, StateGood
  <2>2. /\ g.state = "gone"
        /\ g.from = vm[d].from /\ g.session = vm[d].session
        /\ g.todo = vm[d].todo /\ g.post = vm[d].post
    BY <1>2, <1>4 DEF VM
  <2> HIDE DEF g, w
  <2> QED BY <1>7, <2>1, <2>2, SameDue DEF Good, Settled
<1> HIDE DEF g, w
<1>9. \A x \in Services : vm'[x] = IF x = Root THEN w ELSE IF x = d THEN g ELSE vm[x]
  BY <1>2, <1>4, <1>5
<1>10. vm' \in [Services -> VM] /\ \A x \in Services : Good(x, vm'[x])
  BY <1>2, <1>5, <1>7, <1>8, <1>9
<1>11. \A x \in Services : queue'[x] = IF x = d THEN <<>>
                                        ELSE IF x = Root THEN Tail(queue[Root])
                                        ELSE queue[x]
  BY <1>1, <1>2, <1>4 DEF d
<1>12. /\ queue' \in [Services -> Seq(Message)]
       /\ \A x \in Services : Len(queue'[x]) <= QueueLen
  <2>1. queue' \in [Services -> Seq(Message)]
    <3>1. <<>> \in Seq(Message)
      OBVIOUS
    <3>2. queue' = [x \in Services |-> queue'[x]]
      BY <1>1, <1>2
    <3>3. \A x \in Services : queue'[x] \in Seq(Message)
      BY <1>2, <1>3, <1>11, <3>1
    <3> QED BY <3>2, <3>3
  <2>2. Len(Tail(queue[Root])) <= QueueLen
    <3>1. queue[Root] \in Seq(Message)
      BY <1>2
    <3>2. Len(Tail(queue[Root])) \in Nat /\ Len(queue[Root]) \in Nat
      BY <1>3, <3>1
    <3> QED BY <1>2, <1>3, <3>2
  <2>3. Len(<<>>) <= QueueLen
    BY <1>2
  <2> QED BY <1>2, <1>11, <2>1, <2>2, <2>3
<1>13. \A x \in Services : \A i \in DOMAIN queue'[x] :
         \E j \in DOMAIN queue[x] : queue'[x][i] = queue[x][j]
  <2> TAKE x \in Services
  <2> TAKE i \in DOMAIN queue'[x]
  <2>1. CASE x = d
    BY <1>11, <2>1
  <2>2. CASE x = Root /\ x # d
    BY <1>3, <1>11, <2>2
  <2>3. CASE x # Root /\ x # d
    BY <1>11, <2>3
  <2> QED BY <2>1, <2>2, <2>3
<1>14. RootAsked'
  BY <1>2, <1>13 DEF RootAsked
<1>15. ASSUME NEW c \in Services, NEW k \in Sessions, Due(<<c, k>>)'
       PROVE  Due(<<c, k>>)
  <2>1. CASE DueOut(<<c, k>>)'
    BY <1>1, <1>13, <2>1 DEF Due, DueOut, DueQueue
  <2>2. CASE (\E x \in Services : DueVM(vm[x], <<c, k>>))'
    <3>1. PICK x \in Services : DueVM(vm'[x], <<c, k>>)
      BY <2>2
    <3>2. <<c, k>> # <<d, 0>>
      BY SessionAssumption DEF Sessions
    <3>3. CASE x = Root
      BY <1>2, <1>4, <1>6, <1>7, <1>9, <3>1, <3>2, <3>3 DEF Due, DueOut
    <3>4. CASE x # Root
      BY <1>8, <1>9, <3>1, <3>4 DEF Due
    <3> QED BY <3>3, <3>4
  <2> QED BY <1>15, <2>1, <2>2 DEF Due
<1>16. ASSUME NEW c \in Services, NEW k \in Sessions,
              vm'[c].state = "live", Due(<<c, k>>)'
       PROVE  Asks(vm'[c], k)
  <2>1. Due(<<c, k>>) /\ c # d
    BY <1>4, <1>8, <1>9, <1>15, <1>16
  <2>2. CASE c = Root
    BY <1>1, <1>2, <1>7, <1>9, <2>1, <2>2 DEF Asked, Ready
  <2>3. CASE c # Root
    BY <1>2, <1>9, <1>16, <2>1, <2>3 DEF Asked
  <2> QED BY <2>2, <2>3
<1>17. Asked'
  BY <1>16 DEF Asked
<1>18. TypeOK'
  BY <1>1, <1>10, <1>12 DEF Inv, TypeOK
<1> QED BY <1>10, <1>14, <1>17, <1>18 DEF Inv

-----------------------------------------------------------------------------
(* The invariant holds. *)

LEMMA InitInv ==
  ASSUME Init
  PROVE  Inv
<1> DEFINE first == CHOOSE t \in Thread : TRUE
           begun == [EmptyVM("live") EXCEPT !.run = first, !.job[first] = "user"]
<1>1. first \in Thread
  BY SessionAssumption
<1>2. /\ vm = [s \in Services |-> IF s = Root THEN EmptyVM("live") ELSE begun]
      /\ queue = [s \in Services |-> <<>>]
      /\ can \in Programs
      /\ timers = {} /\ lost = {} /\ told = {} /\ aborted = FALSE
  BY DEF Init
<1>3. \A s \in Services : Good(s, EmptyVM("live")) /\ Good(s, begun)
  BY <1>1, EmptyGood, StartGood
<1>4. \A t \in Thread :
        /\ EmptyVM("live").from[t] = None /\ EmptyVM("live").todo[t] = {}
        /\ begun.from[t] = None /\ begun.todo[t] = {}
  BY DEF EmptyVM
<1>5. EmptyVM("live").post = None /\ begun.post = None
  BY DEF EmptyVM
<1> HIDE DEF begun
<1>6. \A s \in Services : vm[s] \in {EmptyVM("live"), begun}
  BY <1>2
<1>7. \A s \in Services : Good(s, vm[s])
  BY <1>3, <1>6
<1>8. \A s \in Services : queue[s] = <<>>
  BY <1>2
<1>9. TypeOK
  <2>1. vm \in [Services -> VM]
    BY <1>2, <1>7 DEF Good, Settled
  <2>2. queue \in [Services -> Seq(Message)]
    BY <1>2
  <2>3. \A x \in Services : Len(queue[x]) <= QueueLen
    BY <1>8, SessionAssumption
  <2> QED BY <1>2, <2>1, <2>2, <2>3 DEF TypeOK
<1>10. RootAsked
  BY <1>8 DEF RootAsked, Services
<1>11. ASSUME NEW c \in Services, NEW k \in Sessions, Due(<<c, k>>)
       PROVE  FALSE
  <2>1. ~ DueOut(<<c, k>>)
    BY <1>2, <1>8 DEF DueOut, DueQueue
  <2>2. PICK s \in Services : DueVM(vm[s], <<c, k>>)
    BY <1>11, <2>1 DEF Due
  <2>3. /\ \A t \in Thread : vm[s].from[t] = None /\ vm[s].todo[t] = {}
        /\ vm[s].post = None
    BY <1>4, <1>5, <1>6
  <2>4. c # None
    BY NilAssumption
  <2> QED BY <2>2, <2>3, <2>4 DEF DueVM
<1>12. Asked
  BY <1>11 DEF Asked
<1> QED BY <1>7, <1>9, <1>10, <1>12 DEF Inv

LEMMA UserInv ==
  ASSUME Inv, UNCHANGED can, NEW s \in Users, UserStep(s)
  PROVE  Inv'
<1>1. CASE \E to \in Users, op \in {"call", "send"} : SendRequest(s, to, op)
  BY <1>1, SendRequestInv
<1>2. CASE \E op \in {"sleep", "timeout"} : WakeSelf(s, op)
  BY <1>2, WakeSelfInv
<1>3. CASE SleepTime(s)
  BY <1>3, SleepTimeInv
<1>4. CASE ForkUser(s) \/ Quit(s)
  BY <1>4, ForkInv
<1>5. CASE NoResponse(s)
  BY <1>5, NoResponseInv
<1>6. CASE Raise(s)
  BY <1>6, RaiseInv
<1>7. CASE Return(s)
  BY <1>7, ReturnInv
<1>8. CASE \E w \in Tokens : Wait(s, w) \/ Wakeup(s, w)
  BY <1>8, WaitInv, WakeupInv
<1>9. CASE BeginSelect(s)
  BY <1>9, BeginSelectInv
<1>10. CASE SelectSend(s)
  BY <1>10, SelectSendInv
<1>11. CASE SelectSent(s)
  BY <1>11, SelectSentInv
<1>12. CASE SelectNext(s)
  BY <1>12, SelectNextInv
<1>13. CASE SelectWoken(s) \/ SelectClose(s)
  BY <1>13, SelectWokenInv
<1> QED BY <1>1, <1>2, <1>3, <1>4, <1>5, <1>6, <1>7, <1>8, <1>9, <1>10, <1>11,
           <1>12, <1>13 DEF UserStep

LEMMA RuntimeInv ==
  ASSUME Inv, UNCHANGED can, NEW s \in Services, RuntimeStep(s)
  PROVE  Inv'
<1>1. CASE BeginQuit(s)
  BY <1>1, BeginQuitInv
<1>2. CASE TellEnd(s)
  BY <1>2, TellEndInv
<1>3. CASE Report(s)
  BY <1>3, ReportInv
<1>4. CASE Deliver(s)
  BY <1>4, DeliverInv
<1>5. CASE RecvRequest(s)
  BY <1>5, RecvRequestInv
<1>6. CASE RecvAnswer(s)
  BY <1>6, RecvAnswerInv
<1>7. CASE Signal(s)
  BY <1>7, SignalInv
<1>8. CASE \E c \in Services, k \in (0..MaxSession) \cup {Nil} : Tell(s, <<c, k>>)
  BY <1>8, TellInv
<1> QED BY <1>1, <1>2, <1>3, <1>4, <1>5, <1>6, <1>7, <1>8 DEF RuntimeStep

LEMMA NextInv ==
  ASSUME Inv, [Next]_vars
  PROVE  Inv'
<1>1. CASE UNCHANGED vars
  <2>1. \A call : Due(call)' <=> Due(call)
    BY <1>1 DEF vars, Due, DueOut
  <2> QED BY <1>1, <2>1 DEF vars, Inv, TypeOK, RootAsked, Asked
<1>2. CASE Next
  <2>1. CASE \E s \in Users : UserStep(s)
    BY <1>2, <2>1, UserInv DEF Next
  <2>2. CASE \E s \in Services : RuntimeStep(s)
    BY <1>2, <2>2, RuntimeInv DEF Next
  <2>3. CASE RecvSignal
    BY <1>2, <2>3, RecvSignalInv DEF Next
  <2>4. CASE \E s \in Services, k \in Sessions : Fire(s, k)
    BY <1>2, <2>4, FireInv DEF Next
  <2> QED BY <1>2, <2>1, <2>2, <2>3, <2>4 DEF Next
<1> QED BY <1>1, <1>2

LEMMA InvHolds == Spec => []Inv
BY InitInv, NextInv, PTL DEF Spec

-----------------------------------------------------------------------------
(* A coroutine is resumed from one place. *)

LEMMA AtMostOne ==
  ASSUME NEW S, \A x, y \in S : x = y
  PROVE  Cardinality(S) \in {0, 1} /\ (S = {} => Cardinality(S) = 0)
<1>1. CASE S = {}
  BY <1>1, FS_EmptySet
<1>2. CASE S # {}
  <2>1. PICK x \in S : S = {x}
    BY <1>2
  <2> QED BY <2>1, FS_Singleton
<1> QED BY <1>1, <1>2

LEMMA PlaceOK ==
  ASSUME Inv
  PROVE  OnePlace
<1> SUFFICES ASSUME NEW s \in Services, NEW t \in Thread
             PROVE  Cardinality({k \in DOMAIN vm[s].lookup : vm[s].lookup[k] = t})
                    + Cardinality({i \in DOMAIN vm[s].wakeups : vm[s].wakeups[i] = t})
                    + Cardinality({k \in DOMAIN vm[s].waiting : vm[s].waiting[k] = t})
                    + (IF vm[s].run = t THEN 1 ELSE 0) <= 1
  BY DEF OnePlace
<1> DEFINE v == vm[s]
           L == {k \in DOMAIN v.lookup : v.lookup[k] = t}
           W == {i \in DOMAIN v.wakeups : v.wakeups[i] = t}
           K == {k \in DOMAIN v.waiting : v.waiting[k] = t}
<1>1. v \in VM /\ Tables(v) /\ Runs(v)
  BY DEF Inv, Good, Settled
<1>2. DOMAIN v.lookup = 0..MaxSession /\ DOMAIN v.waiting = Keys
  BY <1>1, VMFields
<1> HIDE DEF v
<1>3. /\ \A x, y \in L : x = y
      /\ \A x, y \in W : x = y
      /\ \A x, y \in K : x = y
  BY <1>1, <1>2 DEF Tables
<1>4. /\ L # {} => W = {} /\ K = {}
      /\ W # {} => K = {}
  BY <1>1, <1>2 DEF Tables
<1>5. v.run = t => L = {} /\ W = {} /\ K = {}
  <2> HAVE v.run = t
  <2>1. Unlisted(v, t)
    BY <1>1, NilAssumption DEF Runs
  <2> QED BY <1>2, <2>1 DEF Unlisted
<1> HIDE DEF L, W, K
<1>6. /\ Cardinality(L) \in {0, 1} /\ (L = {} => Cardinality(L) = 0)
      /\ Cardinality(W) \in {0, 1} /\ (W = {} => Cardinality(W) = 0)
      /\ Cardinality(K) \in {0, 1} /\ (K = {} => Cardinality(K) = 0)
  BY <1>3, AtMostOne
<1>7. Cardinality(L) + Cardinality(W) + Cardinality(K)
        + (IF v.run = t THEN 1 ELSE 0) <= 1
  BY <1>4, <1>5, <1>6
<1> QED BY <1>7 DEF v, L, W, K

(* The tables of the runtime of a service (ltask/service/service.lua:
   session_coroutine_suspend_lookup, session_waiting, wakeup_queue) hold what
   they should, and a coroutine is running or is reached from one place of
   them at most, for every number of services, coroutines and sessions: it is
   never resumed in the middle of another wait. *)
THEOREM Resumption == Spec => []OneResumption
<1>1. Inv => OneResumption
  BY PlaceOK DEF OneResumption, Inv
<1> QED BY <1>1, InvHolds, PTL

-----------------------------------------------------------------------------
(* A loop over a select ends by itself only when it should. *)

LEMMA WaitKeepsSelect ==
  ASSUME NEW s \in Services, Inv, Running(s, {"user"}), InSelect(vm[s]),
         vm[s].next <= MaxSession,
         NEW c, c = [vm[s] EXCEPT !.waiting[Select] = vm[s].run, !.next = @ + 1,
                                  !.sel.at = "woken"],
         Local(s, Dispatch(c)), vm'[s].state = "live"
  PROVE  vm'[s].sel # None
<1> DEFINE v == vm[s]
<1>1. Settled(v) /\ Runs(v) /\ v.run \in Thread
  BY RunningFacts
<1>2. Settled(c) /\ c.sel # None
  BY <1>1, SelectWaitSettled
<1>3. Dispatch(c).sel = c.sel
  BY <1>2 DEF Dispatch, Settled, VM
<1>4. vm'[s] = Dispatch(c)
  BY DEF Inv, TypeOK, Local, Change, EmptyVM
<1> QED BY <1>2, <1>3, <1>4

LEMMA LoopEnds ==
  ASSUME Inv, NEW s \in Users, SelectNext(s) \/ SelectWoken(s),
         vm'[s].state = "live", vm'[s].sel = None
  PROVE  \/ vm[s].sel.timeout
         \/ \A k \in vm[s].sel.sessions : vm[s].lookup[k] # Select
<1> DEFINE v == vm[s]
           x == v.sel
           c == [v EXCEPT !.waiting[Select] = v.run, !.next = @ + 1,
                          !.sel.at = "woken"]
<1>1. s \in Services /\ Running(s, {"user"}) /\ InSelect(v)
  BY DEF Services, SelectNext, SelectWoken, Selecting
<1>2. /\ Settled(v) /\ SelectOK(v) /\ Unlisted(v, v.run) /\ v.run \in Thread
  BY <1>1, RunningFacts DEF Settled
<1>3. v.sel # None /\ v.waiting[Select] = None /\ x \in Selection
  BY <1>1, <1>2, OwnerAwake, VMFields DEF Settled
<1>4. \A w : Local(s, w) => vm'[s] = w
  BY <1>1 DEF Inv, TypeOK, Local, Change, EmptyVM
<1>5. ~ (x.errors > 0 /\ Local(s, PopError(v)))
  BY <1>1, <1>2, <1>4, PopErrorSettled
<1>6. ~ \E k \in x.resp : Local(s, PopResponse(v, k))
  BY <1>1, <1>2, <1>4, PopResponseSettled
<1>7. CASE SelectNext(s)
  <2>1. ~ (v.next <= MaxSession /\ Local(s, Dispatch(c)))
    BY <1>1, WaitKeepsSelect
  <2>2. x.timeout \/ (x.resp = {} /\ x.request = 0)
    BY <1>5, <1>6, <1>7, <2>1 DEF SelectNext, SessionLeft
  <2>3. CASE x.resp = {} /\ x.request = 0
    <3>1. IsFiniteSet(Open(v)) /\ Cardinality(Open(v)) = 0
      BY <1>2, <1>3, <2>3, OpenFinite DEF SelectOK
    <3>2. Open(v) = {}
      BY <3>1, FS_EmptySet
    <3> QED BY <3>2 DEF Open
  <2> QED BY <2>2, <2>3
<1>8. CASE SelectWoken(s)
  <2>1. x.at = "woken"
    BY <1>8 DEF SelectWoken, Selecting
  <2>2. x.timeout \/ x.resp # {} \/ x.errors > 0
    BY <1>2, <1>3, <2>1 DEF SelectOK
  <2>3. x.timeout \/ (x.resp = {} /\ x.errors = 0)
    BY <1>5, <1>6, <1>8 DEF SelectWoken
  <2> QED BY <2>2, <2>3
<1> QED BY <1>7, <1>8

(* request/select (ltask/service/service.lua: request_thread, the iterator of
   request_meta): in a service that lives on the loop over a select ends by
   itself only when it has timed out or no request that was sent is open, for
   every number of requests, services and sessions, and in whatever order the
   answers, the errors and the timeout come. *)
THEOREM SelectEnds == Spec => SelectComplete
<1>1. Inv /\ [Next]_vars =>
        [\A s \in Users :
           /\ vm[s].sel # None /\ vm'[s].sel = None
           /\ vm'[s].state = "live"
           /\ SelectNext(s) \/ SelectWoken(s)
           => \/ vm[s].sel.timeout
              \/ \A k \in vm[s].sel.sessions : vm[s].lookup[k] # Select]_vars
  BY LoopEnds
<1> QED BY <1>1, InvHolds, PTL DEF Spec, SelectComplete

=============================================================================
