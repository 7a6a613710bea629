------------------------------ MODULE Session ------------------------------
(***************************************************************************)
(* The runtime of an ordinary service (ltask/service/service.lua): its     *)
(* coroutines, its sessions, and what becomes of a request until the one   *)
(* who waits for the answer continues; with the part of root               *)
(* (ltask/service/root.lua) that answers for others, report_error and the  *)
(* closing of a dead service.                                              *)
(*                                                                         *)
(* A service runs one coroutine at a time, up to the next message it       *)
(* sends or to the end of its turn; it takes the next message of its queue *)
(* when no coroutine is ready.  Module Scheduler shows how a message gets  *)
(* to its receiver and the receipt back; here that is the one step         *)
(* Deliver, after which the sender runs on with the receipt.  Other        *)
(* services take their steps in between.  What the code of a service does  *)
(* is any sequence of the calls of the API that `can' allows it.             *)
(***************************************************************************)
EXTENDS Naturals, Sequences, FiniteSets

CONSTANTS Users,       \* services with code of their own
          Root,        \* SERVICE_ROOT
          Thread,      \* coroutines a service has at once (bound)
          Tokens,      \* what is waited for with ltask.wait
          MaxSession,  \* session ids a service hands out (bound)
          QueueLen,    \* messages a queue holds
          Programs,    \* which calls of the API the code of each service makes
          Peers,       \* the services it sends requests to
          SelectList,  \* the addresses of its ltask.request
          None, Nil,   \* nil: no coroutine, no address; a cleared session
          Ignore,      \* no_response_handler
          Select,      \* the coroutine of request_thread, and its token
          Stale        \* the request_thread of a select that is over

Services == Users \cup {Root}
Sessions == 1..MaxSession
Ops == {"call", "send", "sleep", "sleep_ti", "timeout", "fork", "wait",
        "wakeup", "no_response", "raise", "quit", "select", "unknown"}

ASSUME SessionAssumption ==
  /\ Root \notin Users
  /\ Thread # {} /\ IsFiniteSet(Thread) /\ IsFiniteSet(Users)
  /\ MaxSession \in Nat /\ QueueLen \in Nat \ {0}
  /\ Programs \subseteq [Users -> SUBSET Ops]
  /\ Peers \in [Users -> SUBSET Users]
  /\ SelectList \in [Users -> Seq(Users)]

VARIABLES can,      \* the calls each service makes
          vm,       \* the Lua state of each service
          queue,    \* its inbound queue
          timers,   \* sessions the timer service will answer
          lost,     \* sessions whose answer the code has dropped (history)
          told,     \* sessions a quitting service sent an error to (history)
          aborted   \* an assertion of the C code has failed

vars == <<can, vm, queue, timers, lost, told, aborted>>

Call == Services \X (0..MaxSession)   \* who waits, and its session

Message == [from : Services, session : 0..MaxSession,
            type : {"request", "response", "error", "signal"},
            report : Call \cup {None}]
(* A message on its way, and where in the code its receipt is read. *)
Post == [to : Services, type : {"request", "response", "error"},
         session : 0..MaxSession, report : Call \cup {None},
         then : {"call", "send", "sleep", "timeout", "select", "response",
                 "raised", "tell", "later", "report"}]
(* job: what the coroutine executes.  "user" is code of the service, "tell"
   sends an error to each caller of todo, "quit" is the coroutine ltask.quit
   forks, "quitting" when it has begun, "report" is report_error. *)
Job == {"free", "user", "tell", "quit", "quitting", "report"}
Selection == [owner : Thread, left : Seq(Users), sessions : SUBSET Sessions,
              resp : SUBSET Sessions, errors : Nat, request : Nat,
              timer : Sessions \cup {None}, timeout : BOOLEAN,
              at : {"sending", "body", "woken"}]
VM == [state : {"live", "dead", "signalled", "gone"}, run : Thread \cup {None},
       post : Post \cup {None}, job : [Thread -> Job],
       from : [Thread -> Services \cup {None}],
       session : [Thread -> (0..MaxSession) \cup {Nil}],
       todo : [Thread -> SUBSET (Services \X ((0..MaxSession) \cup {Nil}))],
       lookup : [0..MaxSession -> Thread \cup {None, Ignore, Select, Stale}],
       waiting : [Tokens \cup {Select} -> Thread \cup {None}],
       wakeups : Seq(Thread), next : 1..(MaxSession + 1), quit : BOOLEAN,
       sel : Selection \cup {None}]

(* What stands for nil, or is no coroutine, is told apart from what it stands
   for. *)
ASSUME NilAssumption ==
  /\ None \notin Thread /\ None \notin Services /\ None \notin Call
  /\ None \notin Post /\ None \notin Selection /\ None \notin Sessions
  /\ Nil \notin 0..MaxSession
  /\ {Ignore, Select, Stale} \cap Thread = {}
  /\ Select \notin {None, Ignore, Stale} \cup Tokens
  /\ None \notin {Ignore, Stale}

TypeOK == /\ can \in Programs
          /\ vm \in [Services -> VM]
          /\ queue \in [Services -> Seq(Message)]
          /\ \A x \in Services : Len(queue[x]) <= QueueLen
          /\ timers \subseteq Services \X Sessions
          /\ lost \subseteq Call /\ told \subseteq Call
          /\ aborted \in BOOLEAN

-----------------------------------------------------------------------------
(* Coroutines: operators on the state v of one service.                    *)

FreeThreads(v) == {t \in Thread : v.job[t] = "free"}
NewThread(v) == CHOOSE t \in FreeThreads(v) : TRUE

(* new_thread and new_session *)
Create(v, t, job, from, session, todo) ==
  [v EXCEPT !.job[t] = job, !.from[t] = from, !.session[t] = session,
            !.todo[t] = todo]
Finish(v, t) == Create(v, t, "free", None, Nil, {})

(* mutant: ltask.send forgets its session *)
SuspendNoIgnore(v, h) ==
  [v EXCEPT !.lookup[v.next] = IF h = Ignore THEN None ELSE h, !.next = @ + 1]

(* session_coroutine_suspend_lookup[session_id] = h; session_id + 1 *)
Suspend(v, h) == [v EXCEPT !.lookup[v.next] = h, !.next = @ + 1]

(* ltask.fork *)
Fork(v, job) ==
  LET t == NewThread(v)
  IN [Create(v, t, job, None, Nil, {}) EXCEPT !.wakeups = Append(@, t)]

(* The turn of a coroutine is over: dispatch_wakeup takes the next one, and
   when there is none the service goes for its next message, or it quits. *)
Dispatch(v) ==
  IF v.wakeups # <<>>
  THEN [v EXCEPT !.run = Head(v.wakeups), !.wakeups = Tail(@)]
  ELSE [v EXCEPT !.run = None, !.state = IF v.quit THEN "dead" ELSE @]

End(v) == Dispatch(Finish(v, v.run))

(* The running coroutine is in the loop over a select. *)
InSelect(v) == IF v.sel = None THEN FALSE ELSE v.sel.owner = v.run

(* The select a coroutine was in is left without close when it dies. *)
Abandon(v) ==
  IF ~InSelect(v) THEN v
  ELSE [v EXCEPT !.sel = None,
                 !.lookup = [k \in DOMAIN @ |->
                               IF @[k] = Select THEN Stale ELSE @[k]]]

Mail(to, type, session, report, then) ==
  [to |-> to, type |-> type, session |-> session, report |-> report,
   then |-> then]

(* resume_session when the coroutine raised an error: the caller is told.
   The main coroutine fails itself when no_response cleared the session. *)
Fail(v) ==
  LET t == v.run
      w == Finish(Abandon(v), t)
  IN IF v.from[t] = None THEN Dispatch(w)
     ELSE IF v.session[t] = Nil
          THEN [w EXCEPT !.run = None, !.wakeups = <<>>, !.state = "dead"]
          ELSE [w EXCEPT !.run = None,
                         !.post = Mail(v.from[t], "error", v.session[t], None,
                                       "raised")]

(* Callers whose request a coroutine of v has, or has to send an error to. *)
Held(v) == {<<v.from[t], v.session[t]>> :
              t \in {u \in Thread : v.from[u] # None /\ v.session[u] \notin {Nil, 0}}}
ToTell(v) == UNION {v.todo[t] : t \in {u \in Thread : v.job[u] \in {"tell", "report"}}}

EmptyVM(st) ==
  [state |-> st, run |-> None, post |-> None, job |-> [t \in Thread |-> "free"],
   from |-> [t \in Thread |-> None], session |-> [t \in Thread |-> Nil],
   todo |-> [t \in Thread |-> {}], lookup |-> [k \in 0..MaxSession |-> None],
   waiting |-> [w \in Tokens \cup {Select} |-> None], wakeups |-> <<>>,
   next |-> 1, quit |-> FALSE, sel |-> None]

(* The new state of service s, and the callers whose answer is dropped.  A
   service that dies takes its coroutines with it. *)
Change(s, v, drop) ==
  /\ vm' = [vm EXCEPT ![s] = IF v.state = "live" THEN v ELSE EmptyVM("dead")]
  /\ lost' = lost \cup drop
              \cup (IF v.state = "live" THEN {} ELSE (Held(v) \ told) \cup ToTell(v))

(* The services are initialised: root waits for messages, and the code of
   every other one has forked a coroutine that is about to run. *)
Init ==
  LET first == CHOOSE t \in Thread : TRUE
  IN /\ can \in Programs
     /\ vm = [s \in Services |->
                IF s = Root THEN EmptyVM("live")
                ELSE [EmptyVM("live") EXCEPT !.run = first, !.job[first] = "user"]]
     /\ queue = [s \in Services |-> <<>>]
     /\ timers = {} /\ lost = {} /\ told = {} /\ aborted = FALSE

-----------------------------------------------------------------------------
(* What the running coroutine of service s does next.                      *)

Running(s, ops) ==
  /\ ~aborted
  /\ vm[s].state = "live" /\ vm[s].run # None /\ vm[s].post = None
  /\ vm[s].job[vm[s].run] \in ops
May(s, op) == Running(s, {"user"}) /\ op \in can[s]

(* Not in the send_requests or the iterator of a select. *)
InBody(v) == InSelect(v) => v.sel.at = "body"
SessionLeft(v) == v.next <= MaxSession

PostMail(s, m) ==
  Change(s, [vm[s] EXCEPT !.post = m], {}) /\ UNCHANGED <<queue, timers, told, aborted>>
Local(s, v) == Change(s, v, {}) /\ UNCHANGED <<queue, timers, told, aborted>>

(* ltask.call, ltask.syscall; ltask.send *)
SendRequest(s, to, op) ==
  /\ May(s, op) /\ op \in {"call", "send"} /\ InBody(vm[s]) /\ SessionLeft(vm[s])
  /\ to \in Peers[s]
  /\ PostMail(s, Mail(to, "request", vm[s].next, None, op))

(* ltask.sleep(0) and ltask.timeout(0, f): a message to the service itself *)
WakeSelf(s, op) ==
  /\ May(s, op) /\ op \in {"sleep", "timeout"}
  /\ InBody(vm[s]) /\ SessionLeft(vm[s])
  /\ op = "timeout" => FreeThreads(vm[s]) # {}
  /\ PostMail(s, Mail(s, "response", vm[s].next, None, op))

(* ltask.sleep(ti) *)
SleepTime(s) ==
  LET v == vm[s]
  IN /\ May(s, "sleep_ti") /\ InBody(v) /\ SessionLeft(v)
     /\ timers' = timers \cup {<<s, v.next>>}
     /\ Change(s, Dispatch(Suspend(v, v.run)), {})
     /\ UNCHANGED <<queue, told, aborted>>

ForkUser(s) ==
  /\ May(s, "fork") /\ InBody(vm[s]) /\ FreeThreads(vm[s]) # {}
  /\ Local(s, Fork(vm[s], "user"))

(* ltask.wait: its session is handed out and nobody ever answers it *)
Wait(s, token) ==
  LET v == vm[s]
  IN /\ May(s, "wait") /\ InBody(v) /\ SessionLeft(v)
     /\ Local(s, Dispatch([v EXCEPT !.waiting[token] = v.run, !.next = @ + 1]))

(* mutant: the token stays in session_waiting *)
WokenTwice(v, token) ==
  IF v.waiting[token] = None THEN v
  ELSE [v EXCEPT !.wakeups = Append(@, v.waiting[token])]

(* ltask.wakeup and ltask.interrupt *)
Woken(v, token) ==
  IF v.waiting[token] = None THEN v
  ELSE [v EXCEPT !.wakeups = Append(@, v.waiting[token]), !.waiting[token] = None]

Wakeup(s, token) ==
  /\ May(s, "wakeup") /\ InBody(vm[s]) /\ vm[s].waiting[token] # None
  /\ Local(s, Woken(vm[s], token))

(* ltask.no_response *)
NoResponse(s) ==
  LET v == vm[s]
  IN /\ May(s, "no_response") /\ InBody(vm[s]) /\ v.from[v.run] # None /\ v.session[v.run] # Nil
     /\ Change(s, [v EXCEPT !.session[v.run] = Nil], {<<v.from[v.run], v.session[v.run]>>} \ told)
     /\ UNCHANGED <<queue, timers, told, aborted>>

(* ltask.quit *)
Quit(s) ==
  /\ May(s, "quit") /\ InBody(vm[s]) /\ FreeThreads(vm[s]) # {}
  /\ Local(s, Fork(vm[s], "quit"))

Raise(s) ==
  /\ May(s, "raise") /\ InBody(vm[s])
  /\ Local(s, Fail(vm[s]))

(* The function of the coroutine returns: send_response for a request. *)
Return(s) ==
  LET v == vm[s]
      t == v.run
  IN /\ Running(s, {"user"}) /\ ~InSelect(v)
     /\ IF v.from[t] # None /\ v.session[t] \notin {Nil, 0}
        THEN Local(s, [Create(v, t, "user", None, Nil, {}) EXCEPT
                         !.post = Mail(v.from[t], "response", v.session[t], None, "response")])
        ELSE Local(s, End(v))

(* ltask.quit's coroutine begins: every caller the service knows of. *)
BeginQuit(s) ==
  LET v == vm[s]
      callers == {<<v.from[t], v.session[t]>> : t \in {u \in Thread : v.from[u] # None}}
  IN /\ Running(s, {"quit"})
     /\ Local(s, [v EXCEPT !.job[v.run] = "quitting", !.todo[v.run] = callers])

(* ltask.error to the next caller.  A session that no_response cleared is no
   integer, and the coroutine fails. *)
Tell(s, call) ==
  LET v == vm[s]
  IN /\ Running(s, {"tell", "quitting"}) /\ call \in v.todo[v.run]
     /\ Local(s, IF call[2] = Nil THEN Fail(v)
                 ELSE [v EXCEPT !.todo[v.run] = @ \ {call},
                                !.post = Mail(call[1], "error", call[2], None, "tell")])

TellEnd(s) ==
  LET v == vm[s]
  IN /\ Running(s, {"tell", "quitting"}) /\ v.todo[v.run] = {}
     /\ Local(s, End([v EXCEPT !.quit = @ \/ v.job[v.run] = "quitting"]))

(* report_error: root is asked to send the error. *)
Report(s) ==
  LET v == vm[s]
      call == CHOOSE c \in v.todo[v.run] : TRUE
  IN /\ Running(s, {"report"})
     /\ PostMail(s, Mail(Root, "request", 0, call, "report"))

-----------------------------------------------------------------------------
(* request/select *)

BeginSelect(s) ==
  LET v == vm[s]
  IN /\ May(s, "select") /\ v.sel = None
     /\ Local(s, [v EXCEPT !.sel =
          [owner |-> v.run, left |-> SelectList[s], sessions |-> {}, resp |-> {},
           errors |-> 0, request |-> 0, timer |-> None, timeout |-> FALSE,
           at |-> "sending"]])

Selecting(s, at) == Running(s, {"user"}) /\ InSelect(vm[s]) /\ vm[s].sel.at = at

(* send_requests registers the session before the message is sent. *)
SelectSend(s) ==
  LET v == vm[s]
  IN /\ Selecting(s, "sending") /\ v.sel.left # <<>> /\ SessionLeft(v)
     /\ Local(s, [Suspend(v, Select) EXCEPT
          !.sel.left = Tail(@),
          !.post = Mail(Head(v.sel.left), "request", v.next, None, "select")])

(* All are sent: select(timeout) and select() *)
SelectSent(s) ==
  LET v == vm[s]
  IN /\ Selecting(s, "sending") /\ v.sel.left = <<>>
     /\ \/ /\ SessionLeft(v)
           /\ timers' = timers \cup {<<s, v.next>>}
           /\ Change(s, [Suspend(v, Select) EXCEPT !.sel.timer = v.next,
                                                   !.sel.at = "body"], {})
        \/ Change(s, [v EXCEPT !.sel.at = "body"], {}) /\ UNCHANGED timers
     /\ UNCHANGED <<queue, told, aborted>>

(* request_meta.close, at the end of the loop and when it is left *)
Close(v) ==
  LET open == IF v.sel.request > 0 THEN v.sel.sessions \ v.sel.resp ELSE {}
      ignored == IF v.sel.timer = None THEN open ELSE open \cup {v.sel.timer}
  IN [v EXCEPT !.sel = None,
               !.lookup = [k \in DOMAIN @ |-> IF k \in ignored THEN Ignore
                                              ELSE IF @[k] = Select THEN Stale ELSE @[k]]]
SelectClose(s) == Selecting(s, "body") /\ Local(s, Close(vm[s]))

PopError(v) == [v EXCEPT !.sel.errors = @ - 1, !.sel.at = "body"]
PopResponse(v, k) ==
  [v EXCEPT !.sel.request = @ - 1, !.sel.resp = @ \ {k},
            !.sel.sessions = @ \ {k}, !.sel.at = "body"]

(* The iterator of the loop. *)
SelectNext(s) ==
  LET v == vm[s]
      x == v.sel
  IN /\ Selecting(s, "body")
     /\ \/ x.errors > 0 /\ Local(s, PopError(v))
        \/ x.errors = 0 /\ \E k \in x.resp : Local(s, PopResponse(v, k))
        \/ x.errors = 0 /\ x.resp = {} /\ (x.request = 0 \/ x.timeout)
           /\ Local(s, Close(v))
        \/ /\ x.errors = 0 /\ x.resp = {} /\ x.request > 0 /\ ~x.timeout
           /\ SessionLeft(v)
           /\ Local(s, Dispatch([v EXCEPT !.waiting[Select] = v.run,
                                          !.next = @ + 1, !.sel.at = "woken"]))

(* After ltask.wait in the iterator. *)
SelectWoken(s) ==
  LET v == vm[s]
      x == v.sel
  IN /\ Selecting(s, "woken")
     /\ \/ x.timeout /\ Local(s, Close(v))
        \/ ~x.timeout /\ \E k \in x.resp : Local(s, PopResponse(v, k))
        \/ ~x.timeout /\ x.resp = {} /\ x.errors > 0 /\ Local(s, PopError(v))
        \/ ~x.timeout /\ x.resp = {} /\ x.errors = 0 /\ Local(s, Close(v))

(* mutant: a response is counted here and again in the iterator *)
SelectedTwice(v, m) ==
  LET k == m.session
      x == v.sel
  IN Woken([v EXCEPT !.sel =
       IF k = x.timer THEN [x EXCEPT !.timeout = TRUE, !.timer = None]
       ELSE IF m.type = "response" THEN [x EXCEPT !.resp = @ \cup {k}, !.request = @ - 1]
       ELSE [x EXCEPT !.errors = @ + 1, !.request = @ - 1]], Select)

(* request_thread: what a message to one of its sessions does. *)
Selected(v, m) ==
  LET k == m.session
      x == v.sel
  IN Woken([v EXCEPT !.sel =
       IF k = x.timer THEN [x EXCEPT !.timeout = TRUE, !.timer = None]
       ELSE IF m.type = "response" THEN [x EXCEPT !.resp = @ \cup {k}]
       ELSE [x EXCEPT !.errors = @ + 1, !.request = @ - 1]], Select)

-----------------------------------------------------------------------------
(* Messages. *)

(* The message a coroutine posted arrives, or not, and the coroutine goes on
   with the receipt: v is its service, r the receipt, m what it posted. *)
Sent(s, v, m, r) ==
  CASE m.then = "call" ->
         Change(s, IF r = "done" THEN Dispatch(Suspend(v, v.run)) ELSE v, {})
    [] m.then = "send" ->
         Change(s, IF r = "done" THEN Suspend(v, Ignore) ELSE v, {})
    [] m.then = "sleep" ->
         Change(s, IF r = "done" THEN Dispatch(Suspend(v, v.run)) ELSE v, {})
    [] m.then = "timeout" ->
         LET t == NewThread(v)
         IN Change(s, IF r = "done"
                      THEN Suspend(Create(v, t, "user", None, Nil, {}), t) ELSE v, {})
    [] m.then = "select" ->
         Change(s, CASE r = "done" -> [v EXCEPT !.sel.sessions = @ \cup {m.session},
                                               !.sel.request = @ + 1]
                     [] r = "error" -> [v EXCEPT !.sel.errors = @ + 1]
                     [] r = "block" -> Abandon(v), {})
    [] m.then = "response" ->
         Change(s, End(v), IF r = "block" THEN {<<m.to, m.session>>} \ told ELSE {})
    [] OTHER -> FALSE

(* The same for an error that is sent: ltask.error and report_error. *)
Told(s, v, m, r) ==
  LET t == v.run
      call == IF m.report = None THEN <<m.to, m.session>> ELSE m.report
  IN CASE m.then = "raised" ->
            /\ Change(s, IF r = "block" THEN v ELSE Dispatch(v), {})
            /\ aborted' = (r = "block")
            /\ UNCHANGED <<timers, told>>
       [] m.then = "tell" ->
            /\ r = "block" => SessionLeft(v) /\ FreeThreads(v) # {}
            /\ Change(s, IF r # "block" THEN v
                         ELSE [v EXCEPT !.post = Mail(s, "response", v.next, call, "later")], {})
            /\ told' = IF r = "done" /\ v.job[t] = "quitting" THEN told \cup {call} ELSE told
            /\ UNCHANGED <<timers, aborted>>
       [] m.then = "later" ->
            /\ IF r = "done"
               THEN LET u == NewThread(v)
                    IN Change(s, Suspend(Create(v, u, "report", None, Nil, {call}), u), {})
               ELSE Change(s, Fail(v), IF v.job[t] = "tell" THEN {call} \cup v.todo[t] ELSE {})
            /\ told' = IF r = "done" /\ v.job[t] = "quitting" THEN told \cup {call} ELSE told
            /\ UNCHANGED <<timers, aborted>>
       [] m.then = "report" ->
            /\ r = "block" => SessionLeft(v)
            /\ Change(s, IF r = "block" THEN Dispatch(Suspend(v, t)) ELSE End(v),
                      IF r = "error" THEN {call} ELSE {})
            /\ timers' = IF r = "block" THEN timers \cup {<<s, v.next>>} ELSE timers
            /\ UNCHANGED <<told, aborted>>
       [] OTHER -> FALSE

Receipt(to) == IF vm[to].state # "live" THEN "error"
               ELSE IF Len(queue[to]) >= QueueLen THEN "block" ELSE "done"

Deliver(s) ==
  LET m == vm[s].post
      r == Receipt(m.to)
      v == [vm[s] EXCEPT !.post = None]
      mail == [from |-> s, session |-> m.session, type |-> m.type,
               report |-> IF m.type = "request" THEN m.report ELSE None]
  IN /\ ~aborted /\ m # None
     /\ queue' = IF r = "done" THEN [queue EXCEPT ![m.to] = Append(@, mail)] ELSE queue
     /\ \/ Sent(s, v, m, r) /\ UNCHANGED <<timers, told, aborted>>
        \/ Told(s, v, m, r)

Ready(s) == /\ ~aborted
            /\ vm[s].state = "live" /\ vm[s].run = None /\ vm[s].post = None
            /\ queue[s] # <<>>

(* A request to a service: new_session.  An unknown command is answered with
   an error by send_error. *)
RecvRequest(s) ==
  LET m == Head(queue[s])
      t == NewThread(vm[s])
  IN /\ Ready(s) /\ m.type = "request" /\ FreeThreads(vm[s]) # {}
     /\ \/ /\ s # Root
           /\ Change(s, [Create(vm[s], t, "user", m.from, m.session, {}) EXCEPT !.run = t], {})
        \/ /\ s # Root /\ "unknown" \in can[s]
           /\ Change(s, [Create(vm[s], t, "tell", None, Nil, {<<m.from, m.session>>})
                           EXCEPT !.run = t], {})
        \/ /\ s = Root   \* S.report_error
           /\ Change(s, [Create(vm[s], t, "tell", m.from, m.session, {m.report})
                           EXCEPT !.run = t], {})
     /\ queue' = [queue EXCEPT ![s] = Tail(@)]
     /\ UNCHANGED <<timers, told, aborted>>

(* A response or an error: the coroutine that waits for it goes on.  For a
   session nobody waits for the service quits. *)
RecvAnswer(s) ==
  LET m == Head(queue[s])
      h == vm[s].lookup[m.session]
      v == [vm[s] EXCEPT !.lookup[m.session] = None]
  IN /\ Ready(s) /\ m.type \in {"response", "error"}
     /\ h = None => FreeThreads(v) # {}
     /\ Change(s, CASE h = None -> Dispatch(Fork(v, "quit"))
                    [] h \in {Ignore, Stale} -> v
                    [] h = Select -> Dispatch(Selected(v, m))
                    [] OTHER -> [v EXCEPT !.run = h], {})
     /\ queue' = [queue EXCEPT ![s] = Tail(@)]
     /\ UNCHANGED <<timers, told, aborted>>

(* mutant: the requests a dead service did not take are not answered *)
UntakenNone(s) == {}

(* close_service: the requests left in the queue of a dead service *)
Untaken(s) ==
  {<<queue[s][i].from, queue[s][i].session>> :
     i \in {j \in DOMAIN queue[s] : queue[s][j].type = "request"}}

(* The signal of a dead service gets to root when its queue has room. *)
Signal(s) ==
  /\ ~aborted /\ vm[s].state = "dead" /\ s # Root
  /\ Len(queue[Root]) < QueueLen
  /\ queue' = [queue EXCEPT ![Root] =
        Append(@, [from |-> s, session |-> 0, type |-> "signal", report |-> None])]
  /\ vm' = [vm EXCEPT ![s].state = "signalled"]
  /\ UNCHANGED <<timers, lost, told, aborted>>

(* del_service: root closes the service and answers for it. *)
RecvSignal ==
  LET m == Head(queue[Root])
      t == NewThread(vm[Root])
  IN /\ Ready(Root) /\ m.type = "signal" /\ FreeThreads(vm[Root]) # {}
     /\ vm' = [vm EXCEPT ![m.from].state = "gone",
                         ![Root] = [Create(@, t, "tell", m.from, 0, Untaken(m.from))
                                     EXCEPT !.run = t]]
     /\ queue' = [queue EXCEPT ![Root] = Tail(@), ![m.from] = <<>>]
     /\ UNCHANGED <<timers, lost, told, aborted>>

(* The timer service answers the session.  What finds the queue full waits
   in its sending queue; nothing is sent to a dead service. *)
Fire(s, k) ==
  /\ ~aborted /\ <<s, k>> \in timers
  /\ timers' = timers \ {<<s, k>>}
  /\ \/ /\ vm[s].state = "live" /\ Len(queue[s]) < QueueLen
        /\ queue' = [queue EXCEPT ![s] =
              Append(@, [from |-> s, session |-> k, type |-> "response", report |-> None])]
     \/ vm[s].state # "live" /\ UNCHANGED queue
  /\ UNCHANGED <<vm, lost, told, aborted>>

UserStep(s) ==
  \/ \E to \in Users, op \in {"call", "send"} : SendRequest(s, to, op)
  \/ \E op \in {"sleep", "timeout"} : WakeSelf(s, op)
  \/ SleepTime(s) \/ ForkUser(s) \/ NoResponse(s) \/ Quit(s) \/ Raise(s) \/ Return(s)
  \/ \E w \in Tokens : Wait(s, w) \/ Wakeup(s, w)
  \/ BeginSelect(s) \/ SelectSend(s) \/ SelectSent(s) \/ SelectNext(s)
  \/ SelectWoken(s) \/ SelectClose(s)

RuntimeStep(s) ==
  \/ BeginQuit(s) \/ TellEnd(s) \/ Report(s) \/ Deliver(s)
  \/ RecvRequest(s) \/ RecvAnswer(s) \/ Signal(s)
  \/ \E c \in Services, k \in (0..MaxSession) \cup {Nil} : Tell(s, <<c, k>>)

Next == /\ \/ \E s \in Users : UserStep(s)
           \/ \E s \in Services : RuntimeStep(s)
           \/ RecvSignal
           \/ \E s \in Services, k \in Sessions : Fire(s, k)
        /\ UNCHANGED can

Spec == Init /\ [][Next]_vars

-----------------------------------------------------------------------------
(* Properties. *)

(* A coroutine of c is suspended until session k is answered. *)
Awaited(c, k) ==
  /\ vm[c].state = "live"
  /\ \/ vm[c].lookup[k] \in Thread
     \/ vm[c].lookup[k] = Select /\ vm[c].sel # None
        /\ k \in vm[c].sel.sessions \cup {vm[c].sel.timer}

MailCarries(m, to, call) ==
  IF m.report # None THEN m.report = call
  ELSE IF m.type = "request" THEN <<m.from, m.session>> = call
  ELSE m.type # "signal" /\ <<to, m.session>> = call
(* A coroutine that quits still has the session until the receipt. *)
PostCarries(v, call) ==
  LET m == v.post
  IN IF m = None THEN FALSE
     ELSE IF m.report # None THEN m.then = "later" /\ v.job[v.run] = "tell" /\ m.report = call
     ELSE m.type # "request" /\ <<m.to, m.session>> = call
          /\ (m.then = "tell" => v.job[v.run] = "tell")

(* How many things are, or will turn into, an answer to session k of c: the
   request in a queue, the coroutine that executes it, the response or error
   on its way or in the queue of c, a timer, an error to be sent for others. *)
Carriers(c, k) ==
  LET call == <<c, k>>
  IN Cardinality({p \in Services \X (1..QueueLen) :
                    /\ p[2] <= Len(queue[p[1]])
                    /\ MailCarries(queue[p[1]][p[2]], p[1], call)})
     + Cardinality({s \in Services : PostCarries(vm[s], call)})
     + Cardinality({p \in Services \X Thread :
                    /\ vm[p[1]].from[p[2]] = c /\ vm[p[1]].session[p[2]] = k
                    /\ call \notin told})
     + Cardinality({p \in Services \X Thread :
                    /\ call \in vm[p[1]].todo[p[2]]
                    /\ vm[p[1]].job[p[2]] # "quitting"})
     + Cardinality({call} \cap timers)

(* A coroutine that waits for an answer is owed exactly one, whatever its
   callee, root and the timers are doing and whoever of them dies, except
   where the code is known to drop it: a response that finds the caller's
   queue full, no_response, a coroutine that dies with its service.  A service
   that quits may answer again what it has sent an error for. *)
OneAnswer ==
  ~aborted => \A c \in Services, k \in Sessions : Awaited(c, k) =>
    CASE <<c, k>> \notin lost \cup told -> Carriers(c, k) = 1
      [] <<c, k>> \in told \ lost -> Carriers(c, k) >= 1
      [] <<c, k>> \in lost \ told -> Carriers(c, k) = 0
      [] OTHER -> TRUE

(* A response or error in a queue has a coroutine that waits for it (a
   service that gets any other quits), unless a quitting service sent it
   twice. *)
NoStray ==
  \A c \in Services : vm[c].state = "live" =>
    \A i \in DOMAIN queue[c] :
      LET m == queue[c][i]
      IN m.type \in {"response", "error"} /\ vm[c].lookup[m.session] = None
           => <<c, m.session>> \in told \/ (m.session = 0 /\ m.from = Root)

(* A coroutine is resumed from one place: it runs, or it is in the wakeup
   queue, or one session or one token of ltask.wait leads to it.  Resumed from
   a second one it would go on in the middle of another wait. *)
OnePlace ==
  \A s \in Services, t \in Thread :
    Cardinality({k \in DOMAIN vm[s].lookup : vm[s].lookup[k] = t})
    + Cardinality({i \in DOMAIN vm[s].wakeups : vm[s].wakeups[i] = t})
    + Cardinality({k \in DOMAIN vm[s].waiting : vm[s].waiting[k] = t})
    + (IF vm[s].run = t THEN 1 ELSE 0) <= 1

(* The tables of the runtime hold what they should, and lead to a coroutine
   from one place at most (ltask/service/service.lua:
   session_coroutine_suspend_lookup, session_waiting, wakeup_queue). *)
OneResumption == TypeOK /\ OnePlace

(* A loop over a select ends by itself, in a service that lives on, only when
   it has timed out or when every request that was sent has been answered,
   with a response or an error, in whatever order the answers came and while
   the body was waiting. *)
SelectComplete ==
  [][\A s \in Users :
       /\ vm[s].sel # None /\ vm'[s].sel = None
       /\ vm'[s].state = "live"
       /\ SelectNext(s) \/ SelectWoken(s)
       => \/ vm[s].sel.timeout
          \/ \A k \in vm[s].sel.sessions : vm[s].lookup[k] # Select]_vars

=============================================================================
