----------------------------- MODULE Scheduler -----------------------------
(***************************************************************************)
(* The M:N scheduler of ltask (ltask/src/ltask.c, worker.h, thread.h):     *)
(* worker threads that run services, exclusive threads that own one        *)
(* service each, and the scheduling pass that whichever thread holds       *)
(* schedule_owner performs for all of them.                                *)
(*                                                                         *)
(* Every access to a variable that two threads share is a step of its own: *)
(* the mailboxes service_ready and service_done of each worker, the lock   *)
(* schedule_owner, the counter active_worker, the flag `sleeping' and the  *)
(* event it guards.  What is touched only under the lock (the schedule     *)
(* queue, the locals of the pass) changes in the step that uses it.  The   *)
(* locals of schedule_dispatch are variables shared by all threads because *)
(* only the owner of the lock is ever inside it (invariant OneScheduler).  *)
(*                                                                         *)
(* A failed assert() stops the program: `failed' names it and no action is *)
(* enabled after it.                                                       *)
(***************************************************************************)
EXTENDS ServicePool, Integers

CONSTANTS NWorker,        \* config->worker
          Exclusives,     \* services that own a thread; a thread is named by
                          \* its service
          Preloaded,      \* services made with bootstrap.new_service
          SendingLen,     \* messages a sending queue holds
          SendingBlocked, \* SENDING_BLOCKED
          Mortal,         \* services whose main loop may end (SCHEDULE_QUIT)
          Killable,       \* services S.kill is asked for, or whose init fails
          Posters,        \* bound: services that post requests,
          Addressees,     \* and whom they post them to
          SpuriousCAS,    \* atomic_compare_exchange_weak may fail spuriously
          MaxPosts,       \* bound: requests posted, over all services,
          Endless,        \* unless ordinary services post for ever
          MaxNews         \* bound: services created while running

Workers == 1..NWorker
(* task->schedule is a ring of max_service slots, one of which stays empty. *)
ScheduleLen == MaxService - 1
Threads == Workers \cup Exclusives

ASSUME SchedulerAssumption ==
  /\ NWorker \in Nat \ {0}
  /\ Exclusives \subseteq Services \ {Root}
  /\ Preloaded \subseteq Services \ (Exclusives \cup {Root})
  /\ Exclusives \cap Workers = {}
  /\ NoService \notin Threads
  /\ {SendingLen, SendingBlocked, MaxPosts, MaxNews} \subseteq Nat
  /\ Mortal \subseteq Services /\ Killable \subseteq Services
  /\ Posters \subseteq Services /\ Addressees \subseteq Services \cup {System}
  /\ SpuriousCAS \in BOOLEAN /\ Endless \in BOOLEAN

VARIABLES
  pool,      \* the service pool
  fresh,     \* ids service_new has not handed out yet
  posts,     \* requests posted so far
  news,      \* services created so far
  schedule,  \* task->schedule, the queue of runnable services
  owner,     \* task->schedule_owner (NoService is THREAD_NONE)
  active,    \* task->active_worker
  ready,     \* worker->service_ready
  running,   \* worker->running
  done,      \* worker->service_done
  sleeping,  \* worker->sleeping
  event,     \* worker->trigger.flag
  term,      \* term_signal of every thread
  sending,   \* exclusive->sending
  pending,   \* message_out of exclusive_message
  doneJob, index, job, jobs, nojob, blocked,  \* locals under the lock
  quitAt,    \* the loop counter of wakeup_all_workers
  pc,        \* where each thread is
  ret,       \* which call of the scheduling pass the thread is in
  failed     \* the assertion that failed, or "none"

poolVars == <<pool, fresh, posts, news>>
slotVars == <<ready, running, done>>
sleepVars == <<sleeping, event, active>>
frameVars == <<doneJob, index, job, jobs, nojob, blocked>>
exclusiveVars == <<sending, pending>>
quitVars == <<term, quitAt>>
restVars == <<poolVars, schedule, owner, frameVars, exclusiveVars, quitVars>>
notPc == <<restVars, slotVars, sleepVars, ret, failed>>
vars == <<notPc, pc>>

WorkerLabel == {"start", "loop", "check", "set", "resume", "complete",
                "completeOwned", "completeSelf", "acquire", "collect",
                "dispatch", "assign", "wake", "steal", "release", "dec",
                "last", "inc", "decAgain", "sleep", "setSleeping",
                "wait", "unsleep", "awake", "wakeAll", "exit", "quit"}
ExclusiveLabel == {"loop", "resume", "message", "spin", "out", "send",
                   "collect", "dispatch", "assign", "wake", "active",
                   "wakeSome", "release", "exit", "quit"}
(* The calls of schedule_dispatch: a worker that found its done slot taken
   ("self": it clears the slot for itself, l.442; "done": l.446), one that
   has no job (l.455), the last active one (l.467), and an exclusive thread
   (l.502). *)
Call == {"self", "done", "nojob", "last", "exclusive"}
Failure == {"none", "signal", "self complete", "schedule full"}

TypeOK ==
  /\ pool \in [Services -> Service]
  /\ fresh \subseteq Services
  /\ posts \in 0..MaxPosts /\ news \in 0..MaxNews
  /\ schedule \in Seq(Services)
  /\ owner \in Threads \cup {NoService}
  /\ active \in Int
  /\ ready \in [Workers -> Services \cup {NoService}]
  /\ running \in [Workers -> Services \cup {NoService}]
  /\ done \in [Workers -> Services \cup {NoService}]
  /\ sleeping \in [Workers -> BOOLEAN]
  /\ event \in [Workers -> BOOLEAN]
  /\ term \in [Threads -> BOOLEAN]
  /\ sending \in [Exclusives -> Seq(Mail)]
  /\ pending \in [Exclusives -> Message \cup {NoMsg}]
  /\ doneJob \in Seq(Services)
  /\ index \in Nat \ {0} /\ jobs \in Int
  /\ job \in Services \cup {NoService}
  /\ nojob \in BOOLEAN
  /\ blocked \in [n : Nat, id : SUBSET Services]
  /\ quitAt \in Nat
  /\ pc \in [Threads -> WorkerLabel \cup ExclusiveLabel]
  /\ ret \in [Threads -> Call]
  /\ failed \in Failure

(***************************************************************************)
(* The program starts with root scheduled for the message that boots it    *)
(* (bootstrap.post_message), the services made by bootstrap.new_service    *)
(* idle, and one thread for each exclusive service (bootstrap.new_thread). *)
(***************************************************************************)
Boot == [from |-> Root, to |-> Root, type |-> "request", session |-> 0,
         sid |-> NoService]

(* struct sending_blocked, empty. *)
NoneBlocked == [n |-> 0, id |-> {}]

Init ==
  /\ pool = [s \in Services |->
               IF s = Root
               THEN [EmptyService("schedule") EXCEPT !.msg = <<Boot>>]
               ELSE IF s \in Exclusives THEN EmptyService("exclusive")
               ELSE IF s \in Preloaded THEN EmptyService("idle") ELSE Absent]
  /\ fresh = Services \ ({Root} \cup Exclusives \cup Preloaded)
  /\ posts = 0 /\ news = 0
  /\ schedule = <<Root>>
  /\ owner = NoService
  /\ active = 0
  /\ ready = [w \in Workers |-> NoService]
  /\ running = [w \in Workers |-> NoService]
  /\ done = [w \in Workers |-> NoService]
  /\ sleeping = [w \in Workers |-> FALSE]
  /\ event = [w \in Workers |-> FALSE]
  /\ term = [t \in Threads |-> FALSE]
  /\ sending = [x \in Exclusives |-> <<>>]
  /\ pending = [x \in Exclusives |-> NoMsg]
  /\ doneJob = <<>> /\ index = 1 /\ job = NoService /\ jobs = 0
  /\ nojob = FALSE /\ blocked = NoneBlocked
  /\ quitAt = 0
  /\ pc = [t \in Threads |-> IF t \in Workers THEN "start" ELSE "loop"]
  /\ ret = [t \in Threads |-> "done"]
  /\ failed = "none"

At(t, l) == failed = "none" /\ pc[t] = l
Goto(t, l) == pc' = [pc EXCEPT ![t] = l]

(***************************************************************************)
(* The kernel k of the scheduler: the state its lock protects.             *)
(***************************************************************************)
ScheduleBack(k, s) == [k EXCEPT !.schedule = Append(@, s)]

ScheduleIfIdle(k, s) ==
  IF ServiceStatusGet(k.pool, s) = "idle"
  THEN ScheduleBack([k EXCEPT !.pool = ServiceStatusSet(@, s, "schedule")], s)
  ELSE k

Push(k, m) == [k EXCEPT !.pool = ServicePushMessage(@, m.to, m)]

Answer(k, id, r, m) == [k EXCEPT !.pool = ServiceWriteReceipt(@, id, r, m)]

(* HANG: a scheduled service is killed where it stands and the caller is
   answered ERROR; a service being run is put back in the schedule; an idle
   one is killed and the caller is answered DONE. *)
HangService(k, id, m) ==
  IF ServiceStatusGet(k.pool, m.sid) = "schedule"
  THEN Answer([k EXCEPT !.pool = ServiceHang(@, m.sid)], id, "error", m)
  ELSE IF HangRefused(k.pool, m.sid)
  THEN Answer(ScheduleBack(k, m.sid), id, "error", m)
  ELSE Answer([k EXCEPT !.pool = ServiceHang(@, m.sid)], id, "done", NoMsg)

(* dispatch_schedule_message; n is the id service_new would hand out. *)
DispatchScheduleMessage(k, id, m, n) ==
  IF id # Root THEN Answer(k, id, "error", m)
  ELSE CASE m.type = "new" ->
              IF n = NoService THEN Answer(k, id, "error", m)
              ELSE Answer([k EXCEPT !.pool = ServiceNew(@, n),
                                    !.fresh = @ \ {n}],
                          id, "response", [m EXCEPT !.to = n])
         [] m.type = "del" ->
              Answer([k EXCEPT !.pool = ServiceDelete(@, m.sid)],
                     id, "done", NoMsg)
         [] m.type = "hang" -> HangService(k, id, m)
         [] OTHER -> Answer(k, id, "error", m)

DispatchOutMessage(k, id, m, n) ==
  IF m.to = System THEN DispatchScheduleMessage(k, id, m, n)
  ELSE LET r == PushResult(k.pool, m.to)
       IN  ScheduleIfIdle(Answer(Push(k, m), id, r,
                                 IF r = "done" THEN NoMsg ELSE m), m.to)

(* The death signal of a service goes to root; if root is gone, the service
   is deleted; if root's queue is full, the service is scheduled again. *)
SignalRoot(k, id, m) ==
  CASE PushResult(k.pool, Root) = "done" -> ScheduleIfIdle(Push(k, m), Root)
    [] PushResult(k.pool, Root) = "block" -> ScheduleBack(k, id)
    [] OTHER -> [k EXCEPT !.pool = ServiceDelete(@, id)]

(* mutant: parks a service although an answer waits for it *)
ParkWithReceipt(k, id) ==
  IF Exists(k.pool, id) /\ k.pool[id].msg # <<>>
  THEN ScheduleBack([k EXCEPT !.pool = ServiceStatusSet(@, id, "schedule")],
                    id)
  ELSE [k EXCEPT !.pool = ServiceStatusSet(@, id, "idle")]

(* After its message is out, a service waits for more or runs again. *)
Park(k, id) ==
  IF ServiceHasMessage(k.pool, id)
  THEN ScheduleBack([k EXCEPT !.pool = ServiceStatusSet(@, id, "schedule")],
                    id)
  ELSE [k EXCEPT !.pool = ServiceStatusSet(@, id, "idle")]

Kernel == [pool |-> pool, schedule |-> schedule, fresh |-> fresh]
(* queue_push_int succeeds or the assert of schedule_back fails. *)
SetKernel(k) ==
  /\ pool' = k.pool /\ schedule' = k.schedule /\ fresh' = k.fresh
  /\ failed' = IF Len(k.schedule) > ScheduleLen THEN "schedule full"
               ELSE "none"
(* The ids service_new may answer m with. *)
NewIds(m) == IF m # NoMsg /\ m.type = "new" /\ ~PoolFull(pool) /\ fresh # {}
             THEN fresh ELSE {NoService}

(***************************************************************************)
(* A worker takes a job: thread_worker l.403-415.                          *)
(***************************************************************************)
StartWorker(w) ==
  /\ At(w, "start")
  /\ active' = active + 1
  /\ Goto(w, "loop")
  /\ UNCHANGED <<restVars, slotVars, sleeping, event, ret, failed>>

(* worker_get_job: the scheduler may steal the job between the load and the
   CAS, which is no different from its having stolen it before the load. *)
TakeJob(w) ==
  /\ At(w, "loop") /\ ~term[w] /\ ready[w] # NoService
  /\ running' = [running EXCEPT ![w] = ready[w]]
  /\ ready' = [ready EXCEPT ![w] = NoService]
  /\ Goto(w, "check")
  /\ UNCHANGED <<restVars, done, sleepVars, ret, failed>>

(* No job, or a CAS that failed for no reason. *)
FindNoJob(w) ==
  /\ At(w, "loop") /\ ~term[w]
  /\ ready[w] = NoService \/ SpuriousCAS
  /\ ret' = [ret EXCEPT ![w] = "nojob"]
  /\ Goto(w, "acquire")
  /\ UNCHANGED <<restVars, slotVars, sleepVars, failed>>

(* The status is read here and written in SetRunning: a HANG may come in
   between. *)
CheckDead(w) ==
  /\ At(w, "check")
  /\ Goto(w, IF ServiceStatusGet(pool, running[w]) = "dead"
             THEN "complete" ELSE "set")
  /\ UNCHANGED notPc

SetRunning(w) ==
  /\ At(w, "set")
  /\ pool' = ServiceStatusSet(pool, running[w], "running")
  /\ Goto(w, "resume")
  /\ UNCHANGED <<fresh, posts, news, schedule, owner, slotVars, sleepVars,
                 frameVars, exclusiveVars, quitVars, ret, failed>>

(***************************************************************************)
(* service_resume: what the VM of a service may do between two yields      *)
(* (service.lua, root.lua).  It reads the receipt of its last message if   *)
(* there is one and goes on with the coroutine that posted it, or else     *)
(* takes a message; it may then post one message, or end.  Everything it   *)
(* does to the pool is one step: the scheduler looks at none of it before  *)
(* the service is in service_done.                                         *)
(***************************************************************************)
(* mutant: a message is taken before the receipt is read *)
ConsumedOutOfTurn(s) == IF NextMessage(pool, s) # NoMsg
                        THEN ServicePopMessage(pool, s)
                        ELSE ServiceReadReceipt(pool, s)

Consumed(s) == IF pool[s].receipt # "none" THEN ServiceReadReceipt(pool, s)
               ELSE ServicePopMessage(pool, s)
Busy(s) == pool[s].receipt # "none" \/ NextMessage(pool, s) # NoMsg

Request(s, d, n) == [from |-> s, to |-> d, type |-> "request",
                     session |-> n, sid |-> NoService]
Command(c, s) == [from |-> Root, to |-> System, type |-> c, session |-> 0,
                  sid |-> s]

(* root.lua's new_service, resumed by the receipt of NEW, and the handler of
   a death signal leave root no other choice. *)
MustInit(s) == s = Root /\ pool[s].receipt = "response"
MustReap(s) == /\ s = Root /\ pool[s].receipt = "none"
               /\ NextMessage(pool, s) # NoMsg
               /\ NextMessage(pool, s).type = "signal"
Free(s) == Exists(pool, s) /\ ~MustInit(s) /\ ~MustReap(s)

(* A service knows only the addresses of services that were initialised. *)
Known(d) ==
  d # System => d \notin fresh /\ pool[d].status # "uninitialized"

Finish(w, P) ==
  /\ pool' = ServiceStatusSet(P, running[w], "done")
  /\ Goto(w, "complete")
  /\ UNCHANGED <<fresh, schedule, owner, slotVars, sleepVars, frameVars,
                 exclusiveVars, quitVars, ret, failed>>

Yield(w) ==
  /\ At(w, "resume") /\ Free(running[w])
  /\ Finish(w, Consumed(running[w]))
  /\ UNCHANGED <<posts, news>>

Post(w) ==
  LET s == running[w] IN
  /\ At(w, "resume") /\ Free(s) /\ Busy(s) /\ s \in Posters
  /\ Endless \/ posts < MaxPosts
  /\ posts' = IF Endless THEN posts ELSE posts + 1
  /\ \E d \in Addressees :
       /\ Known(d)
       /\ Finish(w, ServiceSendMessage(Consumed(s), s, Request(s, d, 0)))
  /\ UNCHANGED news

(* mutant: a service dies without a word *)
DeathUnsignalled(P, s) == ServiceStatusSet(P, s, "dead")

(* The main loop ends, or a VM that was deleted is resumed: the service is
   dead, and root gets a signal unless it is root itself that ends. *)
Death(P, s) == ServiceSendSignal(ServiceStatusSet(P, s, "dead"), s)

Quit(w) ==
  LET s == running[w] IN
  /\ At(w, "resume") /\ s # Root
  /\ ~Exists(pool, s) \/ (s \in Mortal /\ Free(s) /\ Busy(s))
  /\ pool' = IF Exists(pool, s)
             THEN Death(Consumed(s), s)
             ELSE pool
  /\ Goto(w, "complete")
  /\ UNCHANGED <<fresh, posts, news, schedule, owner, slotVars, sleepVars,
                 frameVars, exclusiveVars, quitVars, ret, failed>>

(* mutant: quit_all_exclusives is forgotten *)
TermWorkers == [t \in Threads |-> t \in Workers]

(* root: quit_all_workers and quit_all_exclusives; WakeAll goes on. *)
TermAll == [t \in Threads |-> TRUE]

QuitRoot(w) ==
  /\ At(w, "resume") /\ running[w] = Root
  /\ Root \in Mortal /\ Free(Root) /\ Busy(Root)
  /\ pool' = ServiceStatusSet(Consumed(Root), Root, "dead")
  /\ term' = TermAll
  /\ quitAt' = 1
  /\ Goto(w, "wakeAll")
  /\ UNCHANGED <<fresh, posts, news, schedule, owner, slotVars, sleepVars,
                 frameVars, exclusiveVars, ret, failed>>

(* root: new_service and S.kill post to SYSTEM. *)
RootNew(w) ==
  /\ At(w, "resume") /\ running[w] = Root /\ Free(Root) /\ Busy(Root)
  /\ news < MaxNews /\ fresh # {} /\ news' = news + 1
  /\ Finish(w, ServiceSendMessage(Consumed(Root), Root,
                                  Command("new", NoService)))
  /\ UNCHANGED posts

RootKill(w) ==
  /\ At(w, "resume") /\ running[w] = Root /\ Free(Root) /\ Busy(Root)
  /\ posts < MaxPosts /\ posts' = posts + 1
  /\ \E s \in Killable :
       /\ Known(s)
       /\ Finish(w, ServiceSendMessage(Consumed(Root), Root,
                                       Command("hang", s)))
  /\ UNCHANGED news

(* root: the receipt of NEW brings the address; root.init_service makes the
   VM and `init' is posted to it, or fails and the address is killed. *)
RootInit(w) ==
  LET s == pool[Root].bounce.to
      P == ServiceReadReceipt(pool, Root)
  IN
  /\ At(w, "resume") /\ running[w] = Root /\ MustInit(Root)
  /\ \/ Finish(w, ServiceSendMessage(ServiceInit(P, s), Root,
                                     Request(Root, s, 0)))
     \/ Finish(w, ServiceSendMessage(ServiceDelete(P, s), Root,
                                     Command("hang", s)))
  /\ UNCHANGED <<posts, news>>

(* root: del_service closes a dead service, messages and all, and posts DEL;
   root.close_service raises an error for one that is not dead. *)
RootReap(w) ==
  LET s == NextMessage(pool, Root).from
      P == ServicePopMessage(pool, Root)
  IN
  /\ At(w, "resume") /\ running[w] = Root /\ MustReap(Root)
  /\ Finish(w, IF ServiceStatusGet(P, s) # "dead" THEN P
               ELSE ServiceSendMessage(ServiceDelete(P, s), Root,
                                       Command("del", s)))
  /\ UNCHANGED <<posts, news>>

(***************************************************************************)
(* The job goes to service_done, l.437-450.  The scheduler may not have    *)
(* collected the previous one; then the worker tries to become the         *)
(* scheduler and clear the slot itself.                                    *)
(***************************************************************************)
(* mutant: a store where the CAS is *)
CompleteOver(w, l) ==
  /\ done' = [done EXCEPT ![w] = running[w]]
  /\ running' = [running EXCEPT ![w] = NoService]
  /\ Goto(w, l)

CompleteTo(w, l) ==
  /\ done[w] = NoService
  /\ done' = [done EXCEPT ![w] = running[w]]
  /\ running' = [running EXCEPT ![w] = NoService]
  /\ Goto(w, l)

Complete(w) ==
  /\ At(w, "complete")
  /\ CompleteTo(w, "loop")
  /\ UNCHANGED <<restVars, ready, sleepVars, ret, failed>>

CompleteBlocked(w) ==
  /\ At(w, "complete")
  /\ done[w] # NoService \/ SpuriousCAS
  /\ ret' = [ret EXCEPT ![w] = "done"]
  /\ Goto(w, "acquire")
  /\ UNCHANGED <<restVars, slotVars, sleepVars, failed>>

(* The locals of a call of schedule_dispatch ... *)
EnterDispatch ==
  /\ doneJob' = <<>> /\ index' = 1 /\ job' = NoService /\ jobs' = 0
  /\ UNCHANGED <<nojob, blocked>>

(* The second attempt, with the lock held. *)
CompleteOwned(w) ==
  /\ At(w, "completeOwned")
  /\ CompleteTo(w, "collect")
  /\ EnterDispatch
  /\ UNCHANGED <<poolVars, schedule, owner, ready, sleepVars, exclusiveVars,
                 quitVars, ret, failed>>

DispatchForSelf(w) ==
  /\ At(w, "completeOwned")
  /\ done[w] # NoService \/ SpuriousCAS
  /\ ret' = [ret EXCEPT ![w] = "self"]
  /\ Goto(w, "collect")
  /\ EnterDispatch
  /\ UNCHANGED <<poolVars, schedule, owner, slotVars, sleepVars, exclusiveVars,
                 quitVars, failed>>

(* The third attempt, after the pass cleared the slot, and assert(!fail). *)
CompleteSelf(w) ==
  /\ At(w, "completeSelf")
  /\ CompleteTo(w, "collect")
  /\ ret' = [ret EXCEPT ![w] = "done"]
  /\ EnterDispatch
  /\ UNCHANGED <<poolVars, schedule, owner, ready, sleepVars, exclusiveVars,
                 quitVars, failed>>

CompleteSelfFails(w) ==
  /\ At(w, "completeSelf")
  /\ done[w] # NoService \/ SpuriousCAS
  /\ failed' = "self complete"
  /\ UNCHANGED <<restVars, slotVars, sleepVars, pc, ret>>

(***************************************************************************)
(* acquire_scheduler tries once; what a worker does next depends on the    *)
(* call it is making.                                                      *)
(***************************************************************************)
(* mutants: the load of acquire_scheduler is dropped; release_scheduler is *)
LockAssumedFree == owner \in Threads \cup {NoService}
NoUnlock == owner' = owner

LockFree == owner = NoService
Unlock == owner' = NoService

Acquire(w) ==
  /\ At(w, "acquire") /\ LockFree
  /\ owner' = w
  /\ Goto(w, IF ret[w] = "done" THEN "completeOwned" ELSE "collect")
  /\ EnterDispatch
  /\ UNCHANGED <<poolVars, schedule, slotVars, sleepVars, exclusiveVars,
                 quitVars, ret, failed>>

AcquireFails(w) ==
  /\ At(w, "acquire")
  /\ owner # NoService \/ SpuriousCAS
  /\ Goto(w, CASE ret[w] = "done" -> "complete"
               [] ret[w] = "nojob" -> "dec"
               [] OTHER -> "decAgain")
  /\ ret' = [ret EXCEPT ![w] = "done"]
  /\ UNCHANGED <<restVars, slotVars, sleepVars, failed>>

(* ... and what becomes of it, and of the call, when the lock is released. *)
LeaveDispatch(t) ==
  /\ doneJob' = <<>> /\ index' = 1 /\ job' = NoService /\ jobs' = 0
  /\ nojob' = FALSE /\ blocked' = NoneBlocked
  /\ ret' = [ret EXCEPT ![t] = "done"]

(***************************************************************************)
(* schedule_dispatch, by the thread t that owns the lock.                  *)
(* Step 1, collect service_done, one worker at a time.                     *)
(***************************************************************************)
(* mutant: the last worker's slot is passed over *)
MoreWorkersShort == index < NWorker

MoreWorkers == index <= NWorker

CollectDone(t) ==
  /\ At(t, "collect") /\ MoreWorkers
  /\ doneJob' = IF done[index] = NoService THEN doneJob
                ELSE Append(doneJob, done[index])
  /\ done' = [done EXCEPT ![index] = NoService]
  /\ index' = index + 1
  /\ UNCHANGED <<poolVars, schedule, owner, ready, running, sleepVars, job,
                 jobs, nojob, blocked, exclusiveVars, quitVars, pc, ret,
                 failed>>

CollectEnd(t) ==
  /\ At(t, "collect") /\ ~MoreWorkers
  /\ Goto(t, "dispatch")
  /\ UNCHANGED notPc

(* Step 2, dispatch the outbound message of each service that is done. *)
DispatchVars ==
  /\ doneJob' = Tail(doneJob)
  /\ UNCHANGED <<posts, news, owner, slotVars, sleepVars, index, job, jobs,
                 nojob, blocked, exclusiveVars, quitVars, pc, ret>>

DispatchJob(t) ==
  LET id == Head(doneJob)
      m  == pool[id].out
      k  == [Kernel EXCEPT !.pool = ServiceMessageOut(pool, id)]
  IN
  /\ At(t, "dispatch") /\ doneJob # <<>>
  /\ ServiceStatusGet(pool, id) # "dead"
  /\ \E n \in NewIds(m) :
       SetKernel(Park(IF m = NoMsg THEN k ELSE DispatchOutMessage(k, id, m, n),
                      id))
  /\ DispatchVars

IsSignal(m) == m # NoMsg /\ m.to = Root /\ m.type = "signal"

(* A dead service has nothing to send but its death signal. *)
DispatchSignal(t) ==
  LET id == Head(doneJob) IN
  /\ At(t, "dispatch") /\ doneJob # <<>>
  /\ ServiceStatusGet(pool, id) = "dead"
  /\ IsSignal(pool[id].out)
  /\ SetKernel(SignalRoot([Kernel EXCEPT !.pool = ServiceMessageOut(pool, id)],
                          id, pool[id].out))
  /\ DispatchVars

(* assert(msg && msg->to.id == SERVICE_ID_ROOT && msg->type == ...) fails *)
NoSignal(t) ==
  LET id == Head(doneJob) IN
  /\ At(t, "dispatch") /\ doneJob # <<>>
  /\ ServiceStatusGet(pool, id) = "dead"
  /\ ~IsSignal(pool[id].out)
  /\ failed' = "signal"
  /\ UNCHANGED <<restVars, slotVars, sleepVars, pc, ret>>

DispatchEnd(t) ==
  /\ At(t, "dispatch") /\ doneJob = <<>>
  /\ index' = 1
  /\ Goto(t, "assign")
  /\ UNCHANGED <<poolVars, schedule, owner, slotVars, sleepVars, doneJob, job,
                 jobs, nojob, blocked, exclusiveVars, quitVars, ret, failed>>

(* Step 3, give the jobs in the queue to the workers whose mailbox is empty,
   and wake each of them.  The job in hand is job, or the next one queued. *)
JobInHand == IF job = NoService THEN Head(schedule) ELSE job
QueueAfter == IF job = NoService THEN Tail(schedule) ELSE schedule

AssignJob(t) ==
  /\ At(t, "assign") /\ index <= NWorker
  /\ job # NoService \/ schedule # <<>>
  /\ schedule' = QueueAfter
  /\ IF ready[index] = NoService
     THEN /\ ready' = [ready EXCEPT ![index] = JobInHand]
          /\ job' = NoService /\ jobs' = jobs + 1
          /\ Goto(t, "wake")
          /\ UNCHANGED index
     ELSE /\ job' = JobInHand /\ index' = index + 1
          /\ UNCHANGED <<ready, jobs, pc>>
  /\ UNCHANGED <<poolVars, owner, running, done, sleepVars, doneJob, nojob,
                 blocked, exclusiveVars, quitVars, ret, failed>>

(* worker_wakeup reads `sleeping' without a lock. *)
WakeAssigned(t) ==
  /\ At(t, "wake")
  /\ event' = IF sleeping[index] THEN [event EXCEPT ![index] = TRUE] ELSE event
  /\ index' = index + 1
  /\ Goto(t, "assign")
  /\ UNCHANGED <<poolVars, schedule, owner, slotVars, sleeping, active,
                 doneJob, job, jobs, nojob, blocked, exclusiveVars, quitVars,
                 ret, failed>>

(* The job left over goes back to the end of the queue.  What comes next
   depends on the caller. *)
(* mutant: pushed back without the test of l.308 *)
PushAnyway == Append(schedule, job)

PushLeft == IF job = NoService THEN schedule ELSE Append(schedule, job)

AssignEnd(t) ==
  /\ At(t, "assign")
  /\ index > NWorker \/ (job = NoService /\ schedule = <<>>)
  /\ schedule' = PushLeft
  /\ job' = NoService
  /\ Goto(t, CASE ret[t] = "self" -> "completeSelf"
               [] ret[t] = "exclusive" -> "active"
               [] OTHER -> "steal")
  /\ UNCHANGED <<poolVars, owner, slotVars, sleepVars, doneJob, index, jobs,
                 nojob, blocked, exclusiveVars, quitVars, ret, failed>>

(***************************************************************************)
(* schedule_dispatch_worker: a worker whose own mailbox is empty takes the *)
(* job of the first worker that has one.  Mailboxes only lose jobs while   *)
(* it looks, so that looking through all of them is one step.              *)
(***************************************************************************)
FirstReady(v) ==
  ready[v] # NoService /\ \A u \in 1..(v - 1) : ready[u] = NoService

(* mutant: worker_get_job without the CAS that empties the mailbox *)
CopyJob(v, w) == [ready EXCEPT ![w] = ready[v]]

MoveJob(v, w) == [ready EXCEPT ![w] = ready[v], ![v] = NoService]

Steal(w) ==
  /\ At(w, "steal") /\ ready[w] = NoService
  /\ \E v \in Workers :
       /\ ready[v] # NoService
       /\ FirstReady(v) \/ SpuriousCAS
       /\ ready' = MoveJob(v, w)
  /\ nojob' = FALSE
  /\ Goto(w, "release")
  /\ UNCHANGED <<poolVars, schedule, owner, running, done, sleepVars, doneJob,
                 index, job, jobs, blocked, exclusiveVars, quitVars, ret,
                 failed>>

StealNothing(w) ==
  /\ At(w, "steal")
  /\ \/ ready[w] # NoService
     \/ SpuriousCAS
     \/ \A v \in Workers : ready[v] = NoService
  /\ nojob' = (ready[w] = NoService)
  /\ Goto(w, "release")
  /\ UNCHANGED <<poolVars, schedule, owner, slotVars, sleepVars, doneJob,
                 index, job, jobs, blocked, exclusiveVars, quitVars, ret,
                 failed>>

(* mutants: active_worker is not decremented the second time; a worker sleeps
   although the pass gave it a job; the last active worker never sleeps *)
AfterPassUncounted(w) == CASE ret[w] = "nojob" /\ nojob -> "dec"
                           [] ret[w] = "last" /\ nojob -> "sleep"
                           [] OTHER -> "loop"
AfterPassAsleep(w) == CASE ret[w] = "nojob" -> "dec"
                        [] ret[w] = "last" -> "decAgain"
                        [] OTHER -> "loop"

AfterPassAwake(w) == IF ret[w] = "nojob" /\ nojob THEN "dec" ELSE "loop"

AfterPass(w) == CASE ret[w] = "nojob" /\ nojob -> "dec"
                  [] ret[w] = "last" /\ nojob -> "decAgain"
                  [] OTHER -> "loop"

Release(w) ==
  /\ At(w, "release") /\ w \in Workers
  /\ Unlock
  /\ Goto(w, AfterPass(w))
  /\ LeaveDispatch(w)
  /\ UNCHANGED <<poolVars, schedule, slotVars, sleepVars, exclusiveVars,
                 quitVars, failed>>

(***************************************************************************)
(* No job: thread_worker l.458-481.  The last active worker looks again.   *)
(***************************************************************************)
CountDown(w, from, to) ==
  /\ At(w, from)
  /\ active' = active - 1
  /\ Goto(w, to)
  /\ UNCHANGED <<restVars, slotVars, sleeping, event, ret, failed>>
Deactivate(w) == CountDown(w, "dec", "last")
DeactivateAgain(w) == CountDown(w, "decAgain", "sleep")

CheckLast(w) ==
  /\ At(w, "last")
  /\ Goto(w, IF active = 0 THEN "inc" ELSE "sleep")
  /\ UNCHANGED notPc

LookAgain(w) ==
  /\ At(w, "inc")
  /\ active' = active + 1
  /\ ret' = [ret EXCEPT ![w] = "last"]
  /\ Goto(w, "acquire")
  /\ UNCHANGED <<restVars, slotVars, sleeping, event, failed>>

(* worker_sleep: the term signal is read, then `sleeping' is written, then
   the thread waits for the event; a wake-up that comes before `sleeping' is
   written finds nobody asleep and is lost. *)
GoToSleep(w) ==
  /\ At(w, "sleep")
  /\ Goto(w, IF term[w] THEN "awake" ELSE "setSleeping")
  /\ UNCHANGED notPc

SetSleeping(w) ==
  /\ At(w, "setSleeping")
  /\ sleeping' = [sleeping EXCEPT ![w] = TRUE]
  /\ Goto(w, "wait")
  /\ UNCHANGED <<restVars, slotVars, event, active, ret, failed>>

(* thread_event_wait returns once the flag is set, and clears it. *)
WaitEvent(w) ==
  /\ At(w, "wait") /\ event[w]
  /\ event' = [event EXCEPT ![w] = FALSE]
  /\ Goto(w, "unsleep")
  /\ UNCHANGED <<restVars, slotVars, sleeping, active, ret, failed>>

ClearSleeping(w) ==
  /\ At(w, "unsleep")
  /\ sleeping' = [sleeping EXCEPT ![w] = FALSE]
  /\ Goto(w, "awake")
  /\ UNCHANGED <<restVars, slotVars, event, active, ret, failed>>

Awake(w) ==
  /\ At(w, "awake")
  /\ active' = active + 1
  /\ Goto(w, "loop")
  /\ UNCHANGED <<restVars, slotVars, sleeping, event, ret, failed>>

(***************************************************************************)
(* Quit: wakeup_all_workers after root ended, and the end of each thread.  *)
(***************************************************************************)
WakeAll(w) ==
  /\ At(w, "wakeAll") /\ quitAt <= NWorker
  /\ event' = IF sleeping[quitAt] THEN [event EXCEPT ![quitAt] = TRUE]
              ELSE event
  /\ quitAt' = quitAt + 1
  /\ UNCHANGED <<poolVars, schedule, owner, slotVars, sleeping, active,
                 frameVars, exclusiveVars, term, pc, ret, failed>>

SeeTerm(w) ==
  /\ \/ At(w, "loop") /\ term[w]
     \/ At(w, "wakeAll") /\ quitAt > NWorker
  /\ Goto(w, "exit")
  /\ UNCHANGED notPc

ExitWorker(w) ==
  /\ At(w, "exit")
  /\ sleeping' = [sleeping EXCEPT ![w] = FALSE]
  /\ Goto(w, "quit")
  /\ UNCHANGED <<restVars, slotVars, event, active, ret, failed>>

(***************************************************************************)
(* thread_exclusive: a resume is a turn of the service's main loop up to   *)
(* its end or to a call of exclusive.scheduling(), which runs the same     *)
(* exclusive_message.  Messages go to the sending queue, several in one    *)
(* turn, and through `out' with ltask.send_message.                        *)
(***************************************************************************)
LoopExclusive(x) ==
  /\ At(x, "loop")
  /\ Goto(x, IF term[x] THEN "exit" ELSE "resume")
  /\ UNCHANGED notPc

ExclusiveYield(x) ==
  /\ At(x, "resume")
  /\ pool' = Consumed(x)
  /\ Goto(x, "message")
  /\ UNCHANGED <<fresh, posts, news, schedule, owner, slotVars, sleepVars,
                 frameVars, exclusiveVars, quitVars, ret, failed>>

(* exclusive.send and execute_timer: a message the sending queue has no room
   for stays with the caller, to be sent again.  The messages are numbered. *)
ExclusiveSend(x) ==
  /\ At(x, "resume")
  /\ posts < MaxPosts /\ posts' = posts + 1
  /\ Len(sending[x]) < SendingLen
  /\ \E d \in Addressees \ {System} :
       /\ Known(d)
       /\ sending' = [sending EXCEPT ![x] = Append(@, Request(x, d, posts'))]
  /\ UNCHANGED <<pool, fresh, news, schedule, owner, slotVars, sleepVars,
                 frameVars, pending, quitVars, pc, ret, failed>>

ExclusivePost(x) ==
  /\ At(x, "resume") /\ x \in Posters
  /\ posts < MaxPosts /\ posts' = posts + 1
  /\ \E d \in Addressees :
       /\ Known(d)
       /\ pool' = ServiceSendMessage(Consumed(x), x, Request(x, d, 0))
  /\ Goto(x, "message")
  /\ UNCHANGED <<fresh, news, schedule, owner, slotVars, sleepVars, frameVars,
                 exclusiveVars, quitVars, ret, failed>>

ExclusiveQuit(x) ==
  /\ At(x, "resume") /\ x \in Mortal
  /\ Goto(x, "exit")
  /\ UNCHANGED notPc

(* exclusive_message: message_out is taken before the lock. *)
TakeOut(x) ==
  /\ At(x, "message")
  /\ pending' = [pending EXCEPT ![x] = pool[x].out]
  /\ pool' = ServiceMessageOut(pool, x)
  /\ Goto(x, IF pool[x].out = NoMsg /\ sending[x] = <<>> THEN "loop"
             ELSE "spin")
  /\ UNCHANGED <<fresh, posts, news, schedule, owner, slotVars, sleepVars,
                 frameVars, sending, quitVars, ret, failed>>

Spin(x) ==
  /\ At(x, "spin") /\ LockFree
  /\ owner' = x
  /\ Goto(x, "out")
  /\ UNCHANGED <<poolVars, schedule, slotVars, sleepVars, frameVars,
                 exclusiveVars, quitVars, ret, failed>>

(* dispatch_out_message, and the entry of dispatch_exclusive_sending. *)
DispatchOut(x) ==
  /\ At(x, "out")
  /\ SetKernel(IF pending[x] = NoMsg THEN Kernel
               ELSE DispatchOutMessage(Kernel, x, pending[x], NoService))
  /\ pending' = [pending EXCEPT ![x] = NoMsg]
  /\ index' = Len(sending[x]) + 1 /\ blocked' = NoneBlocked
  /\ Goto(x, "send")
  /\ UNCHANGED <<posts, news, owner, slotVars, sleepVars, doneJob, job, jobs,
                 nojob, sending, quitVars, ret>>

(* mutant: the receivers that blocked are forgotten *)
IsBlockedNever(d) == d \in Services /\ blocked.n > SendingBlocked

(* dispatch_exclusive_sending: one message per step, index - 1 of them left.  A
   message whose receiver is blocked goes back, and so does every later one
   for it; past SENDING_BLOCKED receivers, whose ids are not kept, everything
   does. *)
IsBlocked(d) == blocked.n > SendingBlocked \/ d \in blocked.id
MarkBlocked(d) ==
  [n |-> blocked.n + 1,
   id |-> IF blocked.n < SendingBlocked THEN blocked.id \cup {d}
          ELSE blocked.id]

Send(x) ==
  LET m == Head(sending[x])
      r == PushResult(pool, m.to)
      PushBack == sending' = [sending EXCEPT ![x] = Append(Tail(@), m)]
      Remove == sending' = [sending EXCEPT ![x] = Tail(@)]
  IN
  /\ At(x, "send") /\ index > 1
  /\ \/ /\ IsBlocked(m.to)
        /\ PushBack
        /\ UNCHANGED <<pool, fresh, schedule, blocked, failed>>
     \/ /\ ~IsBlocked(m.to) /\ r = "done"
        /\ SetKernel(ScheduleIfIdle(Push(Kernel, m), m.to))
        /\ Remove
        /\ UNCHANGED blocked
     \/ /\ ~IsBlocked(m.to) /\ r = "block"
        /\ PushBack
        /\ blocked' = MarkBlocked(m.to)
        /\ UNCHANGED <<pool, fresh, schedule, failed>>
     \/ /\ ~IsBlocked(m.to) /\ r = "error"
        /\ Remove
        /\ UNCHANGED <<pool, fresh, schedule, blocked, failed>>
  /\ index' = index - 1
  /\ UNCHANGED <<posts, news, owner, slotVars, sleepVars, doneJob, job, jobs,
                 nojob, pending, quitVars, pc, ret>>

SendEnd(x) ==
  /\ At(x, "send") /\ index = 1
  /\ ret' = [ret EXCEPT ![x] = "exclusive"]
  /\ Goto(x, "collect")
  /\ EnterDispatch
  /\ UNCHANGED <<poolVars, schedule, owner, slotVars, sleepVars, exclusiveVars,
                 quitVars, failed>>

(* How many sleeping workers to wake for the jobs the active ones leave;
   jobs becomes that number. *)
CountSleepers(x) ==
  LET asleep == NWorker - active
      extra  == jobs - active
  IN
  /\ At(x, "active")
  /\ jobs' = IF asleep > 0 /\ extra > 0
             THEN IF extra > asleep THEN asleep ELSE extra
             ELSE 0
  /\ index' = 1
  /\ Goto(x, "wakeSome")
  /\ UNCHANGED <<poolVars, schedule, owner, slotVars, sleepVars, doneJob, job,
                 nojob, blocked, exclusiveVars, quitVars, ret, failed>>

WakeSome(x) ==
  /\ At(x, "wakeSome") /\ index <= NWorker /\ jobs > 0
  /\ IF sleeping[index]
     THEN event' = [event EXCEPT ![index] = TRUE] /\ jobs' = jobs - 1
     ELSE UNCHANGED <<event, jobs>>
  /\ index' = index + 1
  /\ UNCHANGED <<poolVars, schedule, owner, slotVars, sleeping, active,
                 doneJob, job, nojob, blocked, exclusiveVars, quitVars, pc,
                 ret, failed>>

WakeEnd(x) ==
  /\ At(x, "wakeSome")
  /\ index > NWorker \/ jobs = 0
  /\ Goto(x, "release")
  /\ UNCHANGED notPc

ReleaseExclusive(x) ==
  /\ At(x, "release") /\ x \in Exclusives
  /\ Unlock
  /\ Goto(x, "loop")
  /\ LeaveDispatch(x)
  /\ UNCHANGED <<poolVars, schedule, slotVars, sleepVars, exclusiveVars,
                 quitVars, failed>>

ExitExclusive(x) ==
  /\ At(x, "exit")
  /\ Goto(x, "quit")
  /\ UNCHANGED notPc

(***************************************************************************)
(* The next-state relation.                                                *)
(***************************************************************************)
ResumeService(w) ==
  \/ Yield(w) \/ Post(w) \/ Quit(w) \/ QuitRoot(w)
  \/ RootNew(w) \/ RootKill(w) \/ RootInit(w) \/ RootReap(w)

TakeAndComplete(w) ==
  \/ StartWorker(w) \/ TakeJob(w) \/ FindNoJob(w)
  \/ CheckDead(w) \/ SetRunning(w)
  \/ Complete(w) \/ CompleteBlocked(w) \/ CompleteOwned(w)
  \/ DispatchForSelf(w) \/ CompleteSelf(w) \/ CompleteSelfFails(w)

ScheduleDispatch(t) ==
  \/ CollectDone(t) \/ CollectEnd(t)
  \/ DispatchJob(t) \/ DispatchSignal(t) \/ NoSignal(t) \/ DispatchEnd(t)
  \/ AssignJob(t) \/ WakeAssigned(t) \/ AssignEnd(t)

ScheduleDispatchWorker(w) ==
  \/ Acquire(w) \/ AcquireFails(w) \/ ScheduleDispatch(w)
  \/ Steal(w) \/ StealNothing(w) \/ Release(w)

NoJob(w) ==
  \/ Deactivate(w) \/ CheckLast(w) \/ LookAgain(w) \/ DeactivateAgain(w)
  \/ GoToSleep(w) \/ SetSleeping(w) \/ WaitEvent(w) \/ ClearSleeping(w)
  \/ Awake(w)

QuitWorker(w) == WakeAll(w) \/ SeeTerm(w) \/ ExitWorker(w)

WorkerStep(w) ==
  \/ TakeAndComplete(w) \/ ResumeService(w) \/ ScheduleDispatchWorker(w)
  \/ NoJob(w) \/ QuitWorker(w)

ExclusiveResume(x) ==
  \/ LoopExclusive(x) \/ ExclusiveYield(x) \/ ExclusiveSend(x)
  \/ ExclusivePost(x) \/ ExclusiveQuit(x) \/ ExitExclusive(x)

ExclusiveMessage(x) ==
  \/ TakeOut(x) \/ Spin(x) \/ DispatchOut(x) \/ Send(x) \/ SendEnd(x)
  \/ ScheduleDispatch(x) \/ CountSleepers(x) \/ WakeSome(x) \/ WakeEnd(x)
  \/ ReleaseExclusive(x)

ExclusiveStep(x) == ExclusiveResume(x) \/ ExclusiveMessage(x)

Next == \/ \E w \in Workers : WorkerStep(w)
        \/ \E x \in Exclusives : ExclusiveStep(x)

Spec == Init /\ [][Next]_vars

(* Every thread that can take a step eventually takes one: the OS runs each
   thread.  Two races are decided by chance each time they are run, and not
   always the same way: an exclusive thread that spins for the lock gets it in
   the end, and so does a worker whose mailbox is emptied by a thief again and
   again before it looks (without that, two workers can steal one job from
   each other for ever). *)
FairSpec ==
  /\ Spec
  /\ \A w \in Workers : WF_vars(WorkerStep(w)) /\ SF_vars(TakeJob(w))
  /\ \A x \in Exclusives : WF_vars(ExclusiveStep(x)) /\ SF_vars(Spin(x))

(***************************************************************************)
(* Properties.                                                             *)
(***************************************************************************)
(* One thread at a time is between acquire_scheduler and release_scheduler,
   and it is the one schedule_owner names: what lets the pass read and write
   the schedule queue, the pool and the mailboxes without further locks. *)
Scheduling == {"completeOwned", "completeSelf", "collect", "dispatch",
               "assign", "wake", "steal", "release", "out", "send", "active",
               "wakeSome"}
OneScheduler == \A t \in Threads : pc[t] \in Scheduling <=> owner = t

(* The places a service can be found in as a job: the queue, the mailboxes
   and the hands of the workers, and the locals of the scheduling pass. *)
Places(s) ==
       {<<"schedule", i>> : i \in {j \in DOMAIN schedule : schedule[j] = s}}
  \cup {<<"ready", w>> : w \in {v \in Workers : ready[v] = s}}
  \cup {<<"running", w>> : w \in {v \in Workers : running[v] = s}}
  \cup {<<"done", w>> : w \in {v \in Workers : done[v] = s}}
  \cup {<<"doneJob", i>> : i \in {j \in DOMAIN doneJob : doneJob[j] = s}}
  \cup {<<"job", 0>> : i \in {j \in {0} : job = s}}

(* A service is never in two places: two workers never run one Lua VM, and a
   job is never dispatched twice (ready, done and the schedule queue are
   written by different threads, the mailboxes without a lock). *)
SingleOwner == \A s \in Services : \A p, q \in Places(s) : p = q

(* A service that is idle is in no place and has nothing to read, whatever
   was sent to it while the pass was parking it; one that is not idle is not
   lost: scheduled or running, it is in some place. *)
IdleHasNoMessage ==
  \A s \in Services : pool[s].status = "idle" =>
    Places(s) = {} /\ pool[s].msg = <<>> /\ pool[s].receipt = "none"
NoServiceLost ==
  \A s \in Services : pool[s].status \in {"schedule", "running", "done"} =>
    Places(s) # {}

(* A service never has more than one message or answer under way: its next
   message is posted only after the receipt of the last one was read, so that
   the scheduler never overwrites a receipt (the WARNING of
   service_write_receipt) and a VM that continues finds one.  Only the death
   signal of a service that is killed does not wait for that. *)
OneAnswer ==
  \A s \in Services :
    pool[s].out \notin {NoMsg, Signal(s)} =>
      pool[s].receipt = "none" /\ pool[s].bounce = NoMsg

(* The death of a service is not forgotten: until root has closed it, its
   signal is in its outbound slot and the service in some place on the way to
   the scheduler, or in root's queue. *)
DeathIsSignalled ==
  \A s \in Services \ {Root} : pool[s].status = "dead" =>
    \/ pool[s].out = Signal(s) /\ Places(s) # {}
    \/ \E i \in DOMAIN pool[Root].msg : pool[Root].msg[i] = Signal(s)

(* root's handler of a death signal can close the service (root.close_service
   raises "Hang %d before close it" for one that is not dead). *)
SignalMeansDead ==
  \A i \in DOMAIN pool[Root].msg :
    LET m == pool[Root].msg[i]
    IN  m.type = "signal" => ServiceStatusGet(pool, m.from) = "dead"

(* A service that dies is dead until root closes it, and root hears of it: its
   signal is on the way as long as it is not closed, and no other service has
   one (ltask/src/ltask.c: the death of a service in schedule_dispatch). *)
DeathsKnown == DeathIsSignalled /\ SignalMeansDead

(* Messages one exclusive service sends to one receiver arrive in the order
   they were sent, although blocked ones go back to the end of the sending
   queue (https://github.com/cloudwu/ltask/issues/21): nothing that is still
   in the sending queue was sent before something its receiver has, and what
   the receiver has is in order. *)
Before(m, n) ==
  m.from = n.from /\ m.to = n.to /\ m.session \in 1..(n.session - 1)
InOrder ==
  \A x \in Exclusives, d \in Services :
    /\ \A i, j \in DOMAIN pool[d].msg :
         pool[d].msg[i].from = x /\ Before(pool[d].msg[i], pool[d].msg[j])
           => i < j
    /\ \A i \in DOMAIN sending[x], j \in DOMAIN pool[d].msg :
         ~Before(sending[x][i], pool[d].msg[j])

(* schedule_back's assert: "Must succ because task->schedule is large
   enough." *)
ScheduleLargeEnough == failed # "schedule full"
(* The assert of schedule_dispatch: a service that died has its signal to
   root, and nothing else, in its outbound slot when the pass gets to it. *)
DeadHasSignal == failed # "signal"
(* assert(!fail): after a pass of its own the done slot of a worker is free. *)
PassFreesSlot == failed # "self complete"

(* active_worker counts the workers that are not on their way to sleep or
   back, the number an exclusive thread subtracts from to find sleepers. *)
ActiveCounts ==
  active = Cardinality({w \in Workers :
    pc[w] \notin {"start", "last", "inc", "sleep", "setSleeping", "wait",
                  "unsleep", "awake"}})

Asleep(w) == pc[w] = "wait" /\ ~event[w]

(***************************************************************************)
(* Liveness.                                                               *)
(***************************************************************************)
(* A service that was scheduled is run. *)
EventuallyRuns ==
  \A s \in Services :
    (pool[s].status = "schedule") ~> (pool[s].status # "schedule")

(* When the services have nothing more to do, the workers come to rest: they do
   not poll, pass one job around or wake each other for ever. *)
EventuallyQuiet == <>[](\A w \in Workers : Asleep(w) \/ pc[w] = "quit")

(* An exclusive thread that has something to send gets the lock and comes back
   to its service: whoever holds the lock releases it again. *)
EventuallyReleased ==
  \A x \in Exclusives : (pc[x] = "spin") ~> (pc[x] = "loop")

(* "root quit, wakeup others" (l.422): every thread ends, but a worker that had
   decided to sleep before it could see the term signal. *)
QuitReachesAwake == (\E w \in Workers : pc[w] = "wakeAll") ~>
                      \A t \in Threads :
                        pc[t] = "quit" \/ (t \in Workers /\ Asleep(t))
=============================================================================
