-------------------------- MODULE Scheduler_proof --------------------------
(***************************************************************************)
(* Proofs about Scheduler, for every number of workers, every set of       *)
(* services and every bound.  Its state is well typed, and one thread at a *)
(* time is inside the scheduling pass; and as long as root kills nobody, a *)
(* service is in one place at a time, and none is left idle with something *)
(* to read.                                                                *)
(***************************************************************************)
EXTENDS Scheduler, SequenceTheorems, TLAPS

(***************************************************************************)
(* The service pool: every operation of service.c leaves a pool.           *)
(***************************************************************************)
(* Besides its type, a pool keeps what RootInit counts on: a receipt that
   answers NEW has the address of the new service with it. *)
PoolOK(P) ==
  /\ P \in [Services -> Service]
  /\ \A s \in Services : P[s].receipt = "response" =>
       P[s].bounce \in Message /\ P[s].bounce.to \in Services

(* A new slot of the pool is a service without a receipt. *)
LEMMA EmptyServiceOK ==
  ASSUME NEW st \in Status
  PROVE  EmptyService(st) \in Service /\ EmptyService(st).receipt = "none"
BY DEF EmptyService, Service, Receipt

(* A change of status leaves a well-typed pool ... *)
LEMMA PutStatusOK ==
  ASSUME NEW P, PoolOK(P), NEW s, NEW st \in Status
  PROVE  PoolOK([P EXCEPT ![s].status = st])
BY DEF PoolOK, Service

(* ... and so does service_status_set. *)
LEMMA StatusSetOK ==
  ASSUME NEW P, PoolOK(P), NEW s, NEW st \in Status
  PROVE  PoolOK(ServiceStatusSet(P, s, st))
BY PutStatusOK DEF ServiceStatusSet

(* service_push_message leaves a well-typed pool. *)
LEMMA PushMessageOK ==
  ASSUME NEW P, PoolOK(P), NEW s, NEW m \in Message
  PROVE  PoolOK(ServicePushMessage(P, s, m))
<1>1. s \in Services => Append(P[s].msg, m) \in Seq(Message)
  BY DEF PoolOK, Service
<1>2. PoolOK([P EXCEPT ![s].msg = Append(@, m)])
  BY <1>1 DEF PoolOK, Service
<1> QED
  BY <1>2 DEF ServicePushMessage

(* service_pop_message does too, unless the answer to NEW is unread: it
   would take the message that holds the address. *)
LEMMA PopMessageOK ==
  ASSUME NEW P, PoolOK(P), NEW s,
         s \in Services => P[s].receipt # "response"
  PROVE  PoolOK(ServicePopMessage(P, s))
<1>1. s \in Services /\ P[s].msg # <<>> => Tail(P[s].msg) \in Seq(Message)
  BY DEF PoolOK, Service
<1>2. P[s].msg # <<>> => PoolOK([P EXCEPT ![s].msg = Tail(@)])
  BY <1>1 DEF PoolOK, Service
<1>3. PoolOK([P EXCEPT ![s].bounce = NoMsg])
  BY DEF PoolOK, Service
<1> QED
  BY <1>2, <1>3 DEF ServicePopMessage

(* What service_pop_message returns is a message or NULL. *)
LEMMA NextMessageOK ==
  ASSUME NEW P, PoolOK(P), NEW s \in Services
  PROVE  NextMessage(P, s) \in Message \cup {NoMsg}
BY DEF PoolOK, NextMessage, Service

(* service_message_out leaves a well-typed pool. *)
LEMMA MessageOutOK ==
  ASSUME NEW P, PoolOK(P), NEW s
  PROVE  PoolOK(ServiceMessageOut(P, s))
BY DEF PoolOK, ServiceMessageOut, Service

(* service_send_message leaves a well-typed pool. *)
LEMMA SendMessageOK ==
  ASSUME NEW P, PoolOK(P), NEW s, NEW m \in Message
  PROVE  PoolOK(ServiceSendMessage(P, s, m))
BY DEF PoolOK, ServiceSendMessage, Service

(* Any receipt may be left, if the answer to NEW comes with an address ... *)
LEMMA SetReceiptOK ==
  ASSUME NEW P, PoolOK(P), NEW s, NEW r \in Receipt,
         NEW m \in Message \cup {NoMsg},
         r = "response" => m \in Message /\ m.to \in Services
  PROVE  PoolOK([P EXCEPT ![s].receipt = r, ![s].bounce = m])
<1> DEFINE Q == [P EXCEPT ![s].receipt = r, ![s].bounce = m]
<1>1. Q \in [Services -> Service]
  <2> DEFINE D == [P EXCEPT ![s].receipt = r]
  <2>1. D \in [Services -> Service]
    BY DEF PoolOK, Service
  <2>2. [D EXCEPT ![s].bounce = m] \in [Services -> Service]
    <3> HIDE DEF D
    <3> QED
      BY <2>1 DEF Service
  <2> QED
    BY <2>2
<1>2. \A t \in Services : Q[t].receipt = "response" =>
        Q[t].bounce \in Message /\ Q[t].bounce.to \in Services
  BY SMTT(30) DEF PoolOK, Service
<1> QED
  BY <1>1, <1>2 DEF PoolOK

(* ... as service_read_receipt leaves none *)
LEMMA ReadReceiptOK ==
  ASSUME NEW P, PoolOK(P), NEW s
  PROVE  PoolOK(ServiceReadReceipt(P, s))
BY SetReceiptOK DEF ServiceReadReceipt, Receipt

(* ... and service_write_receipt one. *)
LEMMA WriteReceiptOK ==
  ASSUME NEW P, PoolOK(P), NEW s, NEW r \in Receipt,
         NEW m \in Message \cup {NoMsg},
         r = "response" => m \in Message /\ m.to \in Services
  PROVE  PoolOK(ServiceWriteReceipt(P, s, r, m))
BY SetReceiptOK DEF ServiceWriteReceipt

(* service_send_signal leaves a well-typed pool. *)
LEMMA SendSignalOK ==
  ASSUME NEW P, PoolOK(P), NEW s
  PROVE  PoolOK(ServiceSendSignal(P, s))
<1>1. CASE s \in Services
  <2>1. Signal(s) \in Message
    BY <1>1, PoolAssumption DEF Signal, Message
  <2>2. [P EXCEPT ![s].out = Signal(s)] \in [Services -> Service]
    BY <2>1 DEF PoolOK, Service
  <2> QED
    BY <2>2 DEF PoolOK, ServiceSendSignal
<1>2. CASE s \notin Services
  BY <1>2 DEF PoolOK, ServiceSendSignal
<1> QED
  BY <1>1, <1>2

(* A slot that is taken, made a service or given back is well typed. *)
LEMMA NewInitDeleteOK ==
  ASSUME NEW P, PoolOK(P), NEW s
  PROVE  /\ PoolOK(ServiceNew(P, s))
         /\ PoolOK(ServiceInit(P, s))
         /\ PoolOK(ServiceDelete(P, s))
<1>1. ASSUME NEW st \in Status
      PROVE  PoolOK([P EXCEPT ![s] = EmptyService(st)])
  BY EmptyServiceOK DEF PoolOK
<1>2. PoolOK(ServiceNew(P, s)) /\ PoolOK(ServiceDelete(P, s))
  BY <1>1 DEF ServiceNew, ServiceDelete, Absent, Status
<1>3. PoolOK(ServiceInit(P, s))
  BY PutStatusOK DEF ServiceInit, Status
<1> QED
  BY <1>2, <1>3

(* service_hang leaves a well-typed pool. *)
LEMMA HangOK ==
  ASSUME NEW P, PoolOK(P), NEW s
  PROVE  PoolOK(ServiceHang(P, s))
<1>1. PoolOK([P EXCEPT ![s].status = "dead"])
  BY PutStatusOK DEF Status
<1> QED
  BY <1>1, SendSignalOK DEF ServiceHang

(* A push is answered, but never with an address. *)
LEMMA PushResultType ==
  ASSUME NEW P, NEW s
  PROVE  PushResult(P, s) \in Receipt \ {"response"}
BY DEF PushResult, Receipt

(***************************************************************************)
(* The kernel: every operation under the lock leaves one.                  *)
(***************************************************************************)
KernelOK(k) ==
  /\ k \in [pool : [Services -> Service], schedule : Seq(Services),
            fresh : SUBSET Services]
  /\ PoolOK(k.pool)

(* A kernel whose pool is replaced by a well-typed one is a kernel. *)
LEMMA KernelSetPool ==
  ASSUME NEW k, KernelOK(k), NEW P, PoolOK(P)
  PROVE  KernelOK([k EXCEPT !.pool = P])
BY DEF KernelOK, PoolOK

(* schedule_back queues a service. *)
LEMMA ScheduleBackOK ==
  ASSUME NEW k, KernelOK(k), NEW s \in Services
  PROVE  KernelOK(ScheduleBack(k, s))
<1>1. Append(k.schedule, s) \in Seq(Services)
  BY DEF KernelOK
<1> QED
  BY <1>1 DEF KernelOK, ScheduleBack

(* service_status_set, under the lock. *)
LEMMA SetStatusOK ==
  ASSUME NEW k, KernelOK(k), NEW s, NEW st \in Status
  PROVE  KernelOK([k EXCEPT !.pool = ServiceStatusSet(@, s, st)])
BY KernelSetPool, StatusSetOK DEF KernelOK

(* An idle service that got a message is scheduled. *)
LEMMA ScheduleIfIdleOK ==
  ASSUME NEW k, KernelOK(k), NEW s \in Services
  PROVE  KernelOK(ScheduleIfIdle(k, s))
BY SetStatusOK, ScheduleBackOK DEF ScheduleIfIdle, Status

(* service_push_message, under the lock. *)
LEMMA PushOK ==
  ASSUME NEW k, KernelOK(k), NEW m \in Message
  PROVE  KernelOK(Push(k, m))
BY KernelSetPool, PushMessageOK DEF KernelOK, Push

(* service_write_receipt, under the lock. *)
LEMMA AnswerOK ==
  ASSUME NEW k, KernelOK(k), NEW id, NEW r \in Receipt,
         NEW m \in Message \cup {NoMsg},
         r = "response" => m \in Message /\ m.to \in Services
  PROVE  KernelOK(Answer(k, id, r, m))
BY KernelSetPool, WriteReceiptOK DEF KernelOK, Answer

(* The three outcomes of HANG. *)
LEMMA HangServiceOK ==
  ASSUME NEW k, KernelOK(k), NEW id, NEW m \in Message, m.sid \in Services
  PROVE  KernelOK(HangService(k, id, m))
<1>1. KernelOK([k EXCEPT !.pool = ServiceHang(@, m.sid)])
  BY KernelSetPool, HangOK DEF KernelOK
<1>2. KernelOK(ScheduleBack(k, m.sid))
  BY ScheduleBackOK
<1>3. {"error", "done"} \subseteq Receipt
  BY DEF Receipt
<1> QED
  BY <1>1, <1>2, <1>3, AnswerOK DEF HangService

(* dispatch_schedule_message: NEW, DEL, HANG and what is refused. *)
LEMMA DispatchScheduleMessageOK ==
  ASSUME NEW k, KernelOK(k), NEW id, NEW m \in Message,
         NEW n \in Services \cup {NoService}
  PROVE  KernelOK(DispatchScheduleMessage(k, id, m, n))
<1> DEFINE kNew == [k EXCEPT !.pool = ServiceNew(@, n), !.fresh = @ \ {n}]
           kDel == [k EXCEPT !.pool = ServiceDelete(@, m.sid)]
           mNew == [m EXCEPT !.to = n]
<1>0. {"error", "done", "response"} \subseteq Receipt
  BY DEF Receipt
<1>1. KernelOK(Answer(k, id, "error", m))
  BY <1>0, AnswerOK
<1>2. ASSUME n # NoService
      PROVE  KernelOK(Answer(kNew, id, "response", mNew))
  <2>1. KernelOK(kNew)
    BY NewInitDeleteOK DEF KernelOK, PoolOK
  <2>2. mNew \in Message /\ mNew.to \in Services
    BY <1>2 DEF Message
  <2> HIDE DEF kNew, mNew
  <2> QED
    BY <1>0, <2>1, <2>2, AnswerOK
<1>3. KernelOK(Answer(kDel, id, "done", NoMsg))
  <2>1. KernelOK(kDel)
    BY KernelSetPool, NewInitDeleteOK DEF KernelOK
  <2> HIDE DEF kDel
  <2> QED
    BY <1>0, <2>1, AnswerOK
<1>4. m.type = "hang" => KernelOK(HangService(k, id, m))
  BY HangServiceOK DEF Message
<1> QED
  BY <1>1, <1>2, <1>3, <1>4 DEF DispatchScheduleMessage

(* dispatch_out_message, to a service and to SYSTEM. *)
LEMMA DispatchOutMessageOK ==
  ASSUME NEW k, KernelOK(k), NEW id, NEW m \in Message,
         NEW n \in Services \cup {NoService}
  PROVE  KernelOK(DispatchOutMessage(k, id, m, n))
<1>1. CASE m.to = System
  BY <1>1, DispatchScheduleMessageOK DEF DispatchOutMessage
<1>2. CASE m.to # System
  <2> DEFINE r == PushResult(k.pool, m.to)
             b == IF r = "done" THEN NoMsg ELSE m
  <2>1. m.to \in Services
    BY <1>2 DEF Message
  <2>2. r \in Receipt /\ r # "response"
    BY PushResultType
  <2>3. b \in Message \cup {NoMsg}
    OBVIOUS
  <2>4. KernelOK(Push(k, m))
    BY PushOK
  <2>5. KernelOK(Answer(Push(k, m), id, r, b))
    <3> HIDE DEF r, b
    <3> QED
      BY <2>2, <2>3, <2>4, AnswerOK
  <2>6. KernelOK(ScheduleIfIdle(Answer(Push(k, m), id, r, b), m.to))
    BY <2>1, <2>5, ScheduleIfIdleOK
  <2> QED
    BY <1>2, <2>6 DEF DispatchOutMessage
<1> QED
  BY <1>1, <1>2

(* The death signal: queued, put off, or dropped with the service. *)
LEMMA SignalRootOK ==
  ASSUME NEW k, KernelOK(k), NEW id \in Services, NEW m \in Message
  PROVE  KernelOK(SignalRoot(k, id, m))
<1>1. KernelOK(ScheduleIfIdle(Push(k, m), Root))
  BY PushOK, ScheduleIfIdleOK, PoolAssumption
<1>2. KernelOK(ScheduleBack(k, id))
  BY ScheduleBackOK
<1>3. KernelOK([k EXCEPT !.pool = ServiceDelete(@, id)])
  BY KernelSetPool, NewInitDeleteOK DEF KernelOK
<1> QED
  BY <1>1, <1>2, <1>3 DEF SignalRoot

(* A service that is done waits or is scheduled again. *)
LEMMA ParkOK ==
  ASSUME NEW k, KernelOK(k), NEW id \in Services
  PROVE  KernelOK(Park(k, id))
<1>1. {"schedule", "idle"} \subseteq Status
  BY DEF Status
<1> QED
  BY <1>1, SetStatusOK, ScheduleBackOK DEF Park

(***************************************************************************)
(* Type correctness, one step per action.                                  *)
(***************************************************************************)
TypeInv == TypeOK /\ PoolOK(pool)

(* dispatch_exclusive_sending pops as many messages as it counted: that there
   are so many takes the lock, because the thread that owns it counts in
   index, and nobody else may count there. *)
SendInv ==
  \A x \in Exclusives : pc[x] = "send" => index - 1 <= Len(sending[x])

SchedulerInv == TypeInv /\ OneScheduler /\ SendInv

(* The program starts in a well-typed state. *)
LEMMA TypeInvInit == Init => TypeInv
<1> SUFFICES ASSUME Init PROVE TypeInv
  OBVIOUS
<1> USE PoolAssumption, SchedulerAssumption
<1>1. Boot \in Message
  BY DEF Boot, Message
<1>2. PoolOK(pool)
  <2>1. \A st \in Status : EmptyService(st) \in Service
    BY EmptyServiceOK
  <2>2. [EmptyService("schedule") EXCEPT !.msg = <<Boot>>] \in Service
    <3>1. <<Boot>> \in Seq(Message)
      BY <1>1
    <3>2. EmptyService("schedule") \in Service
      BY <2>1 DEF Status
    <3> QED
      BY <3>1, <3>2 DEF Service
  <2>3. {"schedule", "exclusive", "idle", "absent"} \subseteq Status
    BY DEF Status
  <2>4. pool \in [Services -> Service]
    BY <2>1, <2>2, <2>3 DEF Init, Absent
  <2>5. \A s \in Services : pool[s].receipt = "none"
    BY DEF Init, Absent, EmptyService
  <2> QED
    BY <2>4, <2>5 DEF PoolOK
<1>3. pc \in [Threads -> WorkerLabel \cup ExclusiveLabel]
  BY DEF Init, WorkerLabel, ExclusiveLabel
<1>4. ret \in [Threads -> Call] /\ failed \in Failure
  BY DEF Init, Call, Failure
<1>5. blocked \in [n : Nat, id : SUBSET Services]
  BY DEF Init, NoneBlocked
<1>6. schedule \in Seq(Services) /\ doneJob \in Seq(Services)
  BY DEF Init
<1>7. posts \in 0..MaxPosts /\ news \in 0..MaxNews
  BY DEF Init
<1>8. /\ owner \in Threads \cup {NoService} /\ active \in Int
      /\ index \in Nat \ {0} /\ jobs \in Int
      /\ job \in Services \cup {NoService} /\ quitAt \in Nat
  BY DEF Init
<1>9. nojob \in BOOLEAN /\ fresh \subseteq Services
  BY DEF Init
<1>10. /\ ready \in [Workers -> Services \cup {NoService}]
      /\ running \in [Workers -> Services \cup {NoService}]
      /\ done \in [Workers -> Services \cup {NoService}]
      /\ sleeping \in [Workers -> BOOLEAN] /\ event \in [Workers -> BOOLEAN]
      /\ term \in [Threads -> BOOLEAN]
  BY DEF Init
<1>11. /\ sending \in [Exclusives -> Seq(Mail)]
       /\ pending \in [Exclusives -> Message \cup {NoMsg}]
  BY DEF Init
<1> QED
  BY <1>2, <1>3, <1>4, <1>5, <1>6, <1>7, <1>8, <1>9, <1>10, <1>11
  DEF TypeInv, TypeOK, PoolOK

(* A worker takes a job and hands it back. *)
LEMMA TakeAndCompleteType ==
  ASSUME TypeInv, NEW w \in Workers,
         TakeAndComplete(w)
  PROVE  TypeInv'
<1> USE PoolAssumption, SchedulerAssumption
<1> USE DEF TypeInv, TypeOK, At, Goto, poolVars, slotVars, sleepVars,
            frameVars, exclusiveVars, quitVars, restVars, notPc
<1>1. CASE StartWorker(w)
  BY <1>1 DEF StartWorker, WorkerLabel, Threads
<1>2. CASE TakeJob(w)
  BY <1>2 DEF TakeJob, WorkerLabel, Threads
<1>3. CASE FindNoJob(w)
  BY <1>3 DEF FindNoJob, WorkerLabel, Threads, Call
<1>4. CASE CheckDead(w)
  BY <1>4 DEF CheckDead, WorkerLabel, Threads
<1>5. CASE SetRunning(w)
  <2>1. PoolOK(pool')
    BY <1>5, StatusSetOK DEF SetRunning, Status
  <2> QED
    BY <1>5, <2>1 DEF SetRunning, WorkerLabel, Threads, PoolOK
<1>6. CASE Complete(w)
  BY <1>6 DEF Complete, CompleteTo, WorkerLabel, Threads
<1>7. CASE CompleteBlocked(w)
  BY <1>7 DEF CompleteBlocked, WorkerLabel, Threads, Call
<1>8. CASE CompleteOwned(w)
  BY <1>8 DEF CompleteOwned, CompleteTo, EnterDispatch, WorkerLabel, Threads
<1>9. CASE DispatchForSelf(w)
  BY <1>9 DEF DispatchForSelf, EnterDispatch, Call, WorkerLabel, Threads
<1>10. CASE CompleteSelf(w)
  BY <1>10
  DEF CompleteSelf, CompleteTo, EnterDispatch, Call, WorkerLabel, Threads
<1>11. CASE CompleteSelfFails(w)
  BY <1>11 DEF CompleteSelfFails, Failure
<1> QED
  BY <1>1, <1>2, <1>3, <1>4, <1>5, <1>6, <1>7, <1>8, <1>9, <1>10,
     <1>11
     DEF TakeAndComplete

(* What a VM reads when it is resumed leaves a well-typed pool. *)
LEMMA ConsumedOK ==
  ASSUME TypeInv, NEW s
  PROVE  PoolOK(Consumed(s))
BY ReadReceiptOK, PopMessageOK DEF TypeInv, Consumed

(* A service that yields leaves a well-typed state behind. *)
LEMMA FinishOK ==
  ASSUME TypeInv, NEW w \in Workers, NEW P, PoolOK(P), Finish(w, P),
         posts' \in 0..MaxPosts, news' \in 0..MaxNews
  PROVE  TypeInv'
<1>1. PoolOK(pool')
  BY StatusSetOK DEF Finish, Status
<1> QED
  BY <1>1
  DEF Finish, TypeInv, TypeOK, PoolOK, Goto, WorkerLabel, Threads, slotVars,
      sleepVars, frameVars, exclusiveVars, quitVars

(* What root posts to SYSTEM is a message, *)
LEMMA CommandType ==
  /\ Command("new", NoService) \in Message
  /\ \A s \in Services :
       {Command("del", s), Command("hang", s)} \subseteq Message
BY PoolAssumption DEF Command, Message

(* and so is what one service posts to another. *)
LEMMA RequestType ==
  ASSUME NEW s \in Services, NEW d \in Services \cup {System}, NEW n \in Nat
  PROVE  Request(s, d, n) \in Message
BY DEF Request, Message

(* A worker runs a service. *)
LEMMA ResumeServiceType ==
  ASSUME TypeInv, NEW w \in Workers,
         ResumeService(w)
  PROVE  TypeInv'
<1> USE PoolAssumption, SchedulerAssumption
<1> USE DEF TypeInv, TypeOK, At, Goto, poolVars, slotVars, sleepVars,
            frameVars, exclusiveVars, quitVars, restVars, notPc
<1>1. CASE Yield(w)
  BY <1>1, ConsumedOK, FinishOK DEF Yield
<1>2. CASE Post(w)
  <2>1. PICK d \in Addressees :
          Finish(w, ServiceSendMessage(Consumed(running[w]), running[w],
                                       Request(running[w], d, 0)))
    BY <1>2 DEF Post
  <2>2. Request(running[w], d, 0) \in Message
    BY <1>2, RequestType DEF Post
  <2>3. PoolOK(ServiceSendMessage(Consumed(running[w]), running[w],
                                  Request(running[w], d, 0)))
    BY <2>2, ConsumedOK, SendMessageOK
  <2>4. posts' \in 0..MaxPosts /\ news' \in 0..MaxNews
    BY <1>2 DEF Post
  <2> QED
    BY <2>1, <2>3, <2>4, FinishOK
<1>3. CASE Quit(w)
  <2>1. PoolOK(Death(Consumed(running[w]), running[w]))
    BY ConsumedOK, StatusSetOK, SendSignalOK DEF Death, Status
  <2>2. PoolOK(pool')
    BY <1>3, <2>1 DEF Quit
  <2> QED
    BY <1>3, <2>2 DEF Quit, PoolOK, WorkerLabel, Threads
<1>4. CASE QuitRoot(w)
  <2>1. PoolOK(pool')
    BY <1>4, ConsumedOK, StatusSetOK DEF QuitRoot, Status
  <2> QED
    BY <1>4, <2>1 DEF QuitRoot, TermAll, PoolOK, WorkerLabel, Threads
<1>5. CASE RootNew(w)
  <2>0. Command("new", NoService) \in Message
    BY CommandType
  <2>1. PoolOK(ServiceSendMessage(Consumed(Root), Root,
                                  Command("new", NoService)))
    BY <2>0, ConsumedOK, SendMessageOK
  <2>2. posts' \in 0..MaxPosts /\ news' \in 0..MaxNews
    BY <1>5 DEF RootNew
  <2> QED
    BY <1>5, <2>1, <2>2, FinishOK DEF RootNew
<1>6. CASE RootKill(w)
  <2>1. PICK s \in Killable :
          Finish(w, ServiceSendMessage(Consumed(Root), Root,
                                       Command("hang", s)))
    BY <1>6 DEF RootKill
  <2>2. PoolOK(ServiceSendMessage(Consumed(Root), Root, Command("hang", s)))
    BY ConsumedOK, SendMessageOK, CommandType
  <2>3. posts' \in 0..MaxPosts /\ news' \in 0..MaxNews
    <3>1. posts < MaxPosts /\ posts' = posts + 1 /\ news' = news
      BY <1>6 DEF RootKill
    <3>2. posts \in 0..MaxPosts /\ news \in 0..MaxNews /\ MaxPosts \in Nat
      OBVIOUS
    <3> HIDE DEF TypeInv, TypeOK
    <3> QED
      BY <3>1, <3>2
  <2> QED
    BY <2>1, <2>2, <2>3, FinishOK
<1>7. CASE RootInit(w)
  <2> DEFINE s == pool[Root].bounce.to
             P == ServiceReadReceipt(pool, Root)
             Q1 == ServiceSendMessage(ServiceInit(P, s), Root,
                                      Request(Root, s, 0))
             Q2 == ServiceSendMessage(ServiceDelete(P, s), Root,
                                      Command("hang", s))
  <2>1. s \in Services
    BY <1>7 DEF RootInit, MustInit, PoolOK
  <2>2. PoolOK(P)
    BY ReadReceiptOK
  <2>3. PoolOK(Q1)
    BY <2>1, <2>2, NewInitDeleteOK, SendMessageOK, RequestType
  <2>4. PoolOK(Q2)
    BY <2>1, <2>2, NewInitDeleteOK, SendMessageOK, CommandType
  <2>5. Finish(w, Q1) \/ Finish(w, Q2)
    BY <1>7 DEF RootInit
  <2>6. posts' \in 0..MaxPosts /\ news' \in 0..MaxNews
    BY <1>7 DEF RootInit
  <2> HIDE DEF Q1, Q2
  <2> QED
    BY <2>3, <2>4, <2>5, <2>6, FinishOK
<1>8. CASE RootReap(w)
  <2> DEFINE s == NextMessage(pool, Root).from
             P == ServicePopMessage(pool, Root)
             Q == ServiceSendMessage(ServiceDelete(P, s), Root,
                                     Command("del", s))
  <2>1. s \in Services
    BY <1>8, NextMessageOK DEF RootReap, MustReap, Message
  <2>2. PoolOK(P)
    BY <1>8, PopMessageOK DEF RootReap, MustReap
  <2>3. PoolOK(Q)
    BY <2>1, <2>2, NewInitDeleteOK, SendMessageOK, CommandType
  <2>4. Finish(w, P) \/ Finish(w, Q)
    BY <1>8 DEF RootReap
  <2>5. posts' \in 0..MaxPosts /\ news' \in 0..MaxNews
    BY <1>8 DEF RootReap
  <2> HIDE DEF P, Q
  <2> QED
    BY <2>2, <2>3, <2>4, <2>5, FinishOK
<1> QED
  BY <1>1, <1>2, <1>3, <1>4, <1>5, <1>6, <1>7, <1>8
     DEF ResumeService

(* The state after an operation under the lock is that of its kernel, *)
LEMMA SetKernelOK ==
  ASSUME NEW k, KernelOK(k), SetKernel(k)
  PROVE  /\ PoolOK(pool') /\ schedule' \in Seq(Services)
         /\ fresh' \subseteq Services /\ failed' \in Failure
BY DEF KernelOK, SetKernel, Failure

(* the state before it is a kernel, *)
LEMMA KernelIsOK == TypeInv => KernelOK(Kernel)
BY DEF TypeInv, TypeOK, Kernel, KernelOK, PoolOK

(* and still is one when an outbound message is taken from it. *)
LEMMA TakenOutOK ==
  ASSUME TypeInv, NEW s
  PROVE  KernelOK([Kernel EXCEPT !.pool = ServiceMessageOut(pool, s)])
BY KernelIsOK, KernelSetPool, MessageOutOK DEF TypeInv

(* The scheduling pass, by whichever thread. *)
LEMMA ScheduleDispatchType ==
  ASSUME TypeInv, NEW t \in Threads,
         ScheduleDispatch(t)
  PROVE  TypeInv'
<1> USE PoolAssumption, SchedulerAssumption
<1> USE DEF TypeInv, TypeOK, At, Goto, poolVars, slotVars, sleepVars,
            frameVars, exclusiveVars, quitVars, restVars, notPc
<1>1. CASE CollectDone(t)
  <2>1. index \in Workers
    BY <1>1 DEF CollectDone, MoreWorkers, Workers
  <2>2. doneJob' \in Seq(Services) /\ index' \in Nat \ {0}
    BY <1>1, <2>1 DEF CollectDone
  <2> QED
    BY <1>1, <2>2 DEF CollectDone
<1>2. CASE CollectEnd(t)
  BY <1>2 DEF CollectEnd, WorkerLabel, Threads
<1>3. CASE DispatchJob(t)
  <2> DEFINE id == Head(doneJob)
             m  == pool[id].out
             k  == [Kernel EXCEPT !.pool = ServiceMessageOut(pool, id)]
  <2>1. id \in Services /\ doneJob' \in Seq(Services)
    BY <1>3, SMTT(30) DEF DispatchJob, DispatchVars
  <2>2. m \in Message \cup {NoMsg}
    BY <2>1 DEF Service
  <2>3. KernelOK(k)
    BY TakenOutOK
  <2>4. PICK n \in NewIds(m) :
          SetKernel(Park(IF m = NoMsg THEN k
                         ELSE DispatchOutMessage(k, id, m, n), id))
    BY <1>3 DEF DispatchJob
  <2>5. n \in Services \cup {NoService}
    BY DEF NewIds
  <2> HIDE DEF id, m, k
  <2>6. KernelOK(IF m = NoMsg THEN k ELSE DispatchOutMessage(k, id, m, n))
    BY <2>2, <2>3, <2>5, DispatchOutMessageOK
  <2>7. KernelOK(Park(IF m = NoMsg THEN k
                      ELSE DispatchOutMessage(k, id, m, n), id))
    BY <2>1, <2>6, ParkOK
  <2>8. /\ PoolOK(pool') /\ schedule' \in Seq(Services)
        /\ fresh' \subseteq Services /\ failed' \in Failure
    BY <2>4, <2>7, SetKernelOK
  <2> QED
    BY <1>3, <2>1, <2>8 DEF DispatchJob, DispatchVars, PoolOK
<1>4. CASE DispatchSignal(t)
  <2> DEFINE id == Head(doneJob)
             k  == [Kernel EXCEPT !.pool = ServiceMessageOut(pool, id)]
  <2>1. id \in Services /\ doneJob' \in Seq(Services)
    BY <1>4, SMTT(30) DEF DispatchSignal, DispatchVars
  <2>2. pool[id].out \in Message
    BY <1>4, <2>1 DEF DispatchSignal, IsSignal, Service
  <2>3. KernelOK(SignalRoot(k, id, pool[id].out))
    BY <2>1, <2>2, TakenOutOK, SignalRootOK
  <2>4. SetKernel(SignalRoot(k, id, pool[id].out))
    BY <1>4 DEF DispatchSignal
  <2>5. /\ PoolOK(pool') /\ schedule' \in Seq(Services)
        /\ fresh' \subseteq Services /\ failed' \in Failure
    BY <2>3, <2>4, SetKernelOK
  <2> QED
    BY <1>4, <2>1, <2>5 DEF DispatchSignal, DispatchVars, PoolOK
<1>5. CASE NoSignal(t)
  BY <1>5 DEF NoSignal, Failure
<1>6. CASE DispatchEnd(t)
  BY <1>6 DEF DispatchEnd, WorkerLabel, Threads
<1>7. CASE AssignJob(t)
  <2>1. job = NoService => schedule # <<>>
    BY <1>7 DEF AssignJob
  <2>2. QueueAfter \in Seq(Services)
    BY <2>1 DEF QueueAfter
  <2>3. JobInHand \in Services
    BY <2>1 DEF JobInHand
  <2>0. /\ schedule' = QueueAfter
        /\ UNCHANGED <<poolVars, owner, running, done, sleepVars, doneJob,
                       nojob, blocked, exclusiveVars, quitVars, ret, failed>>
    BY <1>7 DEF AssignJob
  <2>4. CASE ready[index] = NoService
    <3>1. /\ ready' = [ready EXCEPT ![index] = JobInHand]
          /\ job' = NoService /\ jobs' = jobs + 1
          /\ pc' = [pc EXCEPT ![t] = "wake"] /\ index' = index
      BY <1>7, <2>4 DEF AssignJob
    <3>2. ready' \in [Workers -> Services \cup {NoService}]
      BY <2>3, <3>1
    <3>3. pc' \in [Threads -> WorkerLabel \cup ExclusiveLabel]
      BY <3>1 DEF WorkerLabel
    <3>4. job' \in Services \cup {NoService} /\ jobs' \in Int
      BY <3>1
    <3> QED
      BY <2>0, <2>2, <3>1, <3>2, <3>3, <3>4
  <2>5. CASE ready[index] # NoService
    <3>1. /\ job' = JobInHand /\ index' = index + 1
          /\ UNCHANGED <<ready, jobs, pc>>
      BY <1>7, <2>5 DEF AssignJob
    <3>2. job' \in Services \cup {NoService} /\ index' \in Nat \ {0}
      BY <2>3, <3>1
    <3> QED
      BY <2>0, <2>2, <3>1, <3>2
  <2> QED
    BY <2>4, <2>5
<1>8. CASE WakeAssigned(t)
  <2>1. event' \in [Workers -> BOOLEAN]
    BY <1>8 DEF WakeAssigned
  <2>2. index' \in Nat \ {0}
    BY <1>8 DEF WakeAssigned
  <2>3. pc' \in [Threads -> WorkerLabel \cup ExclusiveLabel]
    BY <1>8 DEF WakeAssigned, WorkerLabel
  <2> QED
    BY <1>8, <2>1, <2>2, <2>3 DEF WakeAssigned
<1>9. CASE AssignEnd(t)
  <2>1. PushLeft \in Seq(Services)
    BY DEF PushLeft
  <2> QED
    BY <1>9, <2>1 DEF AssignEnd, WorkerLabel, ExclusiveLabel, Threads
<1> QED
  BY <1>1, <1>2, <1>3, <1>4, <1>5, <1>6, <1>7, <1>8, <1>9
     DEF ScheduleDispatch

(* The scheduling pass of a worker. *)
LEMMA ScheduleDispatchWorkerType ==
  ASSUME TypeInv, NEW w \in Workers,
         ScheduleDispatchWorker(w)
  PROVE  TypeInv'
<1> USE PoolAssumption, SchedulerAssumption
<1> USE DEF TypeInv, TypeOK, At, Goto, poolVars, slotVars, sleepVars,
            frameVars, exclusiveVars, quitVars, restVars, notPc
<1>1. CASE Acquire(w)
  BY <1>1 DEF Acquire, EnterDispatch, WorkerLabel, Threads
<1>2. CASE AcquireFails(w)
  BY <1>2 DEF AcquireFails, Call, WorkerLabel, Threads
<1>3. CASE ScheduleDispatch(w)
  BY <1>3, ScheduleDispatchType DEF Threads
<1>4. CASE Steal(w)
  BY <1>4 DEF Steal, MoveJob, WorkerLabel, Threads
<1>5. CASE StealNothing(w)
  BY <1>5 DEF StealNothing, WorkerLabel, Threads
<1>6. CASE Release(w)
  <2>1. AfterPass(w) \in WorkerLabel
    BY DEF AfterPass, WorkerLabel
  <2>2. pc' \in [Threads -> WorkerLabel \cup ExclusiveLabel]
    BY <1>6, <2>1 DEF Release, Threads
  <2>3. ret' \in [Threads -> Call]
    BY <1>6 DEF Release, LeaveDispatch, Call
  <2>4. /\ blocked' \in [n : Nat, id : SUBSET Services]
        /\ nojob' \in BOOLEAN
    BY <1>6 DEF Release, LeaveDispatch, NoneBlocked
  <2> QED
    BY <1>6, <2>2, <2>3, <2>4 DEF Release, Unlock, LeaveDispatch
<1> QED
  BY <1>1, <1>2, <1>3, <1>4, <1>5, <1>6
     DEF ScheduleDispatchWorker

(* A worker that has no job. *)
LEMMA NoJobType ==
  ASSUME TypeInv, NEW w \in Workers,
         NoJob(w)
  PROVE  TypeInv'
<1> USE PoolAssumption, SchedulerAssumption
<1> USE DEF TypeInv, TypeOK, At, Goto, poolVars, slotVars, sleepVars,
            frameVars, exclusiveVars, quitVars, restVars, notPc
<1>1. CASE Deactivate(w)
  BY <1>1 DEF Deactivate, CountDown, WorkerLabel, Threads
<1>2. CASE CheckLast(w)
  BY <1>2 DEF CheckLast, WorkerLabel, Threads
<1>3. CASE LookAgain(w)
  BY <1>3 DEF LookAgain, Call, WorkerLabel, Threads
<1>4. CASE DeactivateAgain(w)
  BY <1>4 DEF DeactivateAgain, CountDown, WorkerLabel, Threads
<1>5. CASE GoToSleep(w)
  BY <1>5 DEF GoToSleep, WorkerLabel, Threads
<1>6. CASE SetSleeping(w)
  BY <1>6 DEF SetSleeping, WorkerLabel, Threads
<1>7. CASE WaitEvent(w)
  BY <1>7 DEF WaitEvent, WorkerLabel, Threads
<1>8. CASE ClearSleeping(w)
  BY <1>8 DEF ClearSleeping, WorkerLabel, Threads
<1>9. CASE Awake(w)
  BY <1>9 DEF Awake, WorkerLabel, Threads
<1> QED
  BY <1>1, <1>2, <1>3, <1>4, <1>5, <1>6, <1>7, <1>8, <1>9
     DEF NoJob

(* The end of a worker. *)
LEMMA QuitWorkerType ==
  ASSUME TypeInv, NEW w \in Workers,
         QuitWorker(w)
  PROVE  TypeInv'
<1> USE PoolAssumption, SchedulerAssumption
<1> USE DEF TypeInv, TypeOK, At, Goto, poolVars, slotVars, sleepVars,
            frameVars, exclusiveVars, quitVars, restVars, notPc
<1>1. CASE WakeAll(w)
  <2>1. event' \in [Workers -> BOOLEAN]
    BY <1>1 DEF WakeAll
  <2>2. quitAt' \in Nat
    BY <1>1 DEF WakeAll
  <2> QED
    BY <1>1, <2>1, <2>2 DEF WakeAll
<1>2. CASE SeeTerm(w)
  BY <1>2 DEF SeeTerm, WorkerLabel, Threads
<1>3. CASE ExitWorker(w)
  BY <1>3 DEF ExitWorker, WorkerLabel, Threads
<1> QED
  BY <1>1, <1>2, <1>3
     DEF QuitWorker

(* An exclusive thread runs its service. *)
LEMMA ExclusiveResumeType ==
  ASSUME TypeInv, NEW x \in Exclusives,
         ExclusiveResume(x)
  PROVE  TypeInv'
<1> USE PoolAssumption, SchedulerAssumption
<1> USE DEF TypeInv, TypeOK, At, Goto, poolVars, slotVars, sleepVars,
            frameVars, exclusiveVars, quitVars, restVars, notPc
<1>1. CASE LoopExclusive(x)
  BY <1>1 DEF LoopExclusive, ExclusiveLabel, Threads
<1>2. CASE ExclusiveYield(x)
  <2>1. PoolOK(pool')
    BY <1>2, ConsumedOK DEF ExclusiveYield
  <2> QED
    BY <1>2, <2>1 DEF ExclusiveYield, PoolOK, ExclusiveLabel, Threads
<1>3. CASE ExclusiveSend(x)
  <2>1. PICK d \in Addressees \ {System} :
          sending' = [sending EXCEPT ![x] =
                        Append(sending[x], Request(x, d, posts'))]
    BY <1>3 DEF ExclusiveSend
  <2>2. posts' \in 0..MaxPosts /\ posts' \in Nat
    BY <1>3 DEF ExclusiveSend
  <2>3. Request(x, d, posts') \in Mail
    BY <2>2 DEF Mail, Request, Message
  <2>4. Append(sending[x], Request(x, d, posts')) \in Seq(Mail)
    BY <2>3
  <2>5. sending' \in [Exclusives -> Seq(Mail)]
    BY <2>1, <2>4
  <2> QED
    BY <1>3, <2>2, <2>5 DEF ExclusiveSend
<1>4. CASE ExclusivePost(x)
  <2>1. PICK d \in Addressees :
          pool' = ServiceSendMessage(Consumed(x), x, Request(x, d, 0))
    BY <1>4 DEF ExclusivePost
  <2>2. PoolOK(pool')
    BY <2>1, RequestType, ConsumedOK, SendMessageOK
  <2>3. posts' \in 0..MaxPosts
    BY <1>4 DEF ExclusivePost
  <2> QED
    BY <1>4, <2>2, <2>3 DEF ExclusivePost, PoolOK, ExclusiveLabel, Threads
<1>5. CASE ExclusiveQuit(x)
  BY <1>5 DEF ExclusiveQuit, ExclusiveLabel, Threads
<1>6. CASE ExitExclusive(x)
  BY <1>6 DEF ExitExclusive, ExclusiveLabel, Threads
<1> QED
  BY <1>1, <1>2, <1>3, <1>4, <1>5, <1>6
     DEF ExclusiveResume

(* An exclusive thread sends its messages. *)
LEMMA ExclusiveMessageType ==
  ASSUME TypeInv, SendInv, NEW x \in Exclusives,
         ExclusiveMessage(x)
  PROVE  TypeInv'
<1> USE PoolAssumption, SchedulerAssumption
<1> USE DEF TypeInv, TypeOK, At, Goto, poolVars, slotVars, sleepVars,
            frameVars, exclusiveVars, quitVars, restVars, notPc
<1>1. CASE TakeOut(x)
  <2>1. PoolOK(pool') /\ pool[x].out \in Message \cup {NoMsg}
    BY <1>1, MessageOutOK DEF TakeOut, PoolOK, Service
  <2> QED
    BY <1>1, <2>1 DEF TakeOut, PoolOK, ExclusiveLabel, Threads
<1>2. CASE Spin(x)
  BY <1>2 DEF Spin, ExclusiveLabel, Threads
<1>3. CASE DispatchOut(x)
  <2> DEFINE k == IF pending[x] = NoMsg THEN Kernel
                  ELSE DispatchOutMessage(Kernel, x, pending[x], NoService)
  <2>1. KernelOK(k)
    BY KernelIsOK, DispatchOutMessageOK
  <2>2. SetKernel(k)
    BY <1>3 DEF DispatchOut
  <2> HIDE DEF k
  <2>3. /\ PoolOK(pool') /\ schedule' \in Seq(Services)
        /\ fresh' \subseteq Services /\ failed' \in Failure
    BY <2>1, <2>2, SetKernelOK
  <2>4. index' \in Nat \ {0} /\ blocked' \in [n : Nat, id : SUBSET Services]
    BY <1>3 DEF DispatchOut, NoneBlocked
  <2>5. /\ pending' \in [Exclusives -> Message \cup {NoMsg}]
        /\ pc' \in [Threads -> WorkerLabel \cup ExclusiveLabel]
    BY <1>3 DEF DispatchOut, ExclusiveLabel, Threads
  <2> QED
    BY <1>3, <2>3, <2>4, <2>5 DEF DispatchOut, PoolOK
<1>4. CASE Send(x)
  <2> DEFINE m == Head(sending[x])
  <2>1. sending[x] # <<>> /\ sending[x] \in Seq(Mail)
    BY <1>4 DEF Send, SendInv
  <2>2. m \in Mail /\ Tail(sending[x]) \in Seq(Mail)
    BY <2>1
  <2> HIDE DEF m
  <2>3. Append(Tail(sending[x]), m) \in Seq(Mail)
    BY <2>2
  <2>4. sending' \in [Exclusives -> Seq(Mail)]
    <3>1. \/ sending' = [sending EXCEPT ![x] = Append(Tail(@), m)]
          \/ sending' = [sending EXCEPT ![x] = Tail(@)]
      BY <1>4 DEF Send, m
    <3>2. sending \in [Exclusives -> Seq(Mail)]
      OBVIOUS
    <3> HIDE DEF TypeInv, TypeOK
    <3> QED
      BY <2>2, <2>3, <3>1, <3>2
  <2>5. m \in Message /\ m.to \in Services
    BY <2>2 DEF Mail
  <2>6. /\ PoolOK(pool') /\ schedule' \in Seq(Services)
        /\ fresh' \subseteq Services /\ failed' \in Failure
    <3>1. KernelOK(ScheduleIfIdle(Push(Kernel, m), m.to))
      BY <2>5, KernelIsOK, PushOK, ScheduleIfIdleOK
    <3>2. \/ SetKernel(ScheduleIfIdle(Push(Kernel, m), m.to))
          \/ UNCHANGED <<pool, fresh, schedule, failed>>
      BY <1>4 DEF Send, m
    <3>3. CASE SetKernel(ScheduleIfIdle(Push(Kernel, m), m.to))
      BY <3>1, <3>3, SetKernelOK
    <3>4. CASE UNCHANGED <<pool, fresh, schedule, failed>>
      BY <3>4
    <3> QED
      BY <3>2, <3>3, <3>4
  <2>7. blocked' \in [n : Nat, id : SUBSET Services]
    BY <1>4, <2>5, SMTT(30) DEF Send, MarkBlocked, m
  <2>8. index' \in Nat \ {0}
    BY <1>4 DEF Send
  <2> QED
    BY <1>4, <2>4, <2>6, <2>7, <2>8 DEF Send, PoolOK
<1>5. CASE SendEnd(x)
  BY <1>5 DEF SendEnd, EnterDispatch, Call, ExclusiveLabel, Threads
<1>6. CASE ScheduleDispatch(x)
  BY <1>6, ScheduleDispatchType DEF Threads
<1>7. CASE CountSleepers(x)
  BY <1>7 DEF CountSleepers, ExclusiveLabel, Threads
<1>8. CASE WakeSome(x)
  <2>1. CASE sleeping[index]
    <3>1. event' = [event EXCEPT ![index] = TRUE] /\ jobs' = jobs - 1
      BY <1>8, <2>1 DEF WakeSome
    <3>2. event' \in [Workers -> BOOLEAN]
      BY <3>1
    <3>4. jobs' \in Int
      BY <3>1
    <3>3. index' \in Nat \ {0}
      BY <1>8 DEF WakeSome
    <3> QED
      BY <1>8, <3>2, <3>3, <3>4 DEF WakeSome
  <2>2. CASE ~sleeping[index]
    <3>1. UNCHANGED <<event, jobs>>
      BY <1>8, <2>2 DEF WakeSome
    <3>2. index' \in Nat \ {0}
      BY <1>8 DEF WakeSome
    <3> QED
      BY <1>8, <3>1, <3>2 DEF WakeSome
  <2> QED
    BY <2>1, <2>2
<1>9. CASE WakeEnd(x)
  BY <1>9 DEF WakeEnd, ExclusiveLabel, Threads
<1>10. CASE ReleaseExclusive(x)
  <2>1. pc' \in [Threads -> WorkerLabel \cup ExclusiveLabel]
    BY <1>10 DEF ReleaseExclusive, ExclusiveLabel, Threads
  <2>2. ret' \in [Threads -> Call]
    BY <1>10 DEF ReleaseExclusive, LeaveDispatch, Call
  <2>3. /\ blocked' \in [n : Nat, id : SUBSET Services]
        /\ nojob' \in BOOLEAN
    BY <1>10 DEF ReleaseExclusive, LeaveDispatch, NoneBlocked
  <2> QED
    BY <1>10, <2>1, <2>2, <2>3 DEF ReleaseExclusive, Unlock, LeaveDispatch
<1> QED
  BY <1>1, <1>2, <1>3, <1>4, <1>5, <1>6, <1>7, <1>8, <1>9, <1>10
     DEF ExclusiveMessage

(* Every step keeps the state well typed. *)
LEMMA TypeInvNext ==
  ASSUME TypeInv, SendInv, [Next]_vars
  PROVE  TypeInv'
<1>1. ASSUME NEW w \in Workers, WorkerStep(w)
      PROVE  TypeInv'
  BY <1>1, TakeAndCompleteType, ResumeServiceType, ScheduleDispatchWorkerType,
     NoJobType, QuitWorkerType DEF WorkerStep
<1>2. ASSUME NEW x \in Exclusives, ExclusiveStep(x)
      PROVE  TypeInv'
  BY <1>2, ExclusiveResumeType, ExclusiveMessageType DEF ExclusiveStep
<1>3. CASE UNCHANGED vars
  BY <1>3
  DEF vars, TypeInv, TypeOK, poolVars, slotVars, sleepVars, frameVars,
      exclusiveVars, quitVars, restVars, notPc
<1> QED
  BY <1>1, <1>2, <1>3 DEF Next

(***************************************************************************)
(* Mutual exclusion: a step that does not take or release the lock stays   *)
(* on its side of it, and one that takes it finds it free.                 *)
(***************************************************************************)
(* Taking a job and handing it back. *)
LEMMA TakeAndCompleteMutex ==
  ASSUME TypeInv, OneScheduler, SendInv, NEW w \in Workers,
         TakeAndComplete(w)
  PROVE  OneScheduler' /\ SendInv'
<1> USE SchedulerAssumption
<1> USE DEF TypeInv, TypeOK, OneScheduler, SendInv, Scheduling, At, Goto,
            poolVars, slotVars, sleepVars, frameVars, exclusiveVars, quitVars,
            restVars, notPc
<1>0. \A y \in Exclusives : Len(sending[y]) \in Nat
  OBVIOUS
<1>1. CASE StartWorker(w)
  BY <1>0, <1>1 DEF StartWorker, Threads
<1>2. CASE TakeJob(w)
  BY <1>0, <1>2 DEF TakeJob, Threads
<1>3. CASE FindNoJob(w)
  BY <1>0, <1>3 DEF FindNoJob, Threads
<1>4. CASE CheckDead(w)
  BY <1>0, <1>4 DEF CheckDead, Threads
<1>5. CASE SetRunning(w)
  BY <1>0, <1>5 DEF SetRunning, Threads
<1>6. CASE Complete(w)
  BY <1>0, <1>6 DEF Complete, CompleteTo, Threads
<1>7. CASE CompleteBlocked(w)
  BY <1>0, <1>7 DEF CompleteBlocked, Threads
<1>8. CASE CompleteOwned(w)
  BY <1>0, <1>8 DEF CompleteOwned, CompleteTo, EnterDispatch, Threads
<1>9. CASE DispatchForSelf(w)
  BY <1>0, <1>9 DEF DispatchForSelf, EnterDispatch, Threads
<1>10. CASE CompleteSelf(w)
  BY <1>0, <1>10 DEF CompleteSelf, CompleteTo, EnterDispatch, Threads
<1>11. CASE CompleteSelfFails(w)
  BY <1>0, <1>11 DEF CompleteSelfFails, Threads
<1> QED
  BY <1>0, <1>1, <1>2, <1>3, <1>4, <1>5, <1>6, <1>7, <1>8, <1>9, <1>10,
     <1>11
  DEF TakeAndComplete

(* Running a service. *)
LEMMA ResumeServiceMutex ==
  ASSUME TypeInv, OneScheduler, SendInv, NEW w \in Workers,
         ResumeService(w)
  PROVE  OneScheduler' /\ SendInv'
<1> USE SchedulerAssumption
<1> USE DEF TypeInv, TypeOK, OneScheduler, SendInv, Scheduling, At, Goto,
            poolVars, slotVars, sleepVars, frameVars, exclusiveVars, quitVars,
            restVars, notPc
<1>0. \A y \in Exclusives : Len(sending[y]) \in Nat
  OBVIOUS
<1>1. CASE Yield(w)
  BY <1>0, <1>1 DEF Yield, Finish, Threads
<1>2. CASE Post(w)
  BY <1>0, <1>2 DEF Post, Finish, Threads
<1>3. CASE Quit(w)
  BY <1>0, <1>3 DEF Quit, Threads
<1>4. CASE QuitRoot(w)
  BY <1>0, <1>4 DEF QuitRoot, Threads
<1>5. CASE RootNew(w)
  BY <1>0, <1>5 DEF RootNew, Finish, Threads
<1>6. CASE RootKill(w)
  BY <1>0, <1>6 DEF RootKill, Finish, Threads
<1>7. CASE RootInit(w)
  BY <1>0, <1>7 DEF RootInit, Finish, Threads
<1>8. CASE RootReap(w)
  BY <1>0, <1>8 DEF RootReap, Finish, Threads
<1> QED
  BY <1>0, <1>1, <1>2, <1>3, <1>4, <1>5, <1>6, <1>7, <1>8
  DEF ResumeService

(* The scheduling pass. *)
LEMMA ScheduleDispatchMutex ==
  ASSUME TypeInv, OneScheduler, SendInv, NEW t \in Threads,
         ScheduleDispatch(t)
  PROVE  OneScheduler' /\ SendInv'
<1> USE SchedulerAssumption
<1> USE DEF TypeInv, TypeOK, OneScheduler, SendInv, Scheduling, At, Goto,
            poolVars, slotVars, sleepVars, frameVars, exclusiveVars, quitVars,
            restVars, notPc
<1>0. \A y \in Exclusives : Len(sending[y]) \in Nat
  OBVIOUS
<1>1. CASE CollectDone(t)
  BY <1>0, <1>1 DEF CollectDone, Threads
<1>2. CASE CollectEnd(t)
  BY <1>0, <1>2 DEF CollectEnd, Threads
<1>3. CASE DispatchJob(t)
  BY <1>0, <1>3 DEF DispatchJob, DispatchVars
<1>4. CASE DispatchSignal(t)
  BY <1>0, <1>4 DEF DispatchSignal, DispatchVars
<1>5. CASE NoSignal(t)
  BY <1>0, <1>5 DEF NoSignal
<1>6. CASE DispatchEnd(t)
  BY <1>0, <1>6 DEF DispatchEnd
<1>7. CASE AssignJob(t)
  <2>1. /\ pc[t] = "assign" /\ UNCHANGED <<owner, sending>>
        /\ pc' = [pc EXCEPT ![t] = "wake"] \/ pc' = pc
    BY <1>7 DEF AssignJob
  <2> QED
    BY <1>0, <2>1 DEF Threads
<1>8. CASE WakeAssigned(t)
  <2>1. /\ pc[t] = "wake" /\ UNCHANGED <<owner, sending>>
        /\ pc' = [pc EXCEPT ![t] = "assign"]
    BY <1>8 DEF WakeAssigned
  <2>2. OneScheduler'
    BY <2>1
  <2>3. \A y \in Exclusives : pc'[y] # "send"
    BY <2>1 DEF Threads
  <2>4. SendInv'
    <3> HIDE DEF TypeInv, TypeOK, OneScheduler
    <3> QED
      BY <2>3
  <2> QED
    BY <2>2, <2>4
<1>9. CASE AssignEnd(t)
  BY <1>0, <1>9 DEF AssignEnd
<1> QED
  BY <1>0, <1>1, <1>2, <1>3, <1>4, <1>5, <1>6, <1>7, <1>8, <1>9
  DEF ScheduleDispatch

(* The scheduling pass of a worker. *)
LEMMA ScheduleDispatchWorkerMutex ==
  ASSUME TypeInv, OneScheduler, SendInv, NEW w \in Workers,
         ScheduleDispatchWorker(w)
  PROVE  OneScheduler' /\ SendInv'
<1> USE SchedulerAssumption
<1> USE DEF TypeInv, TypeOK, OneScheduler, SendInv, Scheduling, At, Goto,
            poolVars, slotVars, sleepVars, frameVars, exclusiveVars, quitVars,
            restVars, notPc
<1>0. \A y \in Exclusives : Len(sending[y]) \in Nat
  OBVIOUS
<1>1. CASE Acquire(w)
  BY <1>0, <1>1 DEF Acquire, LockFree, EnterDispatch, Threads
<1>2. CASE AcquireFails(w)
  BY <1>0, <1>2 DEF AcquireFails, Threads
<1>3. CASE ScheduleDispatch(w)
  BY <1>0, <1>3, ScheduleDispatchMutex DEF Threads
<1>4. CASE Steal(w)
  BY <1>0, <1>4 DEF Steal, Threads
<1>5. CASE StealNothing(w)
  BY <1>0, <1>5 DEF StealNothing, Threads
<1>6. CASE Release(w)
  BY <1>0, <1>6 DEF Release, Unlock, AfterPass, LeaveDispatch, Threads
<1> QED
  BY <1>0, <1>1, <1>2, <1>3, <1>4, <1>5, <1>6
  DEF ScheduleDispatchWorker

(* A worker that has no job. *)
LEMMA NoJobMutex ==
  ASSUME TypeInv, OneScheduler, SendInv, NEW w \in Workers,
         NoJob(w)
  PROVE  OneScheduler' /\ SendInv'
<1> USE SchedulerAssumption
<1> USE DEF TypeInv, TypeOK, OneScheduler, SendInv, Scheduling, At, Goto,
            poolVars, slotVars, sleepVars, frameVars, exclusiveVars, quitVars,
            restVars, notPc
<1>0. \A y \in Exclusives : Len(sending[y]) \in Nat
  OBVIOUS
<1>1. CASE Deactivate(w)
  BY <1>0, <1>1 DEF Deactivate, CountDown, Threads
<1>2. CASE CheckLast(w)
  BY <1>0, <1>2 DEF CheckLast, Threads
<1>3. CASE LookAgain(w)
  BY <1>0, <1>3 DEF LookAgain, Threads
<1>4. CASE DeactivateAgain(w)
  BY <1>0, <1>4 DEF DeactivateAgain, CountDown, Threads
<1>5. CASE GoToSleep(w)
  BY <1>0, <1>5 DEF GoToSleep, Threads
<1>6. CASE SetSleeping(w)
  BY <1>0, <1>6 DEF SetSleeping, Threads
<1>7. CASE WaitEvent(w)
  BY <1>0, <1>7 DEF WaitEvent, Threads
<1>8. CASE ClearSleeping(w)
  BY <1>0, <1>8 DEF ClearSleeping, Threads
<1>9. CASE Awake(w)
  BY <1>0, <1>9 DEF Awake, Threads
<1> QED
  BY <1>0, <1>1, <1>2, <1>3, <1>4, <1>5, <1>6, <1>7, <1>8, <1>9
  DEF NoJob

(* The end of a worker. *)
LEMMA QuitWorkerMutex ==
  ASSUME TypeInv, OneScheduler, SendInv, NEW w \in Workers,
         QuitWorker(w)
  PROVE  OneScheduler' /\ SendInv'
<1> USE SchedulerAssumption
<1> USE DEF TypeInv, TypeOK, OneScheduler, SendInv, Scheduling, At, Goto,
            poolVars, slotVars, sleepVars, frameVars, exclusiveVars, quitVars,
            restVars, notPc
<1>0. \A y \in Exclusives : Len(sending[y]) \in Nat
  OBVIOUS
<1>1. CASE WakeAll(w)
  BY <1>0, <1>1 DEF WakeAll, Threads
<1>2. CASE SeeTerm(w)
  BY <1>0, <1>2 DEF SeeTerm, Threads
<1>3. CASE ExitWorker(w)
  BY <1>0, <1>3 DEF ExitWorker, Threads
<1> QED
  BY <1>0, <1>1, <1>2, <1>3
  DEF QuitWorker

(* An exclusive thread runs its service. *)
LEMMA ExclusiveResumeMutex ==
  ASSUME TypeInv, OneScheduler, SendInv, NEW x \in Exclusives,
         ExclusiveResume(x)
  PROVE  OneScheduler' /\ SendInv'
<1> USE SchedulerAssumption
<1> USE DEF TypeInv, TypeOK, OneScheduler, SendInv, Scheduling, At, Goto,
            poolVars, slotVars, sleepVars, frameVars, exclusiveVars, quitVars,
            restVars, notPc
<1>0. \A y \in Exclusives : Len(sending[y]) \in Nat
  OBVIOUS
<1>1. CASE LoopExclusive(x)
  BY <1>0, <1>1 DEF LoopExclusive, Threads
<1>2. CASE ExclusiveYield(x)
  BY <1>0, <1>2 DEF ExclusiveYield, Threads
<1>3. CASE ExclusiveSend(x)
  BY <1>0, <1>3 DEF ExclusiveSend, Threads
<1>4. CASE ExclusivePost(x)
  BY <1>0, <1>4 DEF ExclusivePost, Threads
<1>5. CASE ExclusiveQuit(x)
  BY <1>0, <1>5 DEF ExclusiveQuit, Threads
<1>6. CASE ExitExclusive(x)
  BY <1>0, <1>6 DEF ExitExclusive, Threads
<1> QED
  BY <1>0, <1>1, <1>2, <1>3, <1>4, <1>5, <1>6
  DEF ExclusiveResume

(* An exclusive thread sends its messages. *)
LEMMA ExclusiveMessageMutex ==
  ASSUME TypeInv, OneScheduler, SendInv, NEW x \in Exclusives,
         ExclusiveMessage(x)
  PROVE  OneScheduler' /\ SendInv'
<1> USE SchedulerAssumption
<1> USE DEF TypeInv, TypeOK, OneScheduler, SendInv, Scheduling, At, Goto,
            poolVars, slotVars, sleepVars, frameVars, exclusiveVars, quitVars,
            restVars, notPc
<1>0. \A y \in Exclusives : Len(sending[y]) \in Nat
  OBVIOUS
<1>1. CASE TakeOut(x)
  BY <1>0, <1>1 DEF TakeOut, Threads
<1>2. CASE Spin(x)
  BY <1>0, <1>2 DEF Spin, LockFree, Threads
<1>3. CASE DispatchOut(x)
  BY <1>0, <1>3 DEF DispatchOut, Threads
<1>4. CASE Send(x)
  <2>1. /\ pc[x] = "send" /\ UNCHANGED <<owner, pc>>
        /\ index > 1 /\ index' = index - 1
        /\ \/ sending' = [sending EXCEPT ![x] = Append(Tail(@), Head(@))]
           \/ sending' = [sending EXCEPT ![x] = Tail(@)]
    BY <1>4 DEF Send
  <2>2. OneScheduler'
    BY <2>1
  <2>3. \A y \in Exclusives : pc[y] = "send" => y = x
    BY <2>1 DEF Threads
  <2>4. index - 1 <= Len(sending[x]) /\ index \in Nat
        /\ sending \in [Exclusives -> Seq(Mail)]
    BY <2>1
  <2>5. Len(sending'[x]) >= Len(sending[x]) - 1 /\ Len(sending'[x]) \in Nat
    <3> HIDE DEF TypeInv, TypeOK, OneScheduler, SendInv
    <3>1. sending[x] # <<>>
      BY <2>1, <2>4
    <3> QED
      BY <2>1, <2>4, <3>1
  <2>6. SendInv'
    <3> HIDE DEF TypeInv, TypeOK, OneScheduler
    <3> QED
      BY <2>1, <2>3, <2>4, <2>5
  <2> QED
    BY <2>2, <2>6
<1>5. CASE SendEnd(x)
  BY <1>0, <1>5 DEF SendEnd, EnterDispatch, Threads
<1>6. CASE ScheduleDispatch(x)
  BY <1>0, <1>6, ScheduleDispatchMutex DEF Threads
<1>7. CASE CountSleepers(x)
  BY <1>0, <1>7 DEF CountSleepers, Threads
<1>8. CASE WakeSome(x)
  BY <1>0, <1>8 DEF WakeSome, Threads
<1>9. CASE WakeEnd(x)
  BY <1>0, <1>9 DEF WakeEnd, Threads
<1>10. CASE ReleaseExclusive(x)
  BY <1>0, <1>10 DEF ReleaseExclusive, Unlock, LeaveDispatch, Threads
<1> QED
  BY <1>0, <1>1, <1>2, <1>3, <1>4, <1>5, <1>6, <1>7, <1>8, <1>9, <1>10
  DEF ExclusiveMessage

(* The lock is free at the start and nobody is scheduling. *)
LEMMA MutexInit == Init => OneScheduler /\ SendInv
BY SchedulerAssumption DEF Init, OneScheduler, SendInv, Scheduling, Threads

(* Every step keeps the lock with the one thread that is scheduling. *)
LEMMA MutexNext ==
  ASSUME TypeInv, OneScheduler, SendInv, [Next]_vars
  PROVE  OneScheduler' /\ SendInv'
<1>1. ASSUME NEW w \in Workers, WorkerStep(w)
      PROVE  OneScheduler' /\ SendInv'
  BY <1>1, TakeAndCompleteMutex, ResumeServiceMutex, NoJobMutex,
     ScheduleDispatchWorkerMutex, QuitWorkerMutex DEF WorkerStep
<1>2. ASSUME NEW x \in Exclusives, ExclusiveStep(x)
      PROVE  OneScheduler' /\ SendInv'
  BY <1>2, ExclusiveResumeMutex, ExclusiveMessageMutex DEF ExclusiveStep
<1>3. CASE UNCHANGED vars
  BY <1>3 DEF vars, notPc, restVars, OneScheduler, SendInv, Scheduling,
              exclusiveVars, frameVars
<1> QED
  BY <1>1, <1>2, <1>3 DEF Next

(***************************************************************************)
(* The theorems.                                                           *)
(***************************************************************************)
(* Every state satisfies the inductive invariant. *)
THEOREM SchedulerInvariant == Spec => []SchedulerInv
<1>1. Init => SchedulerInv
  BY TypeInvInit, MutexInit DEF SchedulerInv
<1>2. SchedulerInv /\ [Next]_vars => SchedulerInv'
  BY TypeInvNext, MutexNext DEF SchedulerInv
<1> QED
  BY <1>1, <1>2, PTL DEF Spec

(* The state of the scheduler is always well typed: in particular ids in the
   queues and mailboxes are ids of services, and the answer to NEW that root
   reads has the address of the service (Scheduler.TypeOK). *)
THEOREM SchedulerTypeOK == Spec => []TypeOK
<1>1. SchedulerInv => TypeOK
  BY DEF SchedulerInv, TypeInv
<1> QED
  BY <1>1, SchedulerInvariant, PTL

(* Only the owner of schedule_owner is between acquire_scheduler and
   release_scheduler, for any number of worker and exclusive threads
   (Scheduler.OneScheduler). *)
THEOREM SchedulerMutex == Spec => []OneScheduler
<1>1. SchedulerInv => OneScheduler
  BY DEF SchedulerInv
<1> QED
  BY <1>1, SchedulerInvariant, PTL

-----------------------------------------------------------------------------
(***************************************************************************)
(* The ids in a queue.                                                     *)
(***************************************************************************)
Ids(q) == {q[i] : i \in DOMAIN q}
Once(q) == \A i, j \in DOMAIN q : q[i] = q[j] => i = j

(* What is put at the end of a queue is in it, after the rest, *)
LEMMA IdsAppend ==
  ASSUME NEW S, NEW q \in Seq(S), NEW s \in S
  PROVE  /\ Ids(Append(q, s)) = Ids(q) \cup {s}
         /\ Once(q) /\ s \notin Ids(q) => Once(Append(q, s))
<1> DEFINE r == Append(q, s)
<1>1. /\ Len(q) \in Nat /\ DOMAIN q = 1..Len(q)
      /\ DOMAIN r = 1..(Len(q) + 1)
      /\ \A i \in 1..Len(q) : r[i] = q[i]
      /\ r[Len(q) + 1] = s
  OBVIOUS
<1> HIDE DEF r
<1>2. \A i \in DOMAIN r : i \in DOMAIN q \/ i = Len(q) + 1
  BY <1>1
<1>3. DOMAIN q \subseteq DOMAIN r /\ Len(q) + 1 \in DOMAIN r
  BY <1>1
<1>4. Ids(r) = Ids(q) \cup {s}
  BY <1>1, <1>2, <1>3 DEF Ids
<1>5. Once(q) /\ s \notin Ids(q) => Once(r)
  BY <1>1, <1>2 DEF Ids, Once
<1> QED
  BY <1>4, <1>5 DEF r

(* and what is taken from its front was in it, and is in it no more. *)
LEMMA IdsTail ==
  ASSUME NEW S, NEW q \in Seq(S), q # <<>>, Once(q)
  PROVE  /\ Tail(q) \in Seq(S) /\ Head(q) \in S
         /\ Ids(q) = Ids(Tail(q)) \cup {Head(q)}
         /\ Head(q) \notin Ids(Tail(q))
         /\ Once(Tail(q))
<1> DEFINE r == Tail(q)
<1>1. /\ Len(q) \in Nat \ {0} /\ DOMAIN q = 1..Len(q)
      /\ DOMAIN r = 1..(Len(q) - 1)
      /\ \A i \in 1..(Len(q) - 1) : r[i] = q[i + 1]
      /\ Head(q) = q[1]
      /\ r \in Seq(S) /\ Head(q) \in S
  OBVIOUS
<1> HIDE DEF r
<1>2. \A i \in DOMAIN q : i # 1 => i - 1 \in DOMAIN r /\ q[i] = r[i - 1]
  BY <1>1
<1>3. \A i \in DOMAIN r : i + 1 \in DOMAIN q /\ i + 1 # 1 /\ r[i] = q[i + 1]
  BY <1>1
<1>4. Ids(q) = Ids(r) \cup {Head(q)}
  <2>1. 1 \in DOMAIN q
    BY <1>1
  <2>2. Ids(q) \subseteq Ids(r) \cup {Head(q)}
    BY <1>1, <1>2 DEF Ids
  <2>3. Ids(r) \subseteq Ids(q)
    BY <1>3 DEF Ids
  <2>4. Head(q) \in Ids(q)
    BY <1>1, <2>1 DEF Ids
  <2> QED
    BY <2>2, <2>3, <2>4
<1>5. Head(q) \notin Ids(r)
  <2> SUFFICES ASSUME NEW i \in DOMAIN r, r[i] = q[1] PROVE FALSE
    BY <1>1 DEF Ids
  <2>1. i + 1 \in DOMAIN q /\ 1 \in DOMAIN q /\ q[i + 1] = q[1] /\ i + 1 # 1
    BY <1>1, <1>3
  <2> QED
    BY <2>1 DEF Once
<1>6. Once(r)
  <2> SUFFICES ASSUME NEW i \in DOMAIN r, NEW j \in DOMAIN r, r[i] = r[j]
               PROVE  i = j
    BY DEF Once
  <2>1. i + 1 = j + 1
    BY <1>3 DEF Once
  <2> QED
    BY <2>1, <1>1
<1> QED
  BY <1>1, <1>4, <1>5, <1>6 DEF r

(* Nothing comes into a queue at its front, and an empty one has nothing. *)
LEMMA IdsLess ==
  /\ \A S : \A q \in Seq(S) : q # <<>> => Ids(Tail(q)) \subseteq Ids(q)
  /\ Ids(<<>>) = {}
<1>1. ASSUME NEW S, NEW q \in Seq(S), q # <<>>
      PROVE  Ids(Tail(q)) \subseteq Ids(q)
  <2>1. \A i \in DOMAIN Tail(q) : i + 1 \in DOMAIN q /\ Tail(q)[i] = q[i + 1]
    BY <1>1
  <2> QED
    BY <2>1 DEF Ids
<1>2. Ids(<<>>) = {}
  BY DEF Ids
<1> QED
  BY <1>1, <1>2

(***************************************************************************)
(* The pool P, with F the ids that were not handed out and Q the services  *)
(* that are in some place.                                                 *)
(***************************************************************************)
(* The services whose address somebody may know, and those that are gone for
   good: ids are not handed out twice. *)
Settled(P, F) == {s \in Services \ F : P[s].status # "uninitialized"}
Gone(P, F) == {s \in Services \ F : P[s].status = "absent"}

(* A message comes from a service that was made and goes to one that somebody
   may know; what root asks SYSTEM to delete or to kill it has closed itself
   already (Killable is empty). *)
MessageKept(P, F, m) ==
  /\ m.from \notin F
  /\ m.to \in Services => m.to \in Settled(P, F)
  /\ m.type \in {"hang", "del"} => m.sid \in Gone(P, F)

Sent(P, F) ==
  \A s \in Services :
    /\ P[s].out # NoMsg => MessageKept(P, F, P[s].out)
    /\ P[s].bounce # NoMsg => P[s].bounce.from \notin F
    /\ \A m \in Ids(P[s].msg) : m.from \notin F

(* Idle, uninitialised and exclusive services are in no place, scheduled and
   running ones are in some; root reads of NEW before anybody else hears of
   the new service. *)
PoolPlaced(P, F, Q) ==
  /\ \A s \in F : P[s].status = "absent"
  /\ \A x \in Exclusives : x \notin F /\ P[x].status = "exclusive"
  /\ \A s \in Q : s \notin F /\ P[s].status \notin
                                  {"idle", "uninitialized", "exclusive"}
  /\ \A s \in Services :
       P[s].status \in {"schedule", "running", "done"} => s \in Q
  /\ Sent(P, F)
  /\ Root \in Settled(P, F)
  /\ P[Root].receipt = "response" =>
       P[P[Root].bounce.to].status = "uninitialized"

(* A service that waits has nothing to read, X excepted. *)
Quiet(P, X) ==
  \A s \in Services \ X : P[s].status \in {"idle", "uninitialized"} =>
    P[s].msg = <<>> /\ P[s].receipt = "none"

(* Nobody forgets a service that it knows, and none comes back. *)
Grow(P, F, R, G) ==
  /\ Settled(P, F) \subseteq Settled(R, G)
  /\ Gone(P, F) \subseteq Gone(R, G)
  /\ G \subseteq F

(* What is kept of a message stays true as the pool grows. *)
LEMMA MessageStays ==
  ASSUME NEW P, NEW F, NEW R, NEW G, Grow(P, F, R, G),
         NEW m, MessageKept(P, F, m)
  PROVE  MessageKept(R, G, m)
BY DEF Grow, MessageKept

(* What changes messages and receipts alone. *)
LEMMA SameStatus ==
  ASSUME NEW P, NEW R, NEW F \in SUBSET Services,
         NEW Q \in SUBSET Services, NEW X,
         PoolPlaced(P, F, Q), Quiet(P, X),
         \A s \in Services : R[s].status = P[s].status,
         \A s \in Services : R[s].out # NoMsg =>
           R[s].out = P[s].out \/ MessageKept(P, F, R[s].out),
         \A s \in Services : R[s].bounce # NoMsg =>
           R[s].bounce = P[s].bounce \/ R[s].bounce.from \notin F,
         \A s \in Services : \A m \in Ids(R[s].msg) :
           m \in Ids(P[s].msg) \/ m.from \notin F,
         R[Root].receipt = "response" =>
           /\ R[Root].bounce.to \in Services
           /\ \/ P[R[Root].bounce.to].status = "uninitialized"
              \/ /\ P[Root].receipt = "response"
                 /\ P[Root].bounce = R[Root].bounce,
         \A s \in Services \ X :
           \/ R[s].msg = P[s].msg /\ R[s].receipt \in {P[s].receipt, "none"}
           \/ P[s].status \notin {"idle", "uninitialized"}
  PROVE  PoolPlaced(R, F, Q) /\ Quiet(R, X) /\ Grow(P, F, R, F)
<1>1. Settled(R, F) = Settled(P, F) /\ Gone(R, F) = Gone(P, F)
  BY DEF Settled, Gone
<1>2. Exclusives \subseteq Services
  BY SchedulerAssumption
<1>3. \A s \in F : R[s].status = "absent"
  BY DEF PoolPlaced
<1>4. \A x \in Exclusives : x \notin F /\ R[x].status = "exclusive"
  BY <1>2 DEF PoolPlaced
<1>5. Sent(R, F)
  BY <1>1 DEF PoolPlaced, MessageKept, Sent
<1>6. R[Root].receipt = "response" =>
        R[R[Root].bounce.to].status = "uninitialized"
  BY DEF PoolPlaced
<1>7. Quiet(R, X)
  BY DEF Quiet
<1>8. Grow(P, F, R, F)
  BY <1>1 DEF Grow
<1> QED
  BY <1>1, <1>3, <1>4, <1>5, <1>6, <1>7, <1>8 DEF PoolPlaced

(* service_read_receipt, *)
LEMMA ReadReceiptPlaced ==
  ASSUME NEW P, PoolOK(P), NEW F \in SUBSET Services,
         NEW Q \in SUBSET Services, NEW X, NEW s \in Services,
         PoolPlaced(P, F, Q), Quiet(P, X)
  PROVE  LET R == ServiceReadReceipt(P, s)
         IN  PoolPlaced(R, F, Q) /\ Quiet(R, X) /\ Grow(P, F, R, F)
<1> DEFINE R == ServiceReadReceipt(P, s)
<1>1. \A t \in Services :
        /\ R[t].status = P[t].status /\ R[t].out = P[t].out
        /\ R[t].bounce \in {P[t].bounce, NoMsg}
        /\ R[t].msg = P[t].msg /\ R[t].receipt \in {P[t].receipt, "none"}
        /\ R[t].receipt = "response" =>
             P[t].receipt = "response" /\ R[t].bounce = P[t].bounce
  BY DEF PoolOK, Service, ServiceReadReceipt
<1>2. R[Root].receipt = "response" => R[Root].bounce.to \in Services
  BY <1>1, PoolAssumption DEF PoolOK
<1> HIDE DEF R
<1>3. PoolPlaced(R, F, Q) /\ Quiet(R, X) /\ Grow(P, F, R, F)
  BY <1>1, <1>2, SameStatus, PoolAssumption
<1> QED
  BY <1>3 DEF R

(* service_pop_message, by a service that is run, *)
LEMMA PopMessagePlaced ==
  ASSUME NEW P, PoolOK(P), NEW F \in SUBSET Services,
         NEW Q \in SUBSET Services, NEW X, NEW s \in Services,
         PoolPlaced(P, F, Q), Quiet(P, X),
         P[s].status \notin {"idle", "uninitialized"}, P[s].receipt = "none"
  PROVE  LET R == ServicePopMessage(P, s)
         IN  PoolPlaced(R, F, Q) /\ Quiet(R, X) /\ Grow(P, F, R, F)
<1> DEFINE R == ServicePopMessage(P, s)
<1>0. P[s].msg # <<>> => Ids(Tail(P[s].msg)) \subseteq Ids(P[s].msg)
  BY IdsLess DEF PoolOK, Service
<1>1. \A t \in Services :
        /\ R[t].status = P[t].status /\ R[t].out = P[t].out
        /\ R[t].bounce \in {P[t].bounce, NoMsg}
        /\ R[t].receipt = P[t].receipt
        /\ t # s => R[t] = P[t]
  BY DEF PoolOK, Service, ServicePopMessage
<1>4. \A t \in Services : Ids(R[t].msg) \subseteq Ids(P[t].msg)
  BY <1>0 DEF PoolOK, Service, ServicePopMessage
<1>2. R[Root].receipt = "response" =>
        /\ R[Root].bounce.to \in Services
        /\ P[Root].receipt = "response" /\ R[Root].bounce = P[Root].bounce
  BY <1>1, PoolAssumption DEF PoolOK
<1> HIDE DEF R
<1>3. PoolPlaced(R, F, Q) /\ Quiet(R, X) /\ Grow(P, F, R, F)
  BY <1>1, <1>2, <1>4, SameStatus
<1> QED
  BY <1>3 DEF R

(* service_send_message, *)
LEMMA SendMessagePlaced ==
  ASSUME NEW P, PoolOK(P), NEW F \in SUBSET Services,
         NEW Q \in SUBSET Services, NEW X, NEW s \in Services,
         NEW m, MessageKept(P, F, m),
         PoolPlaced(P, F, Q), Quiet(P, X)
  PROVE  LET R == ServiceSendMessage(P, s, m)
         IN  PoolPlaced(R, F, Q) /\ Quiet(R, X) /\ Grow(P, F, R, F)
<1> DEFINE R == ServiceSendMessage(P, s, m)
<1>1. \A t \in Services :
        /\ R[t].status = P[t].status /\ R[t].out \in {P[t].out, m}
        /\ R[t].msg = P[t].msg /\ R[t].receipt = P[t].receipt
        /\ R[t].bounce = P[t].bounce
  BY DEF PoolOK, Service, ServiceSendMessage
<1>2. R[Root].receipt = "response" =>
        /\ R[Root].bounce.to \in Services
        /\ P[Root].receipt = "response" /\ R[Root].bounce = P[Root].bounce
  BY <1>1, PoolAssumption DEF PoolOK
<1> HIDE DEF R
<1>3. PoolPlaced(R, F, Q) /\ Quiet(R, X) /\ Grow(P, F, R, F)
  BY <1>1, <1>2, SameStatus
<1> QED
  BY <1>3 DEF R

(* service_send_signal, *)
LEMMA SendSignalPlaced ==
  ASSUME NEW P, PoolOK(P), NEW F \in SUBSET Services,
         NEW Q \in SUBSET Services, NEW X, NEW s \in Services,
         PoolPlaced(P, F, Q), Quiet(P, X)
  PROVE  LET R == ServiceSendSignal(P, s)
         IN  PoolPlaced(R, F, Q) /\ Quiet(R, X) /\ Grow(P, F, R, F)
<1> DEFINE R == ServiceSendSignal(P, s)
<1>0. Exists(P, s) => MessageKept(P, F, Signal(s))
  BY PoolAssumption DEF MessageKept, Signal, PoolPlaced, Exists
<1>1. \A t \in Services :
        /\ R[t].status = P[t].status /\ R[t].out \in {P[t].out, Signal(s)}
        /\ R[t].out # P[t].out => Exists(P, s)
        /\ R[t].msg = P[t].msg /\ R[t].receipt = P[t].receipt
        /\ R[t].bounce = P[t].bounce
  BY DEF PoolOK, Service, ServiceSendSignal
<1>2. R[Root].receipt = "response" =>
        /\ R[Root].bounce.to \in Services
        /\ P[Root].receipt = "response" /\ R[Root].bounce = P[Root].bounce
  BY <1>1, PoolAssumption DEF PoolOK
<1> HIDE DEF R
<1>3. PoolPlaced(R, F, Q) /\ Quiet(R, X) /\ Grow(P, F, R, F)
  BY <1>0, <1>1, <1>2, SameStatus
<1> QED
  BY <1>3 DEF R

(* service_message_out, *)
LEMMA MessageOutPlaced ==
  ASSUME NEW P, PoolOK(P), NEW F \in SUBSET Services,
         NEW Q \in SUBSET Services, NEW X, NEW s \in Services,
         PoolPlaced(P, F, Q), Quiet(P, X)
  PROVE  LET R == ServiceMessageOut(P, s)
         IN  PoolPlaced(R, F, Q) /\ Quiet(R, X) /\ Grow(P, F, R, F)
<1> DEFINE R == ServiceMessageOut(P, s)
<1>1. \A t \in Services :
        /\ R[t].status = P[t].status /\ R[t].out \in {P[t].out, NoMsg}
        /\ R[t].msg = P[t].msg /\ R[t].receipt = P[t].receipt
        /\ R[t].bounce = P[t].bounce
  BY DEF PoolOK, Service, ServiceMessageOut
<1>2. R[Root].receipt = "response" =>
        /\ R[Root].bounce.to \in Services
        /\ P[Root].receipt = "response" /\ R[Root].bounce = P[Root].bounce
  BY <1>1, PoolAssumption DEF PoolOK
<1> HIDE DEF R
<1>3. PoolPlaced(R, F, Q) /\ Quiet(R, X) /\ Grow(P, F, R, F)
  BY <1>1, <1>2, SameStatus
<1> QED
  BY <1>3 DEF R

(* service_push_message: the receiver may be idle and have something to read,
   until it is scheduled, *)
LEMMA PushMessagePlaced ==
  ASSUME NEW P, PoolOK(P), NEW F \in SUBSET Services,
         NEW Q \in SUBSET Services, NEW X, NEW s \in Services,
         NEW m \in Message, m.from \notin F,
         PoolPlaced(P, F, Q), Quiet(P, X)
  PROVE  LET R == ServicePushMessage(P, s, m)
         IN  PoolPlaced(R, F, Q) /\ Quiet(R, X \cup {s}) /\ Grow(P, F, R, F)
<1> DEFINE R == ServicePushMessage(P, s, m)
<1>1. \A t \in Services :
        /\ R[t].status = P[t].status /\ R[t].out = P[t].out
        /\ R[t].receipt = P[t].receipt /\ R[t].bounce = P[t].bounce
        /\ t # s => R[t] = P[t]
  BY DEF PoolOK, Service, ServicePushMessage
<1>5. \A t \in Services : Ids(R[t].msg) \subseteq Ids(P[t].msg) \cup {m}
  <2>1. Ids(Append(P[s].msg, m)) = Ids(P[s].msg) \cup {m}
    BY IdsAppend DEF PoolOK, Service
  <2> QED
    BY <2>1 DEF PoolOK, Service, ServicePushMessage
<1>2. R[Root].receipt = "response" =>
        /\ R[Root].bounce.to \in Services
        /\ P[Root].receipt = "response" /\ R[Root].bounce = P[Root].bounce
  BY <1>1, PoolAssumption DEF PoolOK
<1>3. Quiet(P, X \cup {s})
  BY DEF Quiet
<1> HIDE DEF R
<1>4. PoolPlaced(R, F, Q) /\ Quiet(R, X \cup {s}) /\ Grow(P, F, R, F)
  BY <1>1, <1>2, <1>3, <1>5, SameStatus
<1> QED
  BY <1>4 DEF R

(* and service_write_receipt for a service that is done, or exclusive. *)
LEMMA WriteReceiptPlaced ==
  ASSUME NEW P, PoolOK(P), NEW F \in SUBSET Services,
         NEW Q \in SUBSET Services, NEW X, NEW s \in Services,
         NEW r, NEW m, m # NoMsg => m.from \notin F,
         PoolPlaced(P, F, Q), Quiet(P, X),
         P[s].status \notin {"idle", "uninitialized"},
         r = "response" =>
           m.to \in Services /\ P[m.to].status = "uninitialized"
  PROVE  LET R == ServiceWriteReceipt(P, s, r, m)
         IN  PoolPlaced(R, F, Q) /\ Quiet(R, X) /\ Grow(P, F, R, F)
<1> DEFINE R == ServiceWriteReceipt(P, s, r, m)
<1>1. \A t \in Services :
        /\ R[t].status = P[t].status /\ R[t].out = P[t].out
        /\ R[t].msg = P[t].msg
        /\ t # s => R[t] = P[t]
        /\ \/ R[t].receipt = P[t].receipt /\ R[t].bounce = P[t].bounce
           \/ R[t].receipt = r /\ R[t].bounce = m
  BY DEF PoolOK, Service, ServiceWriteReceipt
<1>2. R[Root].receipt = "response" =>
        /\ R[Root].bounce.to \in Services
        /\ \/ P[R[Root].bounce.to].status = "uninitialized"
           \/ P[Root].receipt = "response" /\ P[Root].bounce = R[Root].bounce
  BY <1>1, PoolAssumption DEF PoolOK
<1> HIDE DEF R
<1>3. PoolPlaced(R, F, Q) /\ Quiet(R, X) /\ Grow(P, F, R, F)
  BY <1>1, <1>2, SameStatus
<1> QED
  BY <1>3 DEF R

(***************************************************************************)
(* Changes of status.                                                      *)
(***************************************************************************)
(* A service that was idle or in some place is scheduled, run, done or dead;
   if it was idle, it is put in some place. *)
LEMMA StatusPlaced ==
  ASSUME NEW P, PoolOK(P), NEW F \in SUBSET Services,
         NEW Q \in SUBSET Services, NEW X, NEW s \in Services,
         PoolPlaced(P, F, Q), Quiet(P, X),
         P[s].status \notin {"uninitialized", "absent", "exclusive"},
         NEW st \in {"schedule", "running", "done", "dead"}
  PROVE  LET R == [P EXCEPT ![s].status = st]
         IN  /\ PoolPlaced(R, F, Q \cup {s}) /\ Quiet(R, X \ {s})
             /\ Grow(P, F, R, F)
<1> DEFINE R == [P EXCEPT ![s].status = st]
<1>1. \A t \in Services :
        /\ R[t].out = P[t].out /\ R[t].msg = P[t].msg
        /\ R[t].receipt = P[t].receipt /\ R[t].bounce = P[t].bounce
        /\ R[t].status = IF t = s THEN st ELSE P[t].status
  BY DEF PoolOK, Service
<1>2. s \notin F
  BY DEF PoolPlaced
<1>3. P[Root].receipt = "response" => P[Root].bounce.to \in Services
  BY PoolAssumption DEF PoolOK
<1>4. Exclusives \subseteq Services
  BY SchedulerAssumption
<1> HIDE DEF R
<1>5. Settled(R, F) = Settled(P, F) /\ Gone(R, F) = Gone(P, F)
  BY <1>1 DEF Settled, Gone
<1>6. Sent(R, F)
  BY <1>1, <1>5 DEF PoolPlaced, MessageKept, Sent
<1>7. /\ \A t \in F : R[t].status = "absent"
      /\ \A x \in Exclusives : x \notin F /\ R[x].status = "exclusive"
  BY <1>1, <1>2, <1>4 DEF PoolPlaced
<1>8. \A t \in Q \cup {s} : t \notin F /\ R[t].status \notin
                              {"idle", "uninitialized", "exclusive"}
  BY <1>1, <1>2 DEF PoolPlaced
<1>9. \A t \in Services :
        R[t].status \in {"schedule", "running", "done"} => t \in Q \cup {s}
  BY <1>1 DEF PoolPlaced
<1>10. R[Root].receipt = "response" =>
         R[R[Root].bounce.to].status = "uninitialized"
  BY <1>1, <1>3, PoolAssumption DEF PoolPlaced
<1>11. Quiet(R, X \ {s})
  BY <1>1 DEF Quiet
<1>12. PoolPlaced(R, F, Q \cup {s})
  BY <1>5, <1>6, <1>7, <1>8, <1>9, <1>10 DEF PoolPlaced
<1> QED
  BY <1>5, <1>11, <1>12 DEF R, Grow

(* service_status_set, of a service that is in some place. *)
LEMMA StatusSetPlaced ==
  ASSUME NEW P, PoolOK(P), NEW F \in SUBSET Services,
         NEW Q \in SUBSET Services, NEW X, NEW s \in Q,
         PoolPlaced(P, F, Q), Quiet(P, X),
         NEW st \in {"schedule", "running", "done", "dead"}
  PROVE  LET R == ServiceStatusSet(P, s, st)
         IN  PoolPlaced(R, F, Q) /\ Quiet(R, X) /\ Grow(P, F, R, F)
<1>1. CASE P[s].status = "absent"
  BY <1>1 DEF ServiceStatusSet, Exists, Grow
<1>2. CASE P[s].status # "absent"
  <2> DEFINE R == [P EXCEPT ![s].status = st]
  <2>1. P[s].status \notin {"uninitialized", "absent", "exclusive"}
    BY <1>2 DEF PoolPlaced
  <2>2. PoolPlaced(R, F, Q \cup {s}) /\ Quiet(R, X \ {s}) /\ Grow(P, F, R, F)
    BY <2>1, StatusPlaced
  <2>3. Q \cup {s} = Q /\ ServiceStatusSet(P, s, st) = R
    BY <1>2 DEF ServiceStatusSet, Exists
  <2>4. Quiet(R, X)
    BY <2>2 DEF Quiet
  <2> QED
    BY <2>2, <2>3, <2>4
<1> QED
  BY <1>1, <1>2

(* A service with nothing to read that leaves its place is idle. *)
LEMMA IdlePlaced ==
  ASSUME NEW P, PoolOK(P), NEW F \in SUBSET Services,
         NEW Q \in SUBSET Services, NEW X, NEW s \in Q,
         PoolPlaced(P, F, Q), Quiet(P, X),
         ~ServiceHasMessage(P, s)
  PROVE  LET R == ServiceStatusSet(P, s, "idle")
         IN  PoolPlaced(R, F, Q \ {s}) /\ Quiet(R, X) /\ Grow(P, F, R, F)
<1> DEFINE R == ServiceStatusSet(P, s, "idle")
<1>1. \A t \in Services :
        /\ R[t].out = P[t].out /\ R[t].msg = P[t].msg
        /\ R[t].receipt = P[t].receipt /\ R[t].bounce = P[t].bounce
        /\ R[t].status = IF t = s /\ P[s].status # "absent" THEN "idle"
                         ELSE P[t].status
  BY DEF PoolOK, Service, ServiceStatusSet, Exists
<1>2. /\ s \notin F
      /\ P[s].status \notin {"idle", "uninitialized", "exclusive"}
  BY DEF PoolPlaced
<1>3. P[Root].receipt = "response" => P[Root].bounce.to \in Services
  BY PoolAssumption DEF PoolOK
<1>4. Exclusives \subseteq Services
  BY SchedulerAssumption
<1>5. P[s].status # "absent" => P[s].msg = <<>> /\ P[s].receipt = "none"
  BY DEF ServiceHasMessage, Exists
<1> HIDE DEF R
<1>6. Settled(R, F) = Settled(P, F) /\ Gone(R, F) = Gone(P, F)
  BY <1>1, <1>2 DEF Settled, Gone
<1>7. Sent(R, F)
  BY <1>1, <1>6 DEF PoolPlaced, MessageKept, Sent
<1>8. /\ \A t \in F : R[t].status = "absent"
      /\ \A x \in Exclusives : x \notin F /\ R[x].status = "exclusive"
  BY <1>1, <1>2, <1>4 DEF PoolPlaced
<1>9. \A t \in Q \ {s} : t \notin F /\ R[t].status \notin
                              {"idle", "uninitialized", "exclusive"}
  BY <1>1 DEF PoolPlaced
<1>10. \A t \in Services :
        R[t].status \in {"schedule", "running", "done"} => t \in Q \ {s}
  BY <1>1, <1>2 DEF PoolPlaced
<1>11. R[Root].receipt = "response" =>
         R[R[Root].bounce.to].status = "uninitialized"
  BY <1>1, <1>2, <1>3, PoolAssumption DEF PoolPlaced
<1>12. Quiet(R, X)
  BY <1>1, <1>5 DEF Quiet
<1>13. PoolPlaced(R, F, Q \ {s})
  BY <1>6, <1>7, <1>8, <1>9, <1>10, <1>11 DEF PoolPlaced
<1> QED
  BY <1>6, <1>12, <1>13 DEF R, Grow

(* A service that is neither scheduled nor running may leave its place. *)
LEMMA LeavePlaced ==
  ASSUME NEW P, NEW F, NEW Q, NEW s, PoolPlaced(P, F, Q),
         P[s].status \notin {"schedule", "running", "done"}
  PROVE  PoolPlaced(P, F, Q \ {s})
BY DEF PoolPlaced

(* A service is made, *)
LEMMA NewPlaced ==
  ASSUME NEW P, PoolOK(P), NEW F \in SUBSET Services,
         NEW Q \in SUBSET Services, NEW X, NEW s \in F,
         PoolPlaced(P, F, Q), Quiet(P, X)
  PROVE  LET R == ServiceNew(P, s)
         IN  /\ PoolPlaced(R, F \ {s}, Q) /\ Quiet(R, X)
             /\ Grow(P, F, R, F \ {s})
             /\ R[s].status = "uninitialized"
<1> DEFINE R == ServiceNew(P, s)
<1>1. \A t \in Services : IF t = s THEN R[t] = EmptyService("uninitialized")
                                   ELSE R[t] = P[t]
  BY DEF PoolOK, ServiceNew
<1>2. /\ R[s].status = "uninitialized" /\ R[s].msg = <<>> /\ R[s].out = NoMsg
      /\ R[s].bounce = NoMsg
      /\ R[s].receipt = "none"
  BY <1>1 DEF EmptyService
<1>3. s \notin Settled(P, F) /\ s \notin Q /\ s # Root /\ s \notin Exclusives
  BY DEF PoolPlaced, Settled
<1>4. P[Root].receipt = "response" => P[Root].bounce.to \in Services
  BY PoolAssumption DEF PoolOK
<1>5. Exclusives \subseteq Services
  BY SchedulerAssumption
<1> HIDE DEF R
<1>6. Settled(P, F) \subseteq Settled(R, F \ {s})
      /\ Gone(P, F) \subseteq Gone(R, F \ {s})
  BY <1>1 DEF Settled, Gone
<1>7. Sent(R, F \ {s})
  BY <1>1, <1>2, <1>6, IdsLess DEF PoolPlaced, MessageKept, Sent
<1>8. /\ \A t \in F \ {s} : R[t].status = "absent"
      /\ \A x \in Exclusives : x \notin F \ {s} /\ R[x].status = "exclusive"
  BY <1>1, <1>3, <1>5 DEF PoolPlaced
<1>9. \A t \in Q : t \notin F \ {s} /\ R[t].status \notin
                              {"idle", "uninitialized", "exclusive"}
  BY <1>1, <1>3 DEF PoolPlaced
<1>10. \A t \in Services :
        R[t].status \in {"schedule", "running", "done"} => t \in Q
  BY <1>1, <1>2 DEF PoolPlaced
<1>11. Root \in Settled(R, F \ {s})
  BY <1>6 DEF PoolPlaced
<1>12. R[Root].receipt = "response" =>
         R[R[Root].bounce.to].status = "uninitialized"
  BY <1>1, <1>2, <1>3, <1>4, PoolAssumption DEF PoolPlaced
<1>13. Quiet(R, X)
  BY <1>1, <1>2 DEF Quiet
<1>14. PoolPlaced(R, F \ {s}, Q)
  BY <1>7, <1>8, <1>9, <1>10, <1>11, <1>12 DEF PoolPlaced
<1> QED
  BY <1>2, <1>6, <1>13, <1>14 DEF R, Grow

(* initialised, when root has read the answer, *)
LEMMA InitPlaced ==
  ASSUME NEW P, PoolOK(P), NEW F \in SUBSET Services,
         NEW Q \in SUBSET Services, NEW X, NEW s \in Services,
         PoolPlaced(P, F, Q), Quiet(P, X),
         P[s].status = "uninitialized", P[Root].receipt # "response"
  PROVE  LET R == ServiceInit(P, s)
         IN  /\ PoolPlaced(R, F, Q) /\ Quiet(R, X) /\ Grow(P, F, R, F)
             /\ s \in Settled(R, F)
<1> DEFINE R == ServiceInit(P, s)
<1>1. \A t \in Services :
        /\ R[t].out = P[t].out /\ R[t].msg = P[t].msg
        /\ R[t].receipt = P[t].receipt /\ R[t].bounce = P[t].bounce
        /\ R[t].status = IF t = s THEN "idle" ELSE P[t].status
  BY DEF PoolOK, Service, ServiceInit
<1>2. s \notin F /\ s \notin Q /\ s \notin Exclusives
  BY DEF PoolPlaced
<1>3. Exclusives \subseteq Services
  BY SchedulerAssumption
<1> HIDE DEF R
<1>4. Settled(R, F) = Settled(P, F) \cup {s} /\ Gone(R, F) = Gone(P, F)
  BY <1>1, <1>2 DEF Settled, Gone
<1>5. Sent(R, F)
  BY <1>1, <1>4 DEF PoolPlaced, MessageKept, Sent
<1>6. /\ \A t \in F : R[t].status = "absent"
      /\ \A x \in Exclusives : x \notin F /\ R[x].status = "exclusive"
  BY <1>1, <1>2, <1>3 DEF PoolPlaced
<1>7. \A t \in Q : t \notin F /\ R[t].status \notin
                              {"idle", "uninitialized", "exclusive"}
  BY <1>1, <1>2 DEF PoolPlaced
<1>8. \A t \in Services :
        R[t].status \in {"schedule", "running", "done"} => t \in Q
  BY <1>1 DEF PoolPlaced
<1>9. R[Root].receipt # "response"
  BY <1>1, PoolAssumption
<1>10. Quiet(R, X)
  BY <1>1 DEF Quiet
<1>11. PoolPlaced(R, F, Q)
  BY <1>4, <1>5, <1>6, <1>7, <1>8, <1>9 DEF PoolPlaced
<1> QED
  BY <1>4, <1>10, <1>11 DEF R, Grow

(* and deleted: it may be so while it is in some place. *)
LEMMA DeletePlaced ==
  ASSUME NEW P, PoolOK(P), NEW F \in SUBSET Services,
         NEW Q \in SUBSET Services, NEW X, NEW s \in Services \ F,
         PoolPlaced(P, F, Q), Quiet(P, X),
         P[s].status # "exclusive",
         P[s].status = "uninitialized" => P[Root].receipt # "response"
  PROVE  LET R == ServiceDelete(P, s)
         IN  /\ PoolPlaced(R, F, Q) /\ Quiet(R, X) /\ Grow(P, F, R, F)
             /\ s \in Gone(R, F)
<1> DEFINE R == ServiceDelete(P, s)
<1>1. \A t \in Services : IF t = s THEN R[t] = EmptyService("absent")
                                   ELSE R[t] = P[t]
  BY DEF PoolOK, ServiceDelete, Absent
<1>2. /\ R[s].status = "absent" /\ R[s].msg = <<>> /\ R[s].out = NoMsg
      /\ R[s].bounce = NoMsg
      /\ R[s].receipt = "none"
  BY <1>1 DEF EmptyService
<1>3. s \notin Exclusives
  BY DEF PoolPlaced
<1>4. P[Root].receipt = "response" => P[Root].bounce.to \in Services
  BY PoolAssumption DEF PoolOK
<1>5. Exclusives \subseteq Services
  BY SchedulerAssumption
<1> HIDE DEF R
<1>6. /\ Settled(P, F) \subseteq Settled(R, F)
      /\ Gone(P, F) \subseteq Gone(R, F) /\ s \in Gone(R, F)
  BY <1>1, <1>2 DEF Settled, Gone
<1>7. Sent(R, F)
  BY <1>1, <1>2, <1>6, IdsLess DEF PoolPlaced, MessageKept, Sent
<1>8. /\ \A t \in F : R[t].status = "absent"
      /\ \A x \in Exclusives : x \notin F /\ R[x].status = "exclusive"
  BY <1>1, <1>3, <1>5 DEF PoolPlaced
<1>9. \A t \in Q : t \notin F /\ R[t].status \notin
                              {"idle", "uninitialized", "exclusive"}
  BY <1>1, <1>2 DEF PoolPlaced
<1>10. \A t \in Services :
        R[t].status \in {"schedule", "running", "done"} => t \in Q
  BY <1>1, <1>2 DEF PoolPlaced
<1>11. Root \in Settled(R, F)
  BY <1>6 DEF PoolPlaced
<1>12. R[Root].receipt = "response" =>
         R[R[Root].bounce.to].status = "uninitialized"
  BY <1>1, <1>2, <1>4, PoolAssumption DEF PoolPlaced
<1>13. Quiet(R, X)
  BY <1>1, <1>2 DEF Quiet
<1>14. PoolPlaced(R, F, Q)
  BY <1>7, <1>8, <1>9, <1>10, <1>11, <1>12 DEF PoolPlaced
<1> QED
  BY <1>6, <1>13, <1>14 DEF R, Grow

(***************************************************************************)
(* The kernel k, with H the services that are in some place beside the     *)
(* schedule queue.                                                         *)
(***************************************************************************)
KernelPlaced(k, H, X) ==
  /\ PoolPlaced(k.pool, k.fresh, Ids(k.schedule) \cup H)
  /\ Quiet(k.pool, X)
  /\ Ids(k.schedule) \cap H = {}
  /\ Once(k.schedule)

GrowKernel(k, l) == Grow(k.pool, k.fresh, l.pool, l.fresh)

(* What the lemmas about the pool ask of a kernel *)
LEMMA KernelFacts ==
  ASSUME NEW k, KernelOK(k), NEW H \in SUBSET Services
  PROVE  /\ PoolOK(k.pool) /\ k.fresh \in SUBSET Services
         /\ k.schedule \in Seq(Services)
         /\ Ids(k.schedule) \cup H \in SUBSET Services
<1>1. k.schedule \in Seq(Services)
  BY DEF KernelOK
<1>2. \A i \in DOMAIN k.schedule : k.schedule[i] \in Services
  BY <1>1
<1> QED
  BY <1>1, <1>2 DEF KernelOK, Ids

(* A pool that is as good as the last one can take its place. *)
LEMMA KernelPool ==
  ASSUME NEW k, KernelOK(k), NEW H, NEW X, NEW Y, KernelPlaced(k, H, X),
         NEW P, PoolPlaced(P, k.fresh, Ids(k.schedule) \cup H), Quiet(P, Y),
         Grow(k.pool, k.fresh, P, k.fresh)
  PROVE  LET l == [k EXCEPT !.pool = P]
         IN  KernelPlaced(l, H, Y) /\ GrowKernel(k, l)
<1> DEFINE l == [k EXCEPT !.pool = P]
<1>1. l.pool = P /\ l.schedule = k.schedule /\ l.fresh = k.fresh
  BY DEF KernelOK
<1> HIDE DEF l
<1>2. KernelPlaced(l, H, Y) /\ GrowKernel(k, l)
  BY <1>1 DEF KernelPlaced, GrowKernel
<1> QED
  BY <1>2 DEF l

(* A service that is scheduled leaves its place for the queue. *)
LEMMA BackPlaced ==
  ASSUME NEW k, KernelOK(k), NEW H \in SUBSET Services, NEW X,
         KernelPlaced(k, H, X), NEW s \in H
  PROVE  /\ KernelPlaced(ScheduleBack(k, s), H \ {s}, X)
         /\ GrowKernel(k, ScheduleBack(k, s))
<1> DEFINE l == ScheduleBack(k, s)
<1>1. /\ l.pool = k.pool /\ l.fresh = k.fresh
      /\ l.schedule = Append(k.schedule, s)
  BY DEF KernelOK, ScheduleBack
<1>2. s \notin Ids(k.schedule)
  BY DEF KernelPlaced
<1>3. Ids(l.schedule) = Ids(k.schedule) \cup {s} /\ Once(l.schedule)
  BY <1>1, <1>2, IdsAppend, KernelFacts DEF KernelPlaced
<1> HIDE DEF l
<1>4. Ids(l.schedule) \cup (H \ {s}) = Ids(k.schedule) \cup H
  BY <1>3
<1>5. KernelPlaced(l, H \ {s}, X) /\ GrowKernel(k, l)
  BY <1>1, <1>3, <1>4 DEF KernelPlaced, GrowKernel, Grow
<1> QED
  BY <1>5 DEF l

(* An idle service that has something to read is scheduled. *)
LEMMA ScheduleIfIdlePlaced ==
  ASSUME NEW k, KernelOK(k), NEW H \in SUBSET Services, NEW X,
         KernelPlaced(k, H, X), NEW s \in Settled(k.pool, k.fresh)
  PROVE  /\ KernelPlaced(ScheduleIfIdle(k, s), H, X \ {s})
         /\ GrowKernel(k, ScheduleIfIdle(k, s))
<1>0. s \in Services /\ s \notin k.fresh /\ k.pool[s].status # "uninitialized"
  BY DEF Settled
<1>1. CASE k.pool[s].status = "idle"
  <2> DEFINE P == ServiceStatusSet(k.pool, s, "schedule")
             l == ScheduleIfIdle(k, s)
             Q == Ids(k.schedule) \cup H
  <2>1. P = [k.pool EXCEPT ![s].status = "schedule"]
    BY <1>1 DEF ServiceStatusSet, Exists
  <2>2. ServiceStatusGet(k.pool, s) = "idle"
    BY <1>1 DEF ServiceStatusGet, Exists
  <2>3. /\ l.pool = P /\ l.fresh = k.fresh
        /\ l.schedule = Append(k.schedule, s)
    BY <2>2 DEF KernelOK, ScheduleIfIdle, ScheduleBack
  <2>4. PoolPlaced(k.pool, k.fresh, Q) /\ Quiet(k.pool, X)
    BY DEF KernelPlaced
  <2>5. s \notin Q
    BY <1>1, <2>4 DEF PoolPlaced
  <2>6. Ids(l.schedule) = Ids(k.schedule) \cup {s} /\ Once(l.schedule)
    BY <1>0, <2>3, <2>5, IdsAppend, KernelFacts DEF KernelPlaced
  <2>7. /\ PoolOK(k.pool) /\ k.fresh \in SUBSET Services
        /\ Q \in SUBSET Services
    BY KernelFacts
  <2> HIDE DEF P, l, Q
  <2>8. PoolPlaced(P, k.fresh, Q \cup {s}) /\ Quiet(P, X \ {s})
        /\ Grow(k.pool, k.fresh, P, k.fresh)
    BY <1>0, <1>1, <2>1, <2>4, <2>7, StatusPlaced
  <2>9. Ids(l.schedule) \cup H = Q \cup {s}
    BY <2>6 DEF Q
  <2>10. Ids(l.schedule) \cap H = {}
    BY <2>5, <2>6 DEF Q, KernelPlaced
  <2>11. KernelPlaced(l, H, X \ {s}) /\ GrowKernel(k, l)
    BY <2>3, <2>6, <2>8, <2>9, <2>10 DEF KernelPlaced, GrowKernel
  <2> QED
    BY <2>11 DEF l
<1>2. CASE k.pool[s].status # "idle"
  <2>1. ScheduleIfIdle(k, s) = k
    BY <1>2 DEF ScheduleIfIdle, ServiceStatusGet, Exists
  <2>2. Quiet(k.pool, X \ {s})
    BY <1>0, <1>2 DEF KernelPlaced, Quiet
  <2> QED
    BY <2>1, <2>2 DEF KernelPlaced, GrowKernel, Grow
<1> QED
  BY <1>1, <1>2

(* service_push_message, under the lock. *)
LEMMA PushPlaced ==
  ASSUME NEW k, KernelOK(k), NEW H \in SUBSET Services, NEW X,
         KernelPlaced(k, H, X), NEW m \in Message, m.to \in Services,
         m.from \notin k.fresh
  PROVE  /\ KernelPlaced(Push(k, m), H, X \cup {m.to})
         /\ GrowKernel(k, Push(k, m))
<1> DEFINE Q == Ids(k.schedule) \cup H
           P == ServicePushMessage(k.pool, m.to, m)
<1>1. /\ PoolOK(k.pool) /\ k.fresh \in SUBSET Services /\ Q \in SUBSET Services
  BY KernelFacts
<1>2. PoolPlaced(k.pool, k.fresh, Q) /\ Quiet(k.pool, X)
  BY DEF KernelPlaced
<1>3. PoolPlaced(P, k.fresh, Q) /\ Quiet(P, X \cup {m.to})
      /\ Grow(k.pool, k.fresh, P, k.fresh)
  BY <1>1, <1>2, PushMessagePlaced
<1>4. Push(k, m) = [k EXCEPT !.pool = P]
  BY DEF Push
<1> DEFINE Y == X \cup {m.to}
           l == [k EXCEPT !.pool = P]
<1> HIDE DEF P, Y
<1>5. PoolPlaced(P, k.fresh, Q) /\ Quiet(P, Y)
      /\ Grow(k.pool, k.fresh, P, k.fresh)
  BY <1>3 DEF Y
<1>6. KernelPlaced(l, H, Y) /\ GrowKernel(k, l)
  BY <1>5, KernelPool
<1> QED
  BY <1>4, <1>6 DEF Y

(* service_write_receipt, under the lock. *)
LEMMA AnswerPlaced ==
  ASSUME NEW k, KernelOK(k), NEW H \in SUBSET Services, NEW X,
         KernelPlaced(k, H, X), NEW id \in H \cup Exclusives, NEW r, NEW m,
         m # NoMsg => m.from \notin k.fresh,
         r = "response" =>
           m.to \in Services /\ k.pool[m.to].status = "uninitialized"
  PROVE  /\ KernelPlaced(Answer(k, id, r, m), H, X)
         /\ GrowKernel(k, Answer(k, id, r, m))
<1> DEFINE Q == Ids(k.schedule) \cup H
           P == ServiceWriteReceipt(k.pool, id, r, m)
<1>1. /\ PoolOK(k.pool) /\ k.fresh \in SUBSET Services /\ Q \in SUBSET Services
  BY KernelFacts
<1>2. PoolPlaced(k.pool, k.fresh, Q) /\ Quiet(k.pool, X)
  BY DEF KernelPlaced
<1>3. id \in Services
  BY SchedulerAssumption
<1>4. k.pool[id].status \notin {"idle", "uninitialized"}
  BY <1>2 DEF PoolPlaced
<1> HIDE DEF Q
<1>5. PoolPlaced(P, k.fresh, Q) /\ Quiet(P, X)
      /\ Grow(k.pool, k.fresh, P, k.fresh)
  BY <1>1, <1>2, <1>3, <1>4, WriteReceiptPlaced
<1>6. Answer(k, id, r, m) = [k EXCEPT !.pool = P]
  BY DEF Answer
<1> DEFINE l == [k EXCEPT !.pool = P]
<1> HIDE DEF P
<1>7. KernelPlaced(l, H, X) /\ GrowKernel(k, l)
  BY <1>5, KernelPool DEF Q
<1> QED
  BY <1>6, <1>7

(* Whatever is known stays known over two operations. *)
LEMMA GrowTwice ==
  ASSUME NEW k, NEW l, NEW n, GrowKernel(k, l), GrowKernel(l, n)
  PROVE  GrowKernel(k, n)
BY DEF GrowKernel, Grow

(* dispatch_schedule_message: NEW, DEL, HANG and what is refused.  Nothing is
   killed that root did not close before. *)
LEMMA DispatchScheduleMessagePlaced ==
  ASSUME NEW k, KernelOK(k), NEW H \in SUBSET Services, NEW X,
         KernelPlaced(k, H, X), NEW id \in H \cup Exclusives,
         NEW m \in Message, MessageKept(k.pool, k.fresh, m),
         NEW n \in k.fresh \cup {NoService}
  PROVE  LET l == DispatchScheduleMessage(k, id, m, n)
         IN  KernelPlaced(l, H, X) /\ GrowKernel(k, l)
<1> DEFINE l == DispatchScheduleMessage(k, id, m, n)
           Q == Ids(k.schedule) \cup H
<1>1. /\ PoolOK(k.pool) /\ k.fresh \in SUBSET Services /\ Q \in SUBSET Services
      /\ PoolPlaced(k.pool, k.fresh, Q) /\ Quiet(k.pool, X)
  BY KernelFacts DEF KernelPlaced
<1>0. m.from \notin k.fresh
  BY DEF MessageKept
<1>2. KernelPlaced(Answer(k, id, "error", m), H, X)
      /\ GrowKernel(k, Answer(k, id, "error", m))
  BY <1>0, AnswerPlaced
<1>3. ASSUME n # NoService
      PROVE  LET a == Answer([k EXCEPT !.pool = ServiceNew(@, n),
                                       !.fresh = @ \ {n}],
                             id, "response", [m EXCEPT !.to = n])
             IN  KernelPlaced(a, H, X) /\ GrowKernel(k, a)
  <2> DEFINE kNew == [k EXCEPT !.pool = ServiceNew(@, n), !.fresh = @ \ {n}]
             mNew == [m EXCEPT !.to = n]
             P == ServiceNew(k.pool, n)
  <2>1. n \in k.fresh /\ n \in Services
    BY <1>1, <1>3
  <2>2. /\ PoolPlaced(P, k.fresh \ {n}, Q) /\ Quiet(P, X)
        /\ Grow(k.pool, k.fresh, P, k.fresh \ {n})
        /\ P[n].status = "uninitialized"
    <3> DEFINE F == k.fresh
               W == k.pool
    <3>1. /\ PoolOK(W) /\ F \in SUBSET Services /\ Q \in SUBSET Services
          /\ PoolPlaced(W, F, Q) /\ Quiet(W, X) /\ n \in F
      BY <1>1, <2>1
    <3> HIDE DEF Q, F, W
    <3>2. LET R == ServiceNew(W, n)
          IN  /\ PoolPlaced(R, F \ {n}, Q) /\ Quiet(R, X)
              /\ Grow(W, F, R, F \ {n})
              /\ R[n].status = "uninitialized"
      BY <3>1, NewPlaced
    <3> QED
      BY <3>2 DEF F, W
  <2>3. PoolOK(P)
    BY <1>1, NewInitDeleteOK
  <2>4. /\ kNew.pool = P /\ kNew.fresh = k.fresh \ {n}
        /\ kNew.schedule = k.schedule
    BY DEF KernelOK
  <2>5. KernelOK(kNew)
    BY <2>3 DEF KernelOK, PoolOK
  <2>6. mNew.to = n /\ mNew.from = m.from
    BY DEF Message
  <2> HIDE DEF kNew, mNew, P
  <2>7. KernelPlaced(kNew, H, X) /\ GrowKernel(k, kNew)
    BY <2>2, <2>4 DEF KernelPlaced, GrowKernel
  <2>8. KernelPlaced(Answer(kNew, id, "response", mNew), H, X)
        /\ GrowKernel(kNew, Answer(kNew, id, "response", mNew))
    BY <1>0, <2>1, <2>2, <2>4, <2>5, <2>6, <2>7, AnswerPlaced
  <2>9. GrowKernel(k, Answer(kNew, id, "response", mNew))
    BY <2>7, <2>8, GrowTwice
  <2> QED
    BY <2>8, <2>9 DEF kNew, mNew
<1>4. ASSUME m.type = "del"
      PROVE  LET a == Answer([k EXCEPT !.pool = ServiceDelete(@, m.sid)],
                             id, "done", NoMsg)
             IN  KernelPlaced(a, H, X) /\ GrowKernel(k, a)
  <2> DEFINE kDel == [k EXCEPT !.pool = ServiceDelete(@, m.sid)]
             P == ServiceDelete(k.pool, m.sid)
  <2>1. m.sid \in Services \ k.fresh /\ k.pool[m.sid].status = "absent"
    BY <1>4 DEF MessageKept, Gone
  <2>2. PoolPlaced(P, k.fresh, Q) /\ Quiet(P, X)
        /\ Grow(k.pool, k.fresh, P, k.fresh)
    BY <1>1, <2>1, DeletePlaced
  <2>3. PoolOK(P)
    BY <1>1, NewInitDeleteOK
  <2>4. kDel = [k EXCEPT !.pool = P]
    OBVIOUS
  <2> HIDE DEF kDel, P
  <2>5. KernelPlaced(kDel, H, X) /\ GrowKernel(k, kDel) /\ KernelOK(kDel)
    BY <2>2, <2>3, <2>4, KernelPool, KernelSetPool
  <2>6. KernelPlaced(Answer(kDel, id, "done", NoMsg), H, X)
        /\ GrowKernel(kDel, Answer(kDel, id, "done", NoMsg))
    BY <2>5, AnswerPlaced
  <2>7. GrowKernel(k, Answer(kDel, id, "done", NoMsg))
    BY <2>5, <2>6, GrowTwice
  <2> QED
    BY <2>6, <2>7 DEF kDel
<1>5. ASSUME m.type = "hang"
      PROVE  LET a == HangService(k, id, m)
             IN  KernelPlaced(a, H, X) /\ GrowKernel(k, a)
  <2>1. m.sid \in Services \ k.fresh /\ k.pool[m.sid].status = "absent"
    BY <1>5 DEF MessageKept, Gone
  <2>2. ServiceHang(k.pool, m.sid) = k.pool
    BY <2>1 DEF ServiceHang, Exists
  <2>3. [k EXCEPT !.pool = ServiceHang(@, m.sid)] = k
    BY <2>2 DEF KernelOK
  <2>4. HangService(k, id, m) = Answer(k, id, "done", NoMsg)
    BY <2>1, <2>3
    DEF HangService, ServiceStatusGet, HangRefused, Exists
  <2> QED
    BY <2>4, AnswerPlaced
<1> QED
  BY <1>2, <1>3, <1>4, <1>5 DEF DispatchScheduleMessage

(* dispatch_out_message, to a service and to SYSTEM. *)
LEMMA DispatchOutMessagePlaced ==
  ASSUME NEW k, KernelOK(k), NEW H \in SUBSET Services,
         KernelPlaced(k, H, {}), NEW id \in H \cup Exclusives,
         NEW m \in Message, MessageKept(k.pool, k.fresh, m),
         NEW n \in k.fresh \cup {NoService}
  PROVE  LET l == DispatchOutMessage(k, id, m, n)
         IN  KernelPlaced(l, H, {}) /\ GrowKernel(k, l)
<1>1. CASE m.to = System
  BY <1>1, DispatchScheduleMessagePlaced DEF DispatchOutMessage
<1>2. CASE m.to # System
  <2> DEFINE r == PushResult(k.pool, m.to)
             b == IF r = "done" THEN NoMsg ELSE m
             k1 == Push(k, m)
             k2 == Answer(k1, id, r, b)
             k3 == ScheduleIfIdle(k2, m.to)
  <2>1. /\ m.to \in Services /\ m.to \in Settled(k.pool, k.fresh)
        /\ m.from \notin k.fresh
    BY <1>2 DEF Message, MessageKept
  <2>2. r \in Receipt /\ r # "response" /\ b \in Message \cup {NoMsg}
    BY PushResultType
  <2>3. DispatchOutMessage(k, id, m, n) = k3
    BY <1>2 DEF DispatchOutMessage
  <2>4. KernelOK(k1)
    BY PushOK
  <2>5. KernelPlaced(k1, H, {m.to}) /\ GrowKernel(k, k1)
    <3>1. {} \cup {m.to} = {m.to}
      OBVIOUS
    <3> QED
      BY <2>1, <3>1, PushPlaced
  <2>13. m.from \notin k1.fresh /\ (b # NoMsg => b = m)
    BY <2>1, <2>5 DEF GrowKernel, Grow
  <2> HIDE DEF r, b, k1
  <2>6. KernelOK(k2)
    BY <2>2, <2>4, AnswerOK
  <2>7. KernelPlaced(k2, H, {m.to}) /\ GrowKernel(k1, k2)
    BY <2>2, <2>4, <2>5, <2>13, AnswerPlaced
  <2> HIDE DEF k2
  <2>8. GrowKernel(k, k2)
    BY <2>5, <2>7, GrowTwice
  <2>9. m.to \in Settled(k2.pool, k2.fresh)
    BY <2>1, <2>8 DEF GrowKernel, Grow
  <2>10. KernelPlaced(k3, H, {m.to} \ {m.to}) /\ GrowKernel(k2, k3)
    BY <2>6, <2>7, <2>9, ScheduleIfIdlePlaced
  <2>11. {m.to} \ {m.to} = {}
    OBVIOUS
  <2> HIDE DEF k3
  <2>12. GrowKernel(k, k3)
    BY <2>8, <2>10, GrowTwice
  <2> QED
    BY <2>3, <2>10, <2>11, <2>12
<1> QED
  BY <1>1, <1>2

(* The death signal: queued, put off, or dropped with the service. *)
LEMMA SignalRootPlaced ==
  ASSUME NEW k, KernelOK(k), NEW H \in SUBSET Services,
         KernelPlaced(k, H, {}), NEW id \in H,
         k.pool[id].status \in {"dead", "absent"},
         NEW m \in Message, m.to = Root, m.from \notin k.fresh
  PROVE  LET l == SignalRoot(k, id, m)
         IN  KernelPlaced(l, H \ {id}, {}) /\ GrowKernel(k, l)
<1> DEFINE G == H \ {id}
           Q == Ids(k.schedule) \cup H
<1>1. /\ PoolOK(k.pool) /\ k.fresh \in SUBSET Services /\ Q \in SUBSET Services
      /\ PoolPlaced(k.pool, k.fresh, Q) /\ Quiet(k.pool, {})
  BY KernelFacts DEF KernelPlaced
<1>2. KernelPlaced(k, G, {})
  <2>1. Ids(k.schedule) \cup G = Q \ {id}
    BY DEF KernelPlaced
  <2>2. PoolPlaced(k.pool, k.fresh, Q \ {id})
    BY <1>1, LeavePlaced
  <2> QED
    BY <2>1, <2>2 DEF KernelPlaced
<1>3. LET l == ScheduleIfIdle(Push(k, m), Root)
      IN  KernelPlaced(l, G, {}) /\ GrowKernel(k, l)
  <2> DEFINE k1 == Push(k, m)
             l == ScheduleIfIdle(k1, Root)
  <2>1. KernelOK(k1)
    BY PushOK
  <2>2. KernelPlaced(k1, G, {Root}) /\ GrowKernel(k, k1)
    <3>1. {} \cup {m.to} = {Root}
      OBVIOUS
    <3> QED
      BY <1>2, <3>1, PushPlaced, PoolAssumption
  <2> HIDE DEF k1
  <2>3. Root \in Settled(k1.pool, k1.fresh)
    BY <2>2 DEF KernelPlaced, PoolPlaced
  <2>4. KernelPlaced(l, G, {Root} \ {Root}) /\ GrowKernel(k1, l)
    BY <2>1, <2>2, <2>3, ScheduleIfIdlePlaced
  <2>5. {Root} \ {Root} = {}
    OBVIOUS
  <2> HIDE DEF l
  <2>6. KernelPlaced(l, G, {}) /\ GrowKernel(k, l)
    BY <2>2, <2>4, <2>5, GrowTwice
  <2> QED
    BY <2>6 DEF k1, l
<1>4. KernelPlaced(ScheduleBack(k, id), G, {})
      /\ GrowKernel(k, ScheduleBack(k, id))
  BY BackPlaced
<1>5. LET l == [k EXCEPT !.pool = ServiceDelete(@, id)]
      IN  KernelPlaced(l, G, {}) /\ GrowKernel(k, l)
  <2> DEFINE P == ServiceDelete(k.pool, id)
             R == Ids(k.schedule) \cup G
  <2>1. id \in Services \ k.fresh
    BY <1>1 DEF PoolPlaced
  <2>2. PoolPlaced(k.pool, k.fresh, R) /\ R \in SUBSET Services
    BY <1>1, <1>2 DEF KernelPlaced
  <2>3. PoolPlaced(P, k.fresh, R) /\ Quiet(P, {})
        /\ Grow(k.pool, k.fresh, P, k.fresh)
    BY <1>1, <2>1, <2>2, DeletePlaced
  <2> HIDE DEF P
  <2>4. LET l == [k EXCEPT !.pool = P]
        IN  KernelPlaced(l, G, {}) /\ GrowKernel(k, l)
    BY <1>2, <2>3, KernelPool
  <2> QED
    BY <2>4 DEF P
<1> QED
  BY <1>3, <1>4, <1>5 DEF SignalRoot

(* A service that is done waits or is scheduled again. *)
LEMMA ParkPlaced ==
  ASSUME NEW k, KernelOK(k), NEW H \in SUBSET Services,
         KernelPlaced(k, H, {}), NEW id \in H
  PROVE  KernelPlaced(Park(k, id), H \ {id}, {})
         /\ GrowKernel(k, Park(k, id))
<1> DEFINE Q == Ids(k.schedule) \cup H
<1>1. /\ PoolOK(k.pool) /\ k.fresh \in SUBSET Services /\ Q \in SUBSET Services
      /\ PoolPlaced(k.pool, k.fresh, Q) /\ Quiet(k.pool, {})
  BY KernelFacts DEF KernelPlaced
<1>2. CASE ServiceHasMessage(k.pool, id)
  <2> DEFINE P == ServiceStatusSet(k.pool, id, "schedule")
             l == [k EXCEPT !.pool = P]
  <2>1. PoolPlaced(P, k.fresh, Q) /\ Quiet(P, {})
        /\ Grow(k.pool, k.fresh, P, k.fresh)
    BY <1>1, StatusSetPlaced
  <2>2. PoolOK(P)
    BY <1>1, StatusSetOK DEF Status
  <2>3. Park(k, id) = ScheduleBack(l, id)
    BY <1>2 DEF Park
  <2> HIDE DEF P
  <2>4. KernelPlaced(l, H, {}) /\ GrowKernel(k, l) /\ KernelOK(l)
    BY <2>1, <2>2, KernelPool, KernelSetPool
  <2> HIDE DEF l
  <2> QED
    BY <2>3, <2>4, BackPlaced, GrowTwice
<1>3. CASE ~ServiceHasMessage(k.pool, id)
  <2> DEFINE P == ServiceStatusSet(k.pool, id, "idle")
             l == [k EXCEPT !.pool = P]
  <2>1. PoolPlaced(P, k.fresh, Q \ {id}) /\ Quiet(P, {})
        /\ Grow(k.pool, k.fresh, P, k.fresh)
    BY <1>1, <1>3, IdlePlaced
  <2>2. Park(k, id) = l
    BY <1>3 DEF Park
  <2>3. l.pool = P /\ l.fresh = k.fresh /\ l.schedule = k.schedule
    BY DEF KernelOK
  <2> HIDE DEF P, l
  <2>4. Ids(k.schedule) \cup (H \ {id}) = Q \ {id}
    BY DEF KernelPlaced
  <2> QED
    BY <2>1, <2>2, <2>3, <2>4 DEF KernelPlaced, GrowKernel
<1> QED
  BY <1>2, <1>3

(***************************************************************************)
(* Which thread has what in its hands: a worker a job, from the time it    *)
(* takes it until it gives it back, and the owner of the lock the locals   *)
(* of the pass.                                                            *)
(***************************************************************************)
HasJob(w) ==
  \/ pc[w] \in {"check", "set", "resume", "complete", "completeOwned",
                "completeSelf", "wakeAll"}
  \/ pc[w] = "acquire" /\ ret[w] = "done"
  \/ pc[w] \in {"collect", "dispatch", "assign", "wake"} /\ ret[w] = "self"

Hands ==
  \A w \in Workers :
    /\ HasJob(w) => running[w] # NoService
    /\ running[w] # NoService => HasJob(w) \/ pc[w] \in {"exit", "quit"}
    /\ pc[w] \in {"acquire", "completeOwned"} => ret[w] # "self"

PassLocals ==
  /\ owner = NoService \/ pc[owner] \notin {"collect", "dispatch"} =>
       doneJob = <<>>
  /\ owner = NoService \/ pc[owner] # "assign" => job = NoService

Control == Hands /\ PassLocals

(* What the proofs about control use of the type invariant *)
ControlType ==
  /\ pc \in [Threads -> WorkerLabel \cup ExclusiveLabel]
  /\ ret \in [Threads -> Call]
  /\ owner \in Threads \cup {NoService}
  /\ running \in [Workers -> Services \cup {NoService}]
  /\ ready \in [Workers -> Services \cup {NoService}]
  /\ done \in [Workers -> Services \cup {NoService}]
  /\ Threads = Workers \cup Exclusives /\ Exclusives \cap Workers = {}
  /\ NoService \notin Threads

(* The type invariant says so. *)
LEMMA ControlTypeHolds == TypeInv => ControlType
BY SchedulerAssumption DEF TypeInv, TypeOK, ControlType, Threads

(* A worker takes a job and hands it back. *)
LEMMA TakeAndCompleteControl ==
  ASSUME ControlType, OneScheduler, Control, NEW w \in Workers,
         TakeAndComplete(w)
  PROVE  Control'
<1> USE DEF ControlType, OneScheduler, Scheduling, Control, Hands, HasJob,
            PassLocals, At, Goto, poolVars, slotVars, sleepVars, frameVars,
            exclusiveVars, quitVars, restVars, notPc
<1>1. CASE StartWorker(w)
  BY <1>1 DEF StartWorker
<1>2. CASE TakeJob(w)
  BY <1>2 DEF TakeJob
<1>3. CASE FindNoJob(w)
  BY <1>3 DEF FindNoJob
<1>4. CASE CheckDead(w)
  BY <1>4 DEF CheckDead
<1>5. CASE SetRunning(w)
  BY <1>5 DEF SetRunning
<1>6. CASE Complete(w)
  BY <1>6 DEF Complete, CompleteTo
<1>7. CASE CompleteBlocked(w)
  BY <1>7 DEF CompleteBlocked
<1>8. CASE CompleteOwned(w)
  BY <1>8 DEF CompleteOwned, CompleteTo, EnterDispatch
<1>9. CASE DispatchForSelf(w)
  BY <1>9 DEF DispatchForSelf, EnterDispatch
<1>10. CASE CompleteSelf(w)
  BY <1>10 DEF CompleteSelf, CompleteTo, EnterDispatch
<1>11. CASE CompleteSelfFails(w)
  BY <1>11 DEF CompleteSelfFails
<1> QED
  BY <1>1, <1>2, <1>3, <1>4, <1>5, <1>6, <1>7, <1>8, <1>9, <1>10, <1>11
  DEF TakeAndComplete

(* A worker runs a service. *)
LEMMA ResumeServiceControl ==
  ASSUME ControlType, OneScheduler, Control, NEW w \in Workers,
         ResumeService(w)
  PROVE  Control'
<1> USE DEF ControlType, OneScheduler, Scheduling, Control, Hands, HasJob,
            PassLocals, At, Goto, poolVars, slotVars, sleepVars, frameVars,
            exclusiveVars, quitVars, restVars, notPc
<1>1. CASE Yield(w)
  BY <1>1 DEF Yield, Finish
<1>2. CASE Post(w)
  BY <1>2 DEF Post, Finish
<1>3. CASE Quit(w)
  BY <1>3 DEF Quit
<1>4. CASE QuitRoot(w)
  BY <1>4 DEF QuitRoot
<1>5. CASE RootNew(w)
  BY <1>5 DEF RootNew, Finish
<1>6. CASE RootKill(w)
  BY <1>6 DEF RootKill, Finish
<1>7. CASE RootInit(w)
  BY <1>7 DEF RootInit, Finish
<1>8. CASE RootReap(w)
  BY <1>8 DEF RootReap, Finish
<1> QED
  BY <1>1, <1>2, <1>3, <1>4, <1>5, <1>6, <1>7, <1>8
  DEF ResumeService

(* The scheduling pass. *)
LEMMA ScheduleDispatchControl ==
  ASSUME ControlType, OneScheduler, Control, NEW t \in Threads,
         ScheduleDispatch(t)
  PROVE  Control'
<1> USE DEF ControlType, OneScheduler, Scheduling, Control, Hands, HasJob,
            PassLocals, At, Goto, poolVars, slotVars, sleepVars, frameVars,
            exclusiveVars, quitVars, restVars, notPc
<1>1. CASE CollectDone(t)
  BY <1>1 DEF CollectDone
<1>2. CASE CollectEnd(t)
  BY <1>2 DEF CollectEnd
<1>3. CASE DispatchJob(t)
  BY <1>3 DEF DispatchJob, DispatchVars
<1>4. CASE DispatchSignal(t)
  BY <1>4 DEF DispatchSignal, DispatchVars
<1>5. CASE NoSignal(t)
  BY <1>5 DEF NoSignal
<1>6. CASE DispatchEnd(t)
  BY <1>6 DEF DispatchEnd
<1>7. CASE AssignJob(t)
  BY <1>7 DEF AssignJob
<1>8. CASE WakeAssigned(t)
  BY <1>8 DEF WakeAssigned
<1>9. CASE AssignEnd(t)
  BY <1>9 DEF AssignEnd
<1> QED
  BY <1>1, <1>2, <1>3, <1>4, <1>5, <1>6, <1>7, <1>8, <1>9
  DEF ScheduleDispatch

(* A worker and the lock. *)
LEMMA ScheduleDispatchWorkerControl ==
  ASSUME ControlType, OneScheduler, Control, NEW w \in Workers,
         ScheduleDispatchWorker(w)
  PROVE  Control'
<1> USE DEF ControlType, OneScheduler, Scheduling, Control, Hands, HasJob,
            PassLocals, At, Goto, poolVars, slotVars, sleepVars, frameVars,
            exclusiveVars, quitVars, restVars, notPc
<1>1. CASE Acquire(w)
  BY <1>1 DEF Acquire, EnterDispatch, LockFree
<1>2. CASE AcquireFails(w)
  BY <1>2 DEF AcquireFails
<1>3. CASE ScheduleDispatch(w)
  BY <1>3, ScheduleDispatchControl
<1>4. CASE Steal(w)
  BY <1>4 DEF Steal
<1>5. CASE StealNothing(w)
  BY <1>5 DEF StealNothing
<1>6. CASE Release(w)
  BY <1>6 DEF Release, LeaveDispatch, Unlock, AfterPass
<1> QED
  BY <1>1, <1>2, <1>3, <1>4, <1>5, <1>6
  DEF ScheduleDispatchWorker

(* A worker without a job. *)
LEMMA NoJobControl ==
  ASSUME ControlType, OneScheduler, Control, NEW w \in Workers,
         NoJob(w)
  PROVE  Control'
<1> USE DEF ControlType, OneScheduler, Scheduling, Control, Hands, HasJob,
            PassLocals, At, Goto, poolVars, slotVars, sleepVars, frameVars,
            exclusiveVars, quitVars, restVars, notPc
<1>1. CASE Deactivate(w)
  BY <1>1 DEF Deactivate, CountDown
<1>2. CASE CheckLast(w)
  BY <1>2 DEF CheckLast
<1>3. CASE LookAgain(w)
  BY <1>3 DEF LookAgain
<1>4. CASE DeactivateAgain(w)
  BY <1>4 DEF DeactivateAgain, CountDown
<1>5. CASE GoToSleep(w)
  BY <1>5 DEF GoToSleep
<1>6. CASE SetSleeping(w)
  BY <1>6 DEF SetSleeping
<1>7. CASE WaitEvent(w)
  BY <1>7 DEF WaitEvent
<1>8. CASE ClearSleeping(w)
  BY <1>8 DEF ClearSleeping
<1>9. CASE Awake(w)
  BY <1>9 DEF Awake
<1> QED
  BY <1>1, <1>2, <1>3, <1>4, <1>5, <1>6, <1>7, <1>8, <1>9
  DEF NoJob

(* The end of a worker. *)
LEMMA QuitWorkerControl ==
  ASSUME ControlType, OneScheduler, Control, NEW w \in Workers,
         QuitWorker(w)
  PROVE  Control'
<1> USE DEF ControlType, OneScheduler, Scheduling, Control, Hands, HasJob,
            PassLocals, At, Goto, poolVars, slotVars, sleepVars, frameVars,
            exclusiveVars, quitVars, restVars, notPc
<1>1. CASE WakeAll(w)
  BY <1>1 DEF WakeAll
<1>2. CASE SeeTerm(w)
  BY <1>2 DEF SeeTerm
<1>3. CASE ExitWorker(w)
  BY <1>3 DEF ExitWorker
<1> QED
  BY <1>1, <1>2, <1>3
  DEF QuitWorker

(* An exclusive thread runs its service *)
LEMMA ExclusiveResumeControl ==
  ASSUME ControlType, OneScheduler, Control, NEW x \in Exclusives,
         ExclusiveResume(x)
  PROVE  Control'
<1> USE DEF ControlType, OneScheduler, Scheduling, Control, Hands, HasJob,
            PassLocals, At, Goto, poolVars, slotVars, sleepVars, frameVars,
            exclusiveVars, quitVars, restVars, notPc
<1>1. CASE LoopExclusive(x)
  BY <1>1 DEF LoopExclusive
<1>2. CASE ExclusiveYield(x)
  BY <1>2 DEF ExclusiveYield
<1>3. CASE ExclusiveSend(x)
  BY <1>3 DEF ExclusiveSend
<1>4. CASE ExclusivePost(x)
  BY <1>4 DEF ExclusivePost
<1>5. CASE ExclusiveQuit(x)
  BY <1>5 DEF ExclusiveQuit
<1>6. CASE ExitExclusive(x)
  BY <1>6 DEF ExitExclusive
<1> QED
  BY <1>1, <1>2, <1>3, <1>4, <1>5, <1>6
  DEF ExclusiveResume

(* and sends its messages. *)
LEMMA ExclusiveMessageControl ==
  ASSUME ControlType, OneScheduler, Control, NEW x \in Exclusives,
         ExclusiveMessage(x)
  PROVE  Control'
<1> USE DEF ControlType, OneScheduler, Scheduling, Control, Hands, HasJob,
            PassLocals, At, Goto, poolVars, slotVars, sleepVars, frameVars,
            exclusiveVars, quitVars, restVars, notPc
<1>1. CASE TakeOut(x)
  BY <1>1 DEF TakeOut
<1>2. CASE Spin(x)
  BY <1>2 DEF Spin, LockFree
<1>3. CASE DispatchOut(x)
  BY <1>3 DEF DispatchOut
<1>4. CASE Send(x)
  BY <1>4 DEF Send
<1>5. CASE SendEnd(x)
  BY <1>5 DEF SendEnd, EnterDispatch
<1>6. CASE ScheduleDispatch(x)
  BY <1>6, ScheduleDispatchControl
<1>7. CASE CountSleepers(x)
  BY <1>7 DEF CountSleepers
<1>8. CASE WakeSome(x)
  BY <1>8 DEF WakeSome
<1>9. CASE WakeEnd(x)
  BY <1>9 DEF WakeEnd
<1>10. CASE ReleaseExclusive(x)
  BY <1>10 DEF ReleaseExclusive, LeaveDispatch, Unlock
<1> QED
  BY <1>1, <1>2, <1>3, <1>4, <1>5, <1>6, <1>7, <1>8, <1>9, <1>10
  DEF ExclusiveMessage

(***************************************************************************)
(* The places of the services, and how jobs move between them.             *)
(***************************************************************************)
(* The services that are in some place beside the schedule queue *)
Held ==
  {s \in Services : \/ \E w \in Workers : s \in {ready[w], running[w], done[w]}
                    \/ s \in Ids(doneJob)
                    \/ s = job}

(* No two of those places hold the same service. *)
SlotsApart ==
  /\ \A v, w \in Workers :
       /\ v # w /\ ready[v] = ready[w] => ready[v] = NoService
       /\ v # w /\ running[v] = running[w] => running[v] = NoService
       /\ v # w /\ done[v] = done[w] => done[v] = NoService
       /\ ready[v] = running[w] => ready[v] = NoService
       /\ ready[v] = done[w] => ready[v] = NoService
       /\ running[v] = done[w] => running[v] = NoService
  /\ \A w \in Workers :
       /\ ready[w] \notin Ids(doneJob) /\ running[w] \notin Ids(doneJob)
       /\ done[w] \notin Ids(doneJob)
  /\ Once(doneJob)
  /\ job # NoService =>
       /\ \A w \in Workers :
            job # ready[w] /\ job # running[w] /\ job # done[w]
       /\ job \notin Ids(doneJob)

(* What exclusive services are about to send *)
MailKept ==
  \A x \in Exclusives :
    /\ pending[x] # NoMsg => MessageKept(pool, fresh, pending[x])
    /\ \A m \in Ids(sending[x]) : MessageKept(pool, fresh, m)

PlaceInv == KernelPlaced(Kernel, Held, {}) /\ SlotsApart /\ MailKept

slots == <<ready, running, done, doneJob, job>>
mail == <<pending, sending>>

(* What the proofs about places use of the type invariant *)
PlaceType ==
  /\ PoolOK(pool) /\ fresh \in SUBSET Services
  /\ schedule \in Seq(Services) /\ doneJob \in Seq(Services)
  /\ ready \in [Workers -> Services \cup {NoService}]
  /\ running \in [Workers -> Services \cup {NoService}]
  /\ done \in [Workers -> Services \cup {NoService}]
  /\ job \in Services \cup {NoService}
  /\ sending \in [Exclusives -> Seq(Mail)]
  /\ pending \in [Exclusives -> Message \cup {NoMsg}]
  /\ NoService \notin Services
  /\ Ids(schedule) \cup Held \in SUBSET Services
  /\ NoService \notin Ids(doneJob)

(* The type invariant says so. *)
LEMMA PlaceTypeHolds == TypeInv => PlaceType
<1> SUFFICES ASSUME TypeInv PROVE PlaceType
  OBVIOUS
<1>1. /\ PoolOK(pool) /\ fresh \in SUBSET Services
      /\ schedule \in Seq(Services) /\ doneJob \in Seq(Services)
      /\ ready \in [Workers -> Services \cup {NoService}]
      /\ running \in [Workers -> Services \cup {NoService}]
      /\ done \in [Workers -> Services \cup {NoService}]
      /\ job \in Services \cup {NoService}
      /\ sending \in [Exclusives -> Seq(Mail)]
      /\ pending \in [Exclusives -> Message \cup {NoMsg}]
  BY DEF TypeInv, TypeOK
<1>2. NoService \notin Services
  BY PoolAssumption
<1>3. /\ \A i \in DOMAIN schedule : schedule[i] \in Services
      /\ \A i \in DOMAIN doneJob : doneJob[i] \in Services
  BY <1>1
<1> QED
  BY <1>1, <1>2, <1>3 DEF PlaceType, Ids, Held

(* Nothing happens to a place. *)
LEMMA NothingMoves ==
  ASSUME PlaceInv, UNCHANGED <<pool, fresh, schedule, slots, mail>>
  PROVE  PlaceInv'
<1>1. Held' = Held
  BY DEF Held, slots
<1>2. Kernel' = Kernel
  BY DEF Kernel
<1>3. SlotsApart' /\ MailKept'
  BY DEF PlaceInv, SlotsApart, MailKept, slots, mail
<1> QED
  BY <1>1, <1>2, <1>3 DEF PlaceInv

(* Only the pool changes. *)
LEMMA PoolMoves ==
  ASSUME PlaceInv, UNCHANGED <<fresh, schedule, slots>>,
         PoolPlaced(pool', fresh, Ids(schedule) \cup Held), Quiet(pool', {}),
         MailKept'
  PROVE  PlaceInv'
<1>1. Held' = Held /\ SlotsApart'
  BY DEF PlaceInv, Held, SlotsApart, slots
<1>2. KernelPlaced(Kernel, Held, {})'
  BY <1>1 DEF PlaceInv, KernelPlaced, Kernel
<1> QED
  BY <1>1, <1>2 DEF PlaceInv

(* Messages that wait with an exclusive service stay what they are. *)
LEMMA MailStays ==
  ASSUME MailKept, Grow(pool, fresh, pool', fresh'), UNCHANGED mail
  PROVE  MailKept'
BY MessageStays DEF MailKept, mail

(* A job moves from one place to another, and the pool stays as it is. *)
LEMMA JobMoves ==
  ASSUME PlaceInv, UNCHANGED <<pool, fresh, mail>>,
         Ids(schedule') \cup Held' = Ids(schedule) \cup Held,
         Ids(schedule') \cap Held' = {}, Once(schedule'), SlotsApart'
  PROVE  PlaceInv'
<1>1. KernelPlaced(Kernel, Held, {})'
  BY DEF PlaceInv, KernelPlaced, Kernel
<1>2. MailKept'
  BY DEF PlaceInv, MailKept, mail
<1> QED
  BY <1>1, <1>2 DEF PlaceInv

(* The same, when it is not the schedule queue that it leaves or comes to. *)
LEMMA JobMovesBeside ==
  ASSUME PlaceInv, UNCHANGED <<pool, fresh, schedule, mail>>,
         Held' = Held, SlotsApart'
  PROVE  PlaceInv'
BY JobMoves DEF PlaceInv, KernelPlaced, Kernel

(* worker_get_job *)
LEMMA TakeJobPlaced ==
  ASSUME PlaceType, PlaceInv, Control, NEW w \in Workers, TakeJob(w)
  PROVE  PlaceInv'
<1>1. /\ ready' = [ready EXCEPT ![w] = NoService]
      /\ running' = [running EXCEPT ![w] = ready[w]]
      /\ ready[w] # NoService /\ pc[w] = "loop"
      /\ UNCHANGED <<pool, fresh, schedule, mail, done, doneJob, job>>
  BY DEF TakeJob, At, restVars, poolVars, frameVars, exclusiveVars, mail
<1>2. running[w] = NoService
  BY <1>1 DEF Control, Hands, HasJob
<1>3. Held' = Held
  BY <1>1, <1>2 DEF PlaceType, Held
<1>4. SlotsApart'
  BY <1>1, <1>2 DEF PlaceInv, PlaceType, SlotsApart
<1> QED
  BY <1>1, <1>3, <1>4, JobMovesBeside

(* The store into service_done *)
LEMMA CompletePlaced ==
  ASSUME PlaceType, PlaceInv, NEW w \in Workers, NEW l, CompleteTo(w, l),
         UNCHANGED <<pool, fresh, schedule, mail, ready, doneJob, job>>
  PROVE  PlaceInv'
<1>1. /\ done[w] = NoService
      /\ running' = [running EXCEPT ![w] = NoService]
      /\ done' = [done EXCEPT ![w] = running[w]]
  BY DEF CompleteTo
<1>3. Held' = Held
  BY <1>1 DEF PlaceType, Held
<1>4. SlotsApart'
  BY <1>1 DEF PlaceInv, PlaceType, SlotsApart
<1> QED
  BY <1>3, <1>4, JobMovesBeside

(* The pass collects service_done. *)
LEMMA CollectDonePlaced ==
  ASSUME PlaceType, PlaceInv, NEW t \in Threads, CollectDone(t),
         index \in Nat \ {0}
  PROVE  PlaceInv'
<1>1. /\ index \in Workers
      /\ done' = [done EXCEPT ![index] = NoService]
      /\ doneJob' = IF done[index] = NoService THEN doneJob
                    ELSE Append(doneJob, done[index])
      /\ UNCHANGED <<pool, fresh, schedule, mail, ready, running, job>>
  BY SchedulerAssumption
  DEF CollectDone, MoreWorkers, poolVars, exclusiveVars, mail, Workers
<1>2. CASE done[index] = NoService
  <2>1. done' = done /\ doneJob' = doneJob
    BY <1>1, <1>2 DEF PlaceType
  <2> QED
    BY <1>1, <2>1, NothingMoves DEF slots
<1>3. CASE done[index] # NoService
  <2>1. /\ Ids(doneJob') = Ids(doneJob) \cup {done[index]}
        /\ Once(doneJob')
    BY <1>1, <1>3, IdsAppend DEF PlaceType, PlaceInv, SlotsApart
  <2>2. Held' = Held
    BY <1>1, <1>3, <2>1 DEF PlaceType, Held
  <2>3. SlotsApart'
    BY <1>1, <1>3, <2>1 DEF PlaceInv, PlaceType, SlotsApart
  <2> QED
    BY <1>1, <2>2, <2>3, JobMovesBeside
<1> QED
  BY <1>2, <1>3

(* The pass gives a job of the queue, or the one in its hands, to a worker, *)
LEMMA AssignJobPlaced ==
  ASSUME PlaceType, PlaceInv, NEW t \in Threads, AssignJob(t),
         index \in Nat \ {0}
  PROVE  PlaceInv'
<1> DEFINE s == JobInHand
           q == QueueAfter
<1>1. /\ index \in Workers
      /\ job # NoService \/ schedule # <<>>
      /\ schedule' = q
      /\ UNCHANGED <<pool, fresh, mail, running, done, doneJob>>
      /\ \/ /\ ready[index] = NoService
            /\ ready' = [ready EXCEPT ![index] = s] /\ job' = NoService
         \/ ready' = ready /\ job' = s
  BY SchedulerAssumption
  DEF AssignJob, poolVars, exclusiveVars, mail, Workers
<1>2. /\ s \in Services /\ q \in Seq(Services)
      /\ Ids(schedule) \cup {job} = Ids(q) \cup {s, job}
      /\ s \notin Ids(q) /\ Once(q) /\ Ids(q) \subseteq Ids(schedule)
      /\ s = job \/ s \in Ids(schedule)
      /\ s # job => job = NoService
  <2>1. Once(schedule) /\ Ids(schedule) \cap Held = {}
    BY DEF PlaceInv, KernelPlaced, Kernel
  <2>2. CASE job = NoService
    BY <1>1, <2>1, <2>2, IdsTail DEF PlaceType, JobInHand, QueueAfter
  <2>3. CASE job # NoService
    <3>1. job \in Held
      BY <2>3 DEF PlaceType, Held
    <3> QED
      BY <2>1, <2>3, <3>1 DEF PlaceType, JobInHand, QueueAfter
  <2> QED
    BY <2>2, <2>3
<1>3. Ids(schedule) \cap Held = {} /\ s \notin Held \ {job}
  BY <1>2 DEF PlaceInv, KernelPlaced, Kernel
<1> HIDE DEF s, q
<1>4. /\ \A w \in Workers : s # running[w] /\ s # done[w] /\ s # ready[w]
      /\ s \notin Ids(doneJob)
  BY <1>2, <1>3 DEF PlaceInv, PlaceType, SlotsApart, Held
<1>5. Held' = (Held \ {job}) \cup {s}
  BY <1>1, <1>2, <1>4 DEF PlaceInv, PlaceType, SlotsApart, Held
<1>6. SlotsApart'
  <2>1. CASE /\ ready[index] = NoService
             /\ ready' = [ready EXCEPT ![index] = s] /\ job' = NoService
    <3>1. \A w \in Workers :
            ready'[w] = IF w = index THEN s ELSE ready[w]
      BY <1>1, <2>1 DEF PlaceType
    <3> QED
      BY <1>1, <1>2, <1>4, <2>1, <3>1 DEF PlaceInv, SlotsApart
  <2>2. CASE ready' = ready /\ job' = s
    BY <1>1, <1>4, <2>2 DEF PlaceInv, SlotsApart
  <2> QED
    BY <1>1, <2>1, <2>2
<1>7. job \in Held \cup {NoService}
  BY DEF PlaceType, Held
<1>8. Ids(schedule') \cup Held' = Ids(schedule) \cup Held
  BY <1>1, <1>2, <1>5, <1>7 DEF PlaceType
<1>9. Ids(schedule') \cap Held' = {}
  BY <1>1, <1>2, <1>3, <1>5
<1> QED
  BY <1>1, <1>2, <1>6, <1>8, <1>9, JobMoves

(* and puts the one that is left back. *)
LEMMA AssignEndPlaced ==
  ASSUME PlaceType, PlaceInv, NEW t \in Threads, AssignEnd(t)
  PROVE  PlaceInv'
<1>1. /\ schedule' = IF job = NoService THEN schedule
                     ELSE Append(schedule, job)
      /\ job' = NoService
      /\ UNCHANGED <<pool, fresh, mail, ready, running, done, doneJob>>
  BY DEF AssignEnd, PushLeft, poolVars, slotVars, exclusiveVars, mail
<1>2. CASE job = NoService
  BY <1>1, <1>2, NothingMoves DEF slots
<1>3. CASE job # NoService
  <2>1. job \in Held /\ Ids(schedule) \cap Held = {} /\ Once(schedule)
    BY <1>3 DEF PlaceType, Held, PlaceInv, KernelPlaced, Kernel
  <2>2. Ids(schedule') = Ids(schedule) \cup {job} /\ Once(schedule')
    BY <1>1, <1>3, <2>1, IdsAppend DEF PlaceType
  <2>3. Held' = Held \ {job}
    BY <1>1, <1>3 DEF PlaceInv, PlaceType, SlotsApart, Held
  <2>4. SlotsApart'
    BY <1>1 DEF PlaceInv, PlaceType, SlotsApart
  <2> QED
    BY <1>1, <2>1, <2>2, <2>3, <2>4, JobMoves
<1> QED
  BY <1>2, <1>3

(* schedule_dispatch_worker takes a job from another mailbox. *)
LEMMA StealPlaced ==
  ASSUME PlaceType, PlaceInv, NEW w \in Workers, Steal(w)
  PROVE  PlaceInv'
<1>1. PICK v \in Workers : ready[v] # NoService /\ ready' = MoveJob(v, w)
  BY DEF Steal
<1>2. /\ ready[w] = NoService
      /\ UNCHANGED <<pool, fresh, schedule, mail, running, done, doneJob, job>>
  BY DEF Steal, poolVars, exclusiveVars, mail
<1>3. \A u \in Workers :
        ready'[u] = IF u = v THEN NoService
                    ELSE IF u = w THEN ready[v] ELSE ready[u]
  BY <1>1, <1>2 DEF MoveJob, PlaceType
<1>4. Held' = Held
  <2>1. \A s \in Services : (\E u \in Workers : ready'[u] = s) <=>
                            (\E u \in Workers : ready[u] = s)
    BY <1>1, <1>2, <1>3 DEF PlaceType
  <2> QED
    BY <1>2, <2>1 DEF PlaceType, Held
<1>5. SlotsApart'
  <2>1. v # w
    BY <1>1, <1>2
  <2>3. \A u, z \in Workers :
          u # z /\ ready'[u] = ready'[z] => ready'[u] = NoService
    BY <1>1, <1>2, <1>3, <2>1 DEF PlaceInv, SlotsApart
  <2>4. NoService \notin Ids(doneJob)
    BY DEF PlaceType
  <2>5. \A u \in Workers : ready'[u] \notin Ids(doneJob)
    BY <1>3, <2>4 DEF PlaceInv, SlotsApart
  <2>6. \A u, z \in Workers :
          /\ ready'[u] = running[z] => ready'[u] = NoService
          /\ ready'[u] = done[z] => ready'[u] = NoService
    BY <1>3 DEF PlaceInv, SlotsApart
  <2>7. job # NoService => \A u \in Workers : job # ready'[u]
    BY <1>3 DEF PlaceInv, SlotsApart
  <2> QED
    BY <1>2, <2>3, <2>5, <2>6, <2>7 DEF PlaceInv, SlotsApart
<1> QED
  BY <1>2, <1>4, <1>5, JobMovesBeside

(* The locals of the pass are empty when it begins and when it ends. *)
LEMMA LocalsEmpty ==
  ASSUME Control, OneScheduler, ControlType, NEW t \in Threads
  PROVE  /\ pc[t] \in Scheduling \ {"collect", "dispatch"} => doneJob = <<>>
         /\ pc[t] \in Scheduling \ {"assign"} => job = NoService
         /\ owner = NoService => doneJob = <<>> /\ job = NoService
BY DEF Control, PassLocals, OneScheduler, ControlType

(* What the lock protects changes as one kernel. *)
LEMMA KernelMoves ==
  ASSUME PlaceInv, NEW k, SetKernel(k), NEW H, KernelPlaced(k, H, {}),
         Held' = H, SlotsApart', MailKept'
  PROVE  PlaceInv'
BY DEF PlaceInv, SetKernel, KernelPlaced, Kernel

(* The kernel is as the lemmas about it ask for. *)
LEMMA KernelNow ==
  ASSUME TypeInv, PlaceInv
  PROVE  /\ KernelOK(Kernel) /\ KernelPlaced(Kernel, Held, {})
         /\ Kernel.pool = pool /\ Kernel.fresh = fresh
         /\ Held \in SUBSET Services
BY KernelIsOK DEF PlaceInv, Kernel, Held

(* A service that leaves the pass *)
LEMMA HeadLeaves ==
  ASSUME PlaceType, PlaceInv, doneJob # <<>>, doneJob' = Tail(doneJob),
         UNCHANGED <<ready, running, done, job>>
  PROVE  /\ Held' = Held \ {Head(doneJob)} /\ Head(doneJob) \in Held
         /\ SlotsApart'
<1>1. /\ Ids(doneJob) = Ids(Tail(doneJob)) \cup {Head(doneJob)}
      /\ Head(doneJob) \notin Ids(Tail(doneJob)) /\ Once(Tail(doneJob))
      /\ Head(doneJob) \in Services
  BY IdsTail DEF PlaceType, PlaceInv, SlotsApart
<1>2. Held' = Held \ {Head(doneJob)}
  BY <1>1 DEF PlaceType, PlaceInv, SlotsApart, Held
<1>3. SlotsApart'
  BY <1>1 DEF PlaceType, PlaceInv, SlotsApart
<1> QED
  BY <1>1, <1>2, <1>3 DEF Held

(* The kernel once the outbound message of a service is taken *)
LEMMA MessageTaken ==
  ASSUME TypeInv, PlaceInv, NEW id \in Services
  PROVE  LET k == [Kernel EXCEPT !.pool = ServiceMessageOut(pool, id)]
         IN  /\ KernelOK(k) /\ KernelPlaced(k, Held, {})
             /\ GrowKernel(Kernel, k) /\ k.fresh = fresh
             /\ \A s \in Services : k.pool[s].status = pool[s].status
             /\ pool[id].out # NoMsg =>
                  /\ pool[id].out \in Message
                  /\ MessageKept(k.pool, fresh, pool[id].out)
<1> DEFINE P == ServiceMessageOut(pool, id)
           k == [Kernel EXCEPT !.pool = P]
<1>0. PoolOK(pool) /\ PlaceType
  BY PlaceTypeHolds DEF TypeInv
<1>1. PoolPlaced(pool, fresh, Ids(schedule) \cup Held) /\ Quiet(pool, {})
  BY DEF PlaceInv, KernelPlaced, Kernel
<1>2. /\ PoolPlaced(P, fresh, Ids(schedule) \cup Held) /\ Quiet(P, {})
      /\ Grow(pool, fresh, P, fresh)
  BY <1>0, <1>1, MessageOutPlaced DEF PlaceType
<1>3. KernelOK(k)
  BY MessageOutOK, KernelSetPool, KernelIsOK DEF TypeInv
<1>4. \A s \in Services : P[s].status = pool[s].status
  BY <1>0 DEF PoolOK, Service, ServiceMessageOut
<1>5. pool[id].out # NoMsg =>
        pool[id].out \in Message /\ MessageKept(P, fresh, pool[id].out)
  BY <1>0, <1>1, <1>2, MessageStays DEF PoolOK, Service, PoolPlaced, Sent
<1> HIDE DEF P
<1>6. k.pool = P /\ k.fresh = fresh /\ k.schedule = schedule
  BY DEF Kernel
<1>7. KernelPlaced(k, Held, {}) /\ GrowKernel(Kernel, k)
  BY <1>1, <1>2, <1>6
  DEF PlaceInv, KernelPlaced, GrowKernel, Kernel
<1> QED
  BY <1>3, <1>4, <1>5, <1>6, <1>7 DEF P

(* Step 2 of the pass: the message of a service that is done, *)
LEMMA DispatchJobPlaced ==
  ASSUME TypeInv, PlaceInv, NEW t \in Threads, DispatchJob(t)
  PROVE  PlaceInv'
<1> DEFINE id == Head(doneJob)
           m == pool[id].out
           k == [Kernel EXCEPT !.pool = ServiceMessageOut(pool, id)]
<1>0. PlaceType
  BY PlaceTypeHolds
<1>1. PICK n \in NewIds(m) :
        SetKernel(Park(IF m = NoMsg THEN k
                       ELSE DispatchOutMessage(k, id, m, n), id))
  BY DEF DispatchJob
<1>2. /\ doneJob # <<>> /\ doneJob' = Tail(doneJob)
      /\ UNCHANGED <<ready, running, done, job, mail>>
  BY DEF DispatchJob, DispatchVars, slotVars, exclusiveVars, mail
<1>3. Held' = Held \ {id} /\ id \in Held /\ SlotsApart'
  BY <1>0, <1>2, HeadLeaves
<1>4. id \in Services /\ Held \in SUBSET Services
  BY <1>3 DEF Held
<1>5. /\ KernelOK(k) /\ KernelPlaced(k, Held, {})
      /\ GrowKernel(Kernel, k) /\ k.fresh = fresh
      /\ m # NoMsg => m \in Message /\ MessageKept(k.pool, k.fresh, m)
  BY <1>4, MessageTaken
<1>6. n \in k.fresh \cup {NoService}
  BY <1>5 DEF NewIds
<1>7. fresh \subseteq Services
  BY <1>0 DEF PlaceType
<1> HIDE DEF k, m, id
<1> DEFINE l == IF m = NoMsg THEN k ELSE DispatchOutMessage(k, id, m, n)
<1>8. KernelOK(l) /\ KernelPlaced(l, Held, {}) /\ GrowKernel(k, l)
  <2>1. CASE m = NoMsg
    BY <1>5, <2>1 DEF GrowKernel, Grow
  <2>2. CASE m # NoMsg
    <3>1. KernelOK(DispatchOutMessage(k, id, m, n))
      BY <1>5, <1>6, <1>7, <2>2, DispatchOutMessageOK
    <3>2. LET o == DispatchOutMessage(k, id, m, n)
          IN  KernelPlaced(o, Held, {}) /\ GrowKernel(k, o)
      BY <1>3, <1>4, <1>5, <1>6, <2>2, DispatchOutMessagePlaced
    <3> QED
      BY <2>2, <3>1, <3>2
  <2> QED
    BY <2>1, <2>2
<1>9. SetKernel(Park(l, id))
  BY <1>1
<1> HIDE DEF l
<1>10. KernelPlaced(Park(l, id), Held \ {id}, {}) /\ GrowKernel(l, Park(l, id))
  BY <1>3, <1>4, <1>8, ParkPlaced
<1>11. GrowKernel(Kernel, Park(l, id))
  BY <1>5, <1>8, <1>10, GrowTwice
<1>12. MailKept'
  BY <1>2, <1>9, <1>11, MailStays DEF PlaceInv, GrowKernel, SetKernel, Kernel
<1> QED
  BY <1>3, <1>9, <1>10, <1>12, KernelMoves

(* and the death signal of one that died. *)
LEMMA DispatchSignalPlaced ==
  ASSUME TypeInv, PlaceInv, NEW t \in Threads, DispatchSignal(t)
  PROVE  PlaceInv'
<1> DEFINE id == Head(doneJob)
           m == pool[id].out
           k == [Kernel EXCEPT !.pool = ServiceMessageOut(pool, id)]
<1>0. PlaceType
  BY PlaceTypeHolds
<1>1. /\ SetKernel(SignalRoot(k, id, m))
      /\ ServiceStatusGet(pool, id) = "dead" /\ m # NoMsg /\ m.to = Root
  BY DEF DispatchSignal, IsSignal
<1>2. /\ doneJob # <<>> /\ doneJob' = Tail(doneJob)
      /\ UNCHANGED <<ready, running, done, job, mail>>
  BY DEF DispatchSignal, DispatchVars, slotVars, exclusiveVars, mail
<1>3. Held' = Held \ {id} /\ id \in Held /\ SlotsApart'
  BY <1>0, <1>2, HeadLeaves
<1>4. id \in Services /\ Held \in SUBSET Services
  BY <1>3 DEF Held
<1>5. /\ KernelOK(k) /\ KernelPlaced(k, Held, {})
      /\ GrowKernel(Kernel, k) /\ k.fresh = fresh
      /\ k.pool[id].status = pool[id].status
      /\ m \in Message /\ MessageKept(k.pool, k.fresh, m)
  BY <1>1, <1>4, MessageTaken
<1>6. k.pool[id].status \in {"dead", "absent"} /\ m.from \notin k.fresh
  BY <1>1, <1>5 DEF ServiceStatusGet, Exists, MessageKept
<1> HIDE DEF k, m, id
<1>7. LET l == SignalRoot(k, id, m)
      IN  KernelPlaced(l, Held \ {id}, {}) /\ GrowKernel(k, l)
  BY <1>1, <1>3, <1>4, <1>5, <1>6, SignalRootPlaced
<1>8. GrowKernel(Kernel, SignalRoot(k, id, m))
  BY <1>5, <1>7, GrowTwice
<1>9. MailKept'
  BY <1>1, <1>2, <1>8, MailStays DEF PlaceInv, GrowKernel, SetKernel, Kernel
<1> QED
  BY <1>1, <1>3, <1>7, <1>9, KernelMoves

(***************************************************************************)
(* What a VM does to the pool when it is resumed.                          *)
(***************************************************************************)
Placed == Ids(schedule) \cup Held

(* A pool that is as good as the one there is *)
AsGood(P) ==
  PoolOK(P) /\ PoolPlaced(P, fresh, Placed) /\ Quiet(P, {})
  /\ Grow(pool, fresh, P, fresh)

(* The pool itself is one. *)
LEMMA PoolAsGood ==
  ASSUME TypeInv, PlaceInv
  PROVE  /\ AsGood(pool)
         /\ fresh \in SUBSET Services /\ Placed \in SUBSET Services
BY PlaceTypeHolds
DEF PlaceInv, KernelPlaced, Kernel, PlaceType, AsGood, Placed, Grow

(* The operations on the pool leave one. *)
LEMMA AsGoodReadReceipt ==
  ASSUME TypeInv, PlaceInv, NEW P, AsGood(P), NEW s \in Services
  PROVE  AsGood(ServiceReadReceipt(P, s))
BY PoolAsGood, ReadReceiptPlaced, ReadReceiptOK DEF AsGood, Grow

(* (service_send_message) *)
LEMMA AsGoodSendMessage ==
  ASSUME TypeInv, PlaceInv, NEW P, AsGood(P), NEW s \in Services,
         NEW m \in Message, MessageKept(P, fresh, m)
  PROVE  AsGood(ServiceSendMessage(P, s, m))
BY PoolAsGood, SendMessagePlaced, SendMessageOK DEF AsGood, Grow

(* (service_status_set) *)
LEMMA AsGoodStatus ==
  ASSUME TypeInv, PlaceInv, NEW P, AsGood(P), NEW s \in Placed,
         NEW st \in {"schedule", "running", "done", "dead"}
  PROVE  AsGood(ServiceStatusSet(P, s, st))
BY PoolAsGood, StatusSetPlaced, StatusSetOK DEF AsGood, Grow, Status

(* (service_send_signal) *)
LEMMA AsGoodSignal ==
  ASSUME TypeInv, PlaceInv, NEW P, AsGood(P), NEW s \in Services
  PROVE  AsGood(ServiceSendSignal(P, s))
BY PoolAsGood, SendSignalPlaced, SendSignalOK DEF AsGood, Grow

(* (service_message_out) *)
LEMMA AsGoodMessageOut ==
  ASSUME TypeInv, PlaceInv, NEW P, AsGood(P), NEW s \in Services
  PROVE  AsGood(ServiceMessageOut(P, s))
BY PoolAsGood, MessageOutPlaced, MessageOutOK DEF AsGood, Grow

(* (service_delete: nobody will know the service again) *)
LEMMA AsGoodDelete ==
  ASSUME TypeInv, PlaceInv, NEW P, AsGood(P), NEW s \in Services \ fresh,
         P[s].status # "exclusive",
         P[s].status = "uninitialized" => P[Root].receipt # "response"
  PROVE  AsGood(ServiceDelete(P, s)) /\ s \in Gone(ServiceDelete(P, s), fresh)
<1>1. LET R == ServiceDelete(P, s)
      IN  /\ PoolPlaced(R, fresh, Placed) /\ Quiet(R, {})
          /\ Grow(P, fresh, R, fresh) /\ s \in Gone(R, fresh)
  BY PoolAsGood, DeletePlaced DEF AsGood
<1> QED
  BY <1>1, NewInitDeleteOK DEF AsGood, Grow

(* (service_init: from now on its address may be known) *)
LEMMA AsGoodInit ==
  ASSUME TypeInv, PlaceInv, NEW P, AsGood(P), NEW s \in Services,
         P[s].status = "uninitialized", P[Root].receipt # "response"
  PROVE  AsGood(ServiceInit(P, s)) /\ s \in Settled(ServiceInit(P, s), fresh)
<1>1. LET R == ServiceInit(P, s)
      IN  /\ PoolPlaced(R, fresh, Placed) /\ Quiet(R, {})
          /\ Grow(P, fresh, R, fresh) /\ s \in Settled(R, fresh)
  BY PoolAsGood, InitPlaced DEF AsGood
<1> QED
  BY <1>1, NewInitDeleteOK DEF AsGood, Grow

(* A service that is run, or exclusive, takes what it is to read. *)
LEMMA ConsumedAsGood ==
  ASSUME TypeInv, PlaceInv, NEW s \in Placed \cup Exclusives
  PROVE  AsGood(Consumed(s))
<1>1. AsGood(pool) /\ fresh \in SUBSET Services /\ Placed \in SUBSET Services
  BY PoolAsGood
<1>2. s \in Services
  BY <1>1, SchedulerAssumption
<1>3. pool[s].status \notin {"idle", "uninitialized"}
  BY <1>1 DEF AsGood, PoolPlaced
<1>4. AsGood(ServiceReadReceipt(pool, s))
  BY <1>1, <1>2, AsGoodReadReceipt
<1>5. pool[s].receipt = "none" => AsGood(ServicePopMessage(pool, s))
  BY <1>1, <1>2, <1>3, PopMessagePlaced, PopMessageOK DEF AsGood
<1> QED
  BY <1>4, <1>5 DEF Consumed

(* What a service posts to one it knows *)
LEMMA RequestKept ==
  ASSUME TypeInv, PlaceInv, NEW P, AsGood(P), NEW s \in Placed \cup Exclusives,
         NEW d \in Addressees, Known(d), NEW n \in Nat
  PROVE  /\ Request(s, d, n) \in Message
         /\ MessageKept(P, fresh, Request(s, d, n))
<1>1. AsGood(pool) /\ Placed \in SUBSET Services
  BY PoolAsGood
<1>2. s \in Services /\ s \notin fresh /\ d \in Services \cup {System}
  BY <1>1, SchedulerAssumption DEF AsGood, PoolPlaced
<1>3. MessageKept(pool, fresh, Request(s, d, n))
  BY <1>2, PoolAssumption DEF MessageKept, Request, Settled, Known
<1> QED
  BY <1>2, <1>3, RequestType, MessageStays DEF AsGood

(* What root posts to SYSTEM *)
LEMMA CommandKept ==
  ASSUME TypeInv, PlaceInv, NEW P, AsGood(P)
  PROVE  /\ MessageKept(P, fresh, Command("new", NoService))
         /\ \A s \in Gone(P, fresh) :
              /\ MessageKept(P, fresh, Command("hang", s))
              /\ MessageKept(P, fresh, Command("del", s))
BY PoolAssumption DEF AsGood, PoolPlaced, Settled, MessageKept, Command

(* The service a worker has in its hands *)
LEMMA RunningPlaced ==
  ASSUME TypeInv, Control, NEW w \in Workers,
         pc[w] \in {"check", "set", "resume"}
  PROVE  running[w] \in Placed /\ running[w] \in Services
BY PlaceTypeHolds DEF Control, Hands, HasJob, Placed, Held, PlaceType

(* A VM that yields leaves such a pool, and the service is done. *)
LEMMA FinishPlaced ==
  ASSUME TypeInv, PlaceInv, Control, NEW w \in Workers, pc[w] = "resume",
         NEW P, AsGood(P), Finish(w, P)
  PROVE  PlaceInv'
<1>1. running[w] \in Placed
  BY RunningPlaced
<1>2. /\ pool' = ServiceStatusSet(P, running[w], "done")
      /\ UNCHANGED <<fresh, schedule, slots, mail>>
  BY DEF Finish, slotVars, frameVars, exclusiveVars, slots, mail
<1>3. AsGood(pool')
  BY <1>1, <1>2, AsGoodStatus
<1>4. MailKept'
  BY <1>2, <1>3, MailStays DEF AsGood, PlaceInv
<1> QED
  BY <1>2, <1>3, <1>4, PoolMoves DEF AsGood, Placed

(* worker_run: no HANG comes between the status being read and written, as
   root kills nothing that is scheduled. *)
LEMMA SetRunningPlaced ==
  ASSUME TypeInv, PlaceInv, Control, NEW w \in Workers, SetRunning(w)
  PROVE  PlaceInv'
<1>1. pc[w] = "set"
  BY DEF SetRunning, At
<1>2. /\ pool' = ServiceStatusSet(pool, running[w], "running")
      /\ UNCHANGED <<fresh, schedule, slots, mail>>
  BY DEF SetRunning, slotVars, frameVars, exclusiveVars, slots, mail
<1>3. running[w] \in Placed
  BY <1>1, RunningPlaced
<1>4. AsGood(pool')
  BY <1>2, <1>3, PoolAsGood, AsGoodStatus
<1>5. MailKept'
  BY <1>2, <1>4, MailStays DEF AsGood, PlaceInv
<1> QED
  BY <1>2, <1>4, <1>5, PoolMoves DEF AsGood, Placed

(* Whatever a worker's VM does leaves every service in its place. *)
LEMMA ResumeServicePlaced ==
  ASSUME TypeInv, PlaceInv, Control, Killable = {}, NEW w \in Workers,
         ResumeService(w)
  PROVE  PlaceInv'
<1> DEFINE s == running[w]
           C == Consumed(s)
<1>1. pc[w] = "resume"
  BY DEF ResumeService, Yield, Post, Quit, QuitRoot, RootNew, RootKill,
         RootInit, RootReap, At
<1>2. s \in Placed /\ s \in Services
  BY <1>1, RunningPlaced
<1>3. AsGood(C) /\ AsGood(pool)
  BY <1>2, ConsumedAsGood, PoolAsGood
<1>4. Root \in Services
  BY PoolAssumption
<1>5. CASE Yield(w)
  BY <1>1, <1>3, <1>5, FinishPlaced DEF Yield
<1>6. CASE Post(w)
  <2>1. PICK d \in Addressees :
          Known(d) /\ Finish(w, ServiceSendMessage(C, s, Request(s, d, 0)))
    BY <1>6 DEF Post
  <2>2. /\ Request(s, d, 0) \in Message
        /\ MessageKept(C, fresh, Request(s, d, 0))
    <3> HIDE DEF C, s
    <3> QED
      BY <1>2, <1>3, <2>1, RequestKept
  <2>3. AsGood(ServiceSendMessage(C, s, Request(s, d, 0)))
    <3> HIDE DEF C, s
    <3> QED
      BY <1>2, <1>3, <2>2, AsGoodSendMessage
  <2> QED
    BY <1>1, <2>1, <2>3, FinishPlaced
<1>7. CASE Quit(w) \/ QuitRoot(w)
  <2>1. /\ UNCHANGED <<fresh, schedule, slots, mail>>
        /\ \/ pool' = Death(C, s) \/ pool' = pool
           \/ pool' = ServiceStatusSet(C, s, "dead")
    BY <1>7
    DEF Quit, QuitRoot, slotVars, frameVars, exclusiveVars, slots, mail
  <2>2. AsGood(ServiceStatusSet(C, s, "dead"))
    <3> HIDE DEF C, s
    <3> QED
      BY <1>2, <1>3, AsGoodStatus
  <2>3. AsGood(Death(C, s))
    BY <1>2, <2>2, AsGoodSignal DEF Death
  <2>4. AsGood(pool')
    BY <1>3, <2>1, <2>2, <2>3
  <2>5. MailKept'
    BY <2>1, <2>4, MailStays DEF AsGood, PlaceInv
  <2> QED
    BY <2>1, <2>4, <2>5, PoolMoves DEF AsGood, Placed
<1>8. CASE RootNew(w)
  <2> DEFINE m == Command("new", NoService)
  <2>1. s = Root /\ Finish(w, ServiceSendMessage(C, s, m))
    BY <1>8 DEF RootNew
  <2>2. m \in Message /\ MessageKept(C, fresh, m)
    BY <1>3, CommandType, CommandKept
  <2>3. AsGood(ServiceSendMessage(C, s, m))
    <3> HIDE DEF C, s, m
    <3> QED
      BY <1>2, <1>3, <2>2, AsGoodSendMessage
  <2> QED
    BY <1>1, <2>1, <2>3, FinishPlaced
<1>9. CASE RootKill(w)
  BY <1>9 DEF RootKill
<1>10. CASE RootInit(w)
  <2> DEFINE n == pool[Root].bounce.to
             P == ServiceReadReceipt(pool, Root)
             P1 == ServiceInit(P, n)
             P2 == ServiceDelete(P, n)
             m1 == Request(Root, n, 0)
             m2 == Command("hang", n)
  <2>1. /\ pool[Root].receipt = "response"
        /\ \/ Finish(w, ServiceSendMessage(P1, Root, m1))
           \/ Finish(w, ServiceSendMessage(P2, Root, m2))
    BY <1>10 DEF RootInit, MustInit
  <2>2. n \in Services /\ n \notin fresh
        /\ pool[n].status = "uninitialized"
    BY <1>3, <1>4, <2>1 DEF AsGood, PoolPlaced, PoolOK
  <2>3. AsGood(P)
    BY <1>3, <1>4, AsGoodReadReceipt
  <2>4. P[n].status = "uninitialized" /\ P[Root].receipt # "response"
    BY <1>3, <1>4, <2>2 DEF ServiceReadReceipt, AsGood, PoolOK, Service
  <2>5. m1 \in Message /\ m2 \in Message
    BY <1>4, <2>2, RequestType, CommandType
  <2> HIDE DEF P, n
  <2>6. AsGood(P1) /\ n \in Settled(P1, fresh)
    BY <2>2, <2>3, <2>4, AsGoodInit
  <2>7. AsGood(P2) /\ n \in Gone(P2, fresh)
    BY <2>2, <2>3, <2>4, AsGoodDelete
  <2>8. MessageKept(P1, fresh, m1)
    BY <1>4, <2>6
    DEF MessageKept, Request, AsGood, PoolPlaced, Settled
  <2>9. MessageKept(P2, fresh, m2)
    BY <2>7, CommandKept
  <2> HIDE DEF P1, P2, m1, m2
  <2>10. AsGood(ServiceSendMessage(P1, Root, m1))
    BY <1>4, <2>5, <2>6, <2>8, AsGoodSendMessage
  <2>11. AsGood(ServiceSendMessage(P2, Root, m2))
    BY <1>4, <2>5, <2>7, <2>9, AsGoodSendMessage
  <2> QED
    BY <1>1, <2>1, <2>10, <2>11, FinishPlaced
<1>11. CASE RootReap(w)
  <2> DEFINE n == NextMessage(pool, Root).from
             P == ServicePopMessage(pool, Root)
             P1 == ServiceDelete(P, n)
             m == Command("del", n)
  <2>1. /\ s = Root /\ pool[Root].receipt = "none"
        /\ NextMessage(pool, Root) # NoMsg
        /\ \/ Finish(w, P)
           \/ /\ ServiceStatusGet(P, n) = "dead"
              /\ Finish(w, ServiceSendMessage(P1, Root, m))
    BY <1>11 DEF RootReap, MustReap
  <2>2. AsGood(P)
    BY <1>3, <2>1 DEF Consumed
  <2>3. n \in Services /\ n \notin fresh
    <3>1. NextMessage(pool, Root) \in Message
      BY <1>3, <1>4, <2>1, NextMessageOK DEF AsGood
    <3>2. \/ NextMessage(pool, Root) = pool[Root].bounce
          \/ /\ pool[Root].msg # <<>>
             /\ NextMessage(pool, Root) = Head(pool[Root].msg)
      BY <2>1 DEF NextMessage
    <3>3. /\ pool[Root].bounce # NoMsg => pool[Root].bounce.from \notin fresh
          /\ \A o \in Ids(pool[Root].msg) : o.from \notin fresh
      BY <1>3, <1>4 DEF AsGood, PoolPlaced, Sent
    <3>4. pool[Root].msg # <<>> => Head(pool[Root].msg) \in Ids(pool[Root].msg)
      <4>1. pool[Root].msg \in Seq(Message)
        BY <1>3, <1>4 DEF AsGood, PoolOK, Service
      <4>2. ASSUME NEW q \in Seq(Message), q # <<>> PROVE Head(q) \in Ids(q)
        BY <4>2 DEF Ids
      <4> QED
        BY <4>1, <4>2
    <3> QED
      BY <2>1, <3>1, <3>2, <3>3, <3>4 DEF Message
  <2> HIDE DEF P, n
  <2>4. CASE Finish(w, P)
    BY <1>1, <2>2, <2>4, FinishPlaced
  <2>5. CASE /\ ServiceStatusGet(P, n) = "dead"
             /\ Finish(w, ServiceSendMessage(P1, Root, m))
    <3>1. P[n].status \in {"dead", "absent"}
      BY <2>5 DEF ServiceStatusGet, Exists
    <3>2. AsGood(P1) /\ n \in Gone(P1, fresh)
      BY <2>2, <2>3, <3>1, AsGoodDelete
    <3>3. m \in Message /\ MessageKept(P1, fresh, m)
      BY <2>3, <3>2, CommandType, CommandKept
    <3> HIDE DEF P1, m
    <3>4. AsGood(ServiceSendMessage(P1, Root, m))
      BY <1>4, <3>2, <3>3, AsGoodSendMessage
    <3> QED
      BY <1>1, <2>5, <3>4, FinishPlaced
  <2> QED
    BY <2>1, <2>4, <2>5
<1> QED
  BY <1>5, <1>6, <1>7, <1>8, <1>9, <1>10, <1>11 DEF ResumeService

(***************************************************************************)
(* Exclusive threads.                                                      *)
(***************************************************************************)
LEMMA HeldStays ==
  ASSUME PlaceInv, UNCHANGED slots
  PROVE  Held' = Held /\ SlotsApart'
BY DEF PlaceInv, SlotsApart, Held, slots

(* The service of an exclusive thread runs. *)
LEMMA ExclusiveResumePlaced ==
  ASSUME TypeInv, PlaceInv, NEW x \in Exclusives, ExclusiveResume(x)
  PROVE  PlaceInv'
<1> DEFINE C == Consumed(x)
<1>1. AsGood(C) /\ AsGood(pool)
  BY ConsumedAsGood, PoolAsGood
<1>2. x \in Services /\ PlaceType
  BY SchedulerAssumption, PlaceTypeHolds
<1>3. CASE LoopExclusive(x) \/ ExclusiveQuit(x) \/ ExitExclusive(x)
  BY <1>3, NothingMoves
  DEF LoopExclusive, ExclusiveQuit, ExitExclusive, notPc, restVars, poolVars,
      slotVars, frameVars, exclusiveVars, slots, mail
<1>4. CASE ExclusiveYield(x)
  <2>1. pool' = C /\ UNCHANGED <<fresh, schedule, slots, mail>>
    BY <1>4
    DEF ExclusiveYield, slotVars, frameVars, exclusiveVars, slots, mail
  <2>2. MailKept'
    BY <1>1, <2>1, MailStays DEF AsGood, PlaceInv
  <2> QED
    BY <1>1, <2>1, <2>2, PoolMoves DEF AsGood, Placed
<1>5. CASE ExclusiveSend(x)
  <2>1. PICK d \in Addressees \ {System} :
          /\ Known(d)
          /\ sending' =
               [sending EXCEPT ![x] = Append(@, Request(x, d, posts'))]
    BY <1>5 DEF ExclusiveSend
  <2>2. UNCHANGED <<pool, fresh, schedule, slots, pending>> /\ posts' \in Nat
    BY <1>5, SchedulerAssumption
    DEF ExclusiveSend, slotVars, frameVars, slots, TypeInv, TypeOK
  <2> DEFINE m == Request(x, d, posts')
  <2>3. m \in Message /\ MessageKept(pool, fresh, m)
    BY <1>1, <2>1, <2>2, RequestKept
  <2>4. Ids(Append(sending[x], m)) = Ids(sending[x]) \cup {m}
    <3>1. m.to = d /\ d \in Services
      BY <2>1, SchedulerAssumption, PoolAssumption
      DEF Request
    <3>2. m \in Mail /\ sending[x] \in Seq(Mail)
      BY <1>2, <2>3, <3>1 DEF PlaceType, Mail
    <3> QED
      BY <3>2, IdsAppend
  <2> HIDE DEF m
  <2>5. \A y \in Exclusives :
          Ids(sending'[y]) \subseteq Ids(sending[y]) \cup {m}
    BY <1>2, <2>1, <2>4 DEF PlaceType, m
  <2>6. MailKept'
    BY <2>2, <2>3, <2>5 DEF PlaceInv, MailKept
  <2> QED
    BY <1>1, <2>2, <2>6, PoolMoves DEF AsGood, Placed
<1>6. CASE ExclusivePost(x)
  <2>1. PICK d \in Addressees :
          Known(d) /\ pool' = ServiceSendMessage(C, x, Request(x, d, 0))
    BY <1>6 DEF ExclusivePost
  <2>2. UNCHANGED <<fresh, schedule, slots, mail>>
    BY <1>6 DEF ExclusivePost, slotVars, frameVars, exclusiveVars, slots, mail
  <2> HIDE DEF C
  <2>3. /\ Request(x, d, 0) \in Message
        /\ MessageKept(C, fresh, Request(x, d, 0))
    BY <1>1, <2>1, RequestKept
  <2>4. AsGood(pool')
    BY <1>1, <1>2, <2>1, <2>3, AsGoodSendMessage
  <2>5. MailKept'
    BY <2>2, <2>4, MailStays DEF AsGood, PlaceInv
  <2> QED
    BY <2>2, <2>4, <2>5, PoolMoves DEF AsGood, Placed
<1> QED
  BY <1>3, <1>4, <1>5, <1>6 DEF ExclusiveResume

(* exclusive_message takes the message that is out, *)
LEMMA TakeOutPlaced ==
  ASSUME TypeInv, PlaceInv, NEW x \in Exclusives, TakeOut(x)
  PROVE  PlaceInv'
<1>1. /\ pool' = ServiceMessageOut(pool, x)
      /\ pending' = [pending EXCEPT ![x] = pool[x].out]
      /\ UNCHANGED <<fresh, schedule, slots, sending>>
  BY DEF TakeOut, slotVars, frameVars, slots
<1>2. x \in Services /\ AsGood(pool) /\ PlaceType
  BY SchedulerAssumption, PoolAsGood, PlaceTypeHolds
<1>3. AsGood(pool')
  BY <1>1, <1>2, AsGoodMessageOut
<1>4. pool[x].out # NoMsg => MessageKept(pool, fresh, pool[x].out)
  BY <1>2 DEF AsGood, PoolPlaced, Sent
<1>5. \A y \in Exclusives : pending'[y] \in {pending[y], pool[x].out}
  BY <1>1, <1>2 DEF PlaceType
<1>6. \A m : MessageKept(pool, fresh, m) => MessageKept(pool', fresh, m)
  BY <1>3, MessageStays DEF AsGood
<1>7. \A y \in Exclusives :
        pending'[y] # NoMsg => MessageKept(pool, fresh, pending'[y])
  BY <1>4, <1>5 DEF PlaceInv, MailKept
<1>8. MailKept'
  BY <1>1, <1>6, <1>7 DEF PlaceInv, MailKept
<1> QED
  BY <1>1, <1>3, <1>8, PoolMoves DEF AsGood, Placed

(* dispatches it *)
LEMMA DispatchOutPlaced ==
  ASSUME TypeInv, PlaceInv, NEW x \in Exclusives, DispatchOut(x)
  PROVE  PlaceInv'
<1> DEFINE m == pending[x]
           k == DispatchOutMessage(Kernel, x, m, NoService)
           l == IF m = NoMsg THEN Kernel ELSE k
<1>1. /\ SetKernel(l)
      /\ pending' = [pending EXCEPT ![x] = NoMsg]
      /\ UNCHANGED <<slots, sending>>
  BY DEF DispatchOut, slotVars, slots
<1>2. PlaceType
  BY PlaceTypeHolds
<1>3. /\ KernelOK(Kernel) /\ KernelPlaced(Kernel, Held, {})
      /\ Kernel.pool = pool /\ Kernel.fresh = fresh
      /\ Held \in SUBSET Services
  BY KernelNow
<1>4. m # NoMsg => m \in Message /\ MessageKept(pool, fresh, m)
  BY <1>2 DEF PlaceType, PlaceInv, MailKept
<1> HIDE DEF m
<1>5. m # NoMsg => KernelPlaced(k, Held, {}) /\ GrowKernel(Kernel, k)
  BY <1>3, <1>4, DispatchOutMessagePlaced
<1>6. KernelPlaced(l, Held, {}) /\ GrowKernel(Kernel, l)
  BY <1>3, <1>5 DEF GrowKernel, Grow
<1> HIDE DEF l
<1>7. Grow(pool, fresh, pool', fresh')
  BY <1>1, <1>3, <1>6 DEF GrowKernel, SetKernel
<1>8. \A y \in Exclusives : pending'[y] \in {pending[y], NoMsg}
  BY <1>1, <1>2 DEF PlaceType
<1>9. MailKept'
  BY <1>1, <1>7, <1>8, MessageStays DEF PlaceInv, MailKept
<1>10. Held' = Held /\ SlotsApart'
  BY <1>1, HeldStays
<1> QED
  BY <1>1, <1>6, <1>9, <1>10, KernelMoves

(* and sends what is in the sending queue, or puts it back. *)
LEMMA SendPlaced ==
  ASSUME TypeInv, PlaceInv, SendInv, NEW x \in Exclusives, Send(x)
  PROVE  PlaceInv'
<1> DEFINE q == sending[x]
           m == Head(q)
           l == ScheduleIfIdle(Push(Kernel, m), m.to)
<1>1. /\ pc[x] = "send" /\ index > 1 /\ index \in Nat
      /\ \/ sending' = [sending EXCEPT ![x] = Append(Tail(q), m)]
         \/ sending' = [sending EXCEPT ![x] = Tail(q)]
      /\ SetKernel(l) \/ UNCHANGED <<pool, fresh, schedule>>
      /\ UNCHANGED <<slots, pending>>
  BY DEF Send, At, slotVars, slots, TypeInv, TypeOK
<1>2. PlaceType /\ q \in Seq(Mail)
  BY PlaceTypeHolds DEF PlaceType
<1>3. q # <<>>
  <2>1. index - 1 <= Len(q) /\ Len(q) \in Nat
    BY <1>1, <1>2 DEF SendInv
  <2> HIDE DEF q
  <2> QED
    BY <1>1, <1>2, <2>1
<1>4. /\ m \in Ids(q) /\ m \in Mail /\ Tail(q) \in Seq(Mail)
      /\ Ids(Tail(q)) \subseteq Ids(q)
  <2> HIDE DEF q
  <2>1. m \in Ids(q) /\ m \in Mail /\ Tail(q) \in Seq(Mail)
    BY <1>2, <1>3 DEF Ids
  <2> QED
    BY <1>2, <1>3, <2>1, IdsLess
<1>5. Ids(Append(Tail(q), m)) \subseteq Ids(q)
  <2> HIDE DEF q, m
  <2> DEFINE r == Tail(q)
  <2>1. r \in Seq(Mail)
    BY <1>4
  <2> HIDE DEF r
  <2>2. Ids(Append(r, m)) = Ids(r) \cup {m}
    BY <1>4, <2>1, IdsAppend
  <2> QED
    BY <1>4, <2>2 DEF r
<1>6. \A y \in Exclusives : Ids(sending'[y]) \subseteq Ids(sending[y])
  BY <1>1, <1>2, <1>4, <1>5 DEF PlaceType
<1>7. /\ m \in Message /\ m.to \in Services
      /\ MessageKept(pool, fresh, m)
  BY <1>4 DEF Mail, PlaceInv, MailKept
<1>8. Held' = Held /\ SlotsApart'
  BY <1>1, HeldStays
<1> HIDE DEF q, m
<1>9. CASE SetKernel(l)
  <2> DEFINE k == Push(Kernel, m)
  <2>1. /\ KernelOK(Kernel) /\ KernelPlaced(Kernel, Held, {})
        /\ Kernel.pool = pool /\ Kernel.fresh = fresh
        /\ Held \in SUBSET Services
    BY KernelNow
  <2>2. KernelOK(k)
    BY <1>7, <2>1, PushOK
  <2>3. KernelPlaced(k, Held, {m.to}) /\ GrowKernel(Kernel, k)
    <3>1. {} \cup {m.to} = {m.to} /\ m.from \notin fresh
      BY <1>7 DEF MessageKept
    <3> QED
      BY <1>7, <2>1, <3>1, PushPlaced
  <2>4. m.to \in Settled(k.pool, k.fresh)
    BY <1>7, <2>1, <2>3 DEF MessageKept, GrowKernel, Grow
  <2> HIDE DEF k
  <2>5. KernelPlaced(ScheduleIfIdle(k, m.to), Held, {m.to} \ {m.to})
        /\ GrowKernel(k, ScheduleIfIdle(k, m.to))
    BY <2>1, <2>2, <2>3, <2>4, ScheduleIfIdlePlaced
  <2>6. {m.to} \ {m.to} = {} /\ l = ScheduleIfIdle(k, m.to)
    BY DEF k
  <2> HIDE DEF l
  <2>7. KernelPlaced(l, Held, {}) /\ GrowKernel(Kernel, l)
    BY <2>3, <2>5, <2>6, GrowTwice
  <2>8. Grow(pool, fresh, pool', fresh')
    BY <1>9, <2>1, <2>7 DEF GrowKernel, SetKernel
  <2>9. MailKept'
    BY <1>1, <1>6, <2>8, MessageStays DEF PlaceInv, MailKept
  <2> QED
    BY <1>8, <1>9, <2>7, <2>9, KernelMoves
<1>10. CASE UNCHANGED <<pool, fresh, schedule>>
  <2>1. MailKept'
    BY <1>1, <1>6, <1>10 DEF PlaceInv, MailKept
  <2> QED
    BY <1>1, <1>10, <2>1, PoolMoves, PoolAsGood DEF AsGood, Placed
<1> QED
  BY <1>1, <1>9, <1>10

(***************************************************************************)
(* Every step keeps every service in its place.                            *)
(***************************************************************************)
LEMMA ScheduleDispatchPlaced ==
  ASSUME TypeInv, PlaceInv, NEW t \in Threads, ScheduleDispatch(t)
  PROVE  PlaceInv'
<1>0. PlaceType /\ index \in Nat \ {0}
  BY PlaceTypeHolds DEF TypeInv, TypeOK
<1>1. CASE CollectDone(t)
  BY <1>0, <1>1, CollectDonePlaced
<1>2. CASE CollectEnd(t) \/ NoSignal(t) \/ DispatchEnd(t) \/ WakeAssigned(t)
  BY <1>2, NothingMoves
  DEF CollectEnd, NoSignal, DispatchEnd, WakeAssigned, notPc, restVars,
      poolVars, slotVars, frameVars, exclusiveVars, slots, mail
<1>3. CASE DispatchJob(t)
  BY <1>3, DispatchJobPlaced
<1>4. CASE DispatchSignal(t)
  BY <1>4, DispatchSignalPlaced
<1>5. CASE AssignJob(t)
  BY <1>0, <1>5, AssignJobPlaced
<1>6. CASE AssignEnd(t)
  BY <1>0, <1>6, AssignEndPlaced
<1> QED
  BY <1>1, <1>2, <1>3, <1>4, <1>5, <1>6 DEF ScheduleDispatch

(* Every step of a worker keeps every service in its place, *)
LEMMA WorkerPlaced ==
  ASSUME TypeInv, OneScheduler, Control, PlaceInv, Killable = {},
         NEW w \in Workers, WorkerStep(w)
  PROVE  PlaceInv'
<1> USE DEF notPc, restVars, poolVars, slotVars, frameVars, exclusiveVars,
            slots, mail
<1>0. PlaceType /\ ControlType /\ w \in Threads
  BY PlaceTypeHolds, ControlTypeHolds DEF Threads
<1>1. CASE TakeAndComplete(w)
  <2>1. CASE TakeJob(w)
    BY <1>0, <2>1, TakeJobPlaced
  <2>2. CASE SetRunning(w)
    BY <2>2, SetRunningPlaced
  <2>3. CASE StartWorker(w) \/ FindNoJob(w) \/ CheckDead(w)
             \/ CompleteBlocked(w) \/ CompleteSelfFails(w)
    BY <2>3, NothingMoves
    DEF StartWorker, FindNoJob, CheckDead, CompleteBlocked, CompleteSelfFails
  <2>4. CASE Complete(w)
    BY <1>0, <2>4, CompletePlaced DEF Complete
  <2>5. CASE CompleteOwned(w) \/ CompleteSelf(w) \/ DispatchForSelf(w)
    <3>1. doneJob = <<>> /\ job = NoService
      BY <1>0, <2>5, LocalsEmpty
      DEF CompleteOwned, CompleteSelf, DispatchForSelf, At, Scheduling
    <3>2. doneJob' = <<>> /\ job' = NoService
      BY <2>5
      DEF CompleteOwned, CompleteSelf, DispatchForSelf, EnterDispatch
    <3>3. CASE CompleteOwned(w) \/ CompleteSelf(w)
      BY <1>0, <3>1, <3>2, <3>3, CompletePlaced
      DEF CompleteOwned, CompleteSelf
    <3>4. CASE DispatchForSelf(w)
      BY <3>1, <3>2, <3>4, NothingMoves DEF DispatchForSelf
    <3> QED
      BY <2>5, <3>3, <3>4
  <2> QED
    BY <1>1, <2>1, <2>2, <2>3, <2>4, <2>5 DEF TakeAndComplete
<1>2. CASE ResumeService(w)
  BY <1>2, ResumeServicePlaced
<1>3. CASE ScheduleDispatchWorker(w)
  <2>1. CASE Acquire(w)
    <3>1. doneJob = <<>> /\ job = NoService
      BY <1>0, <2>1, LocalsEmpty DEF Acquire, LockFree
    <3> QED
      BY <2>1, <3>1, NothingMoves DEF Acquire, EnterDispatch
  <2>2. CASE AcquireFails(w) \/ StealNothing(w)
    BY <2>2, NothingMoves DEF AcquireFails, StealNothing
  <2>3. CASE ScheduleDispatch(w)
    BY <1>0, <2>3, ScheduleDispatchPlaced
  <2>4. CASE Steal(w)
    BY <1>0, <2>4, StealPlaced
  <2>5. CASE Release(w)
    <3>1. doneJob = <<>> /\ job = NoService
      BY <1>0, <2>5, LocalsEmpty DEF Release, At, Scheduling
    <3> QED
      BY <2>5, <3>1, NothingMoves DEF Release, LeaveDispatch
  <2> QED
    BY <1>3, <2>1, <2>2, <2>3, <2>4, <2>5 DEF ScheduleDispatchWorker
<1>4. CASE NoJob(w)
  BY <1>4, NothingMoves
  DEF NoJob, Deactivate, CheckLast, LookAgain, DeactivateAgain, CountDown,
      GoToSleep, SetSleeping, WaitEvent, ClearSleeping, Awake
<1>5. CASE QuitWorker(w)
  BY <1>5, NothingMoves DEF QuitWorker, WakeAll, SeeTerm, ExitWorker
<1> QED
  BY <1>1, <1>2, <1>3, <1>4, <1>5 DEF WorkerStep

(* and so does every step of an exclusive thread. *)
LEMMA ExclusivePlaced ==
  ASSUME TypeInv, OneScheduler, SendInv, Control, PlaceInv,
         NEW x \in Exclusives, ExclusiveStep(x)
  PROVE  PlaceInv'
<1> USE DEF notPc, restVars, poolVars, slotVars, frameVars, exclusiveVars,
            slots, mail
<1>0. ControlType /\ x \in Threads
  BY ControlTypeHolds DEF Threads
<1>1. CASE ExclusiveResume(x)
  BY <1>1, ExclusiveResumePlaced
<1>2. CASE TakeOut(x)
  BY <1>2, TakeOutPlaced
<1>3. CASE DispatchOut(x)
  BY <1>3, DispatchOutPlaced
<1>4. CASE Send(x)
  BY <1>4, SendPlaced
<1>5. CASE SendEnd(x) \/ ReleaseExclusive(x)
  <2>1. doneJob = <<>> /\ job = NoService
    BY <1>0, <1>5, LocalsEmpty DEF SendEnd, ReleaseExclusive, At, Scheduling
  <2> QED
    BY <1>5, <2>1, NothingMoves
    DEF SendEnd, ReleaseExclusive, EnterDispatch, LeaveDispatch
<1>6. CASE ScheduleDispatch(x)
  BY <1>0, <1>6, ScheduleDispatchPlaced
<1>7. CASE Spin(x) \/ CountSleepers(x) \/ WakeSome(x) \/ WakeEnd(x)
  BY <1>7, NothingMoves DEF Spin, CountSleepers, WakeSome, WakeEnd
<1> QED
  BY <1>1, <1>2, <1>3, <1>4, <1>5, <1>6, <1>7
  DEF ExclusiveStep, ExclusiveMessage

(* The program starts with root in the queue and nobody else anywhere. *)
LEMMA PlaceInit == Init => Control /\ PlaceInv
<1> SUFFICES ASSUME Init PROVE Control /\ PlaceInv
  OBVIOUS
<1> USE PoolAssumption, SchedulerAssumption
<1>1. Control
  BY DEF Init, Control, Hands, HasJob, PassLocals, Threads
<1>2. Ids(<<>>) = {} /\ Once(<<>>)
  BY DEF Ids, Once
<1>3. Ids(schedule) = {Root} /\ Once(schedule)
  BY DEF Init, Ids, Once
<1>4. Held = {} /\ SlotsApart
  BY <1>2 DEF Init, Held, SlotsApart
<1>5. MailKept
  BY <1>2 DEF Init, MailKept
<1>6. /\ \A s \in Services :
           /\ pool[s].out = NoMsg /\ pool[s].receipt = "none"
           /\ pool[s].bounce = NoMsg
           /\ pool[s].msg = IF s = Root THEN <<Boot>> ELSE <<>>
           /\ pool[s].status =
                IF s = Root THEN "schedule"
                ELSE IF s \in Exclusives THEN "exclusive"
                ELSE IF s \in Preloaded THEN "idle" ELSE "absent"
      /\ fresh = Services \ ({Root} \cup Exclusives \cup Preloaded)
  BY DEF Init, Absent, EmptyService
<1>7. Ids(<<Boot>>) = {Boot} /\ Boot.from = Root
  BY DEF Ids, Boot
<1>8. Sent(pool, fresh)
  BY <1>2, <1>6, <1>7 DEF Sent
<1>9. PoolPlaced(pool, fresh, Ids(schedule) \cup Held) /\ Quiet(pool, {})
  BY <1>3, <1>4, <1>6, <1>8 DEF PoolPlaced, Settled, Quiet
<1> QED
  BY <1>1, <1>3, <1>4, <1>5, <1>9
  DEF PlaceInv, KernelPlaced, Kernel

ControlInv == SchedulerInv /\ Control

(* Every step keeps the control invariant, *)
LEMMA ControlNext ==
  ASSUME ControlInv, [Next]_vars
  PROVE  ControlInv'
<1>0. TypeInv /\ OneScheduler /\ SendInv /\ Control /\ ControlType
  BY ControlTypeHolds DEF ControlInv, SchedulerInv
<1>1. SchedulerInv'
  BY <1>0, TypeInvNext, MutexNext DEF SchedulerInv
<1>2. ASSUME NEW w \in Workers, WorkerStep(w) PROVE Control'
  BY <1>0, <1>2, TakeAndCompleteControl, ResumeServiceControl, NoJobControl,
     ScheduleDispatchWorkerControl, QuitWorkerControl DEF WorkerStep
<1>3. ASSUME NEW x \in Exclusives, ExclusiveStep(x) PROVE Control'
  BY <1>0, <1>3, ExclusiveResumeControl, ExclusiveMessageControl
  DEF ExclusiveStep
<1>4. ASSUME UNCHANGED vars PROVE Control'
  BY <1>0, <1>4
  DEF vars, notPc, restVars, slotVars, frameVars, Control, Hands, HasJob,
      PassLocals
<1>5. Control'
  BY <1>2, <1>3, <1>4 DEF Next
<1> QED
  BY <1>1, <1>5 DEF ControlInv

(* and the whole one, when root kills nobody. *)
LEMMA PlaceNext ==
  ASSUME ControlInv, PlaceInv, Killable = {}, [Next]_vars
  PROVE  PlaceInv'
<1>0. TypeInv /\ OneScheduler /\ SendInv /\ Control
  BY DEF ControlInv, SchedulerInv
<1>1. ASSUME NEW w \in Workers, WorkerStep(w) PROVE PlaceInv'
  BY <1>0, <1>1, WorkerPlaced
<1>2. ASSUME NEW x \in Exclusives, ExclusiveStep(x) PROVE PlaceInv'
  BY <1>0, <1>2, ExclusivePlaced
<1>3. CASE UNCHANGED vars
  BY <1>3, NothingMoves
  DEF vars, notPc, restVars, poolVars, slotVars, frameVars, exclusiveVars,
      slots, mail
<1> QED
  BY <1>1, <1>2, <1>3 DEF Next

(***************************************************************************)
(* The theorems.                                                           *)
(***************************************************************************)
(* Every state satisfies the control invariant: a worker has a job exactly
   where thread_worker has one in its hands, and the locals of the scheduling
   pass are empty outside it. *)
THEOREM ControlInvariant == Spec => []ControlInv
<1>1. Init => ControlInv
  BY TypeInvInit, MutexInit, PlaceInit DEF ControlInv, SchedulerInv
<1>2. ControlInv /\ [Next]_vars => ControlInv'
  BY ControlNext
<1> QED
  BY <1>1, <1>2, PTL DEF Spec

(* Every state satisfies the inductive invariant, when root kills nobody. *)
THEOREM PlaceInvariant == Killable = {} => (Spec => []PlaceInv)
<1> SUFFICES ASSUME Killable = {} PROVE Spec => []PlaceInv
  OBVIOUS
<1>1. Init => PlaceInv
  BY PlaceInit
<1>2. ControlInv /\ PlaceInv /\ [Next]_vars => PlaceInv'
  BY PlaceNext
<1> QED
  BY <1>1, <1>2, ControlInvariant, PTL DEF Spec

(* The queue, and somebody's hands *)
InQueue(s, p) ==
  \E i \in DOMAIN schedule : schedule[i] = s /\ p = <<"schedule", i>>
InHand(s, p) ==
  \/ \E w \in Workers : ready[w] = s /\ p = <<"ready", w>>
  \/ \E w \in Workers : running[w] = s /\ p = <<"running", w>>
  \/ \E w \in Workers : done[w] = s /\ p = <<"done", w>>
  \/ \E i \in DOMAIN doneJob : doneJob[i] = s /\ p = <<"doneJob", i>>
  \/ job = s /\ p = <<"job", 0>>

(* What the places of a service are *)
LEMMA PlacesAre ==
  ASSUME NEW s \in Services, NEW p \in Places(s)
  PROVE  /\ InQueue(s, p) \/ InHand(s, p)
         /\ InQueue(s, p) => s \in Ids(schedule)
         /\ InHand(s, p) => s \in Held
<1>1. InQueue(s, p) \/ InHand(s, p)
  BY DEF Places, InQueue, InHand
<1>2. InQueue(s, p) => s \in Ids(schedule)
  BY DEF InQueue, Ids
<1>3. InHand(s, p) => s \in Held
  BY DEF InHand, Held, Ids
<1> QED
  BY <1>1, <1>2, <1>3

(* A service is in some place when it is in the queue or in some hands, and
   only then. *)
LEMMA PlacesHold ==
  ASSUME NEW s \in Services
  PROVE  Places(s) # {} <=> s \in Ids(schedule) \cup Held
<1>1. ASSUME NEW p \in Places(s) PROVE s \in Ids(schedule) \cup Held
  BY PlacesAre
<1>2. ASSUME NEW i \in DOMAIN schedule, schedule[i] = s
      PROVE  <<"schedule", i>> \in Places(s)
  BY <1>2 DEF Places
<1>3. ASSUME NEW w \in Workers
      PROVE  /\ ready[w] = s => <<"ready", w>> \in Places(s)
             /\ running[w] = s => <<"running", w>> \in Places(s)
             /\ done[w] = s => <<"done", w>> \in Places(s)
  BY DEF Places
<1>4. ASSUME NEW i \in DOMAIN doneJob, doneJob[i] = s
      PROVE  <<"doneJob", i>> \in Places(s)
  BY <1>4 DEF Places
<1>5. job = s => <<"job", 0>> \in Places(s)
  BY DEF Places
<1>6. s \in Ids(schedule) => Places(s) # {}
  BY <1>2 DEF Ids
<1>7. s \in Held => Places(s) # {}
  BY <1>3, <1>4, <1>5 DEF Held, Ids
<1> QED
  BY <1>1, <1>6, <1>7

(* No service is in two places, *)
LEMMA OnePlace ==
  ASSUME PlaceType, PlaceInv, NEW s \in Services,
         NEW p \in Places(s), NEW q \in Places(s)
  PROVE  p = q
<1>1. s # NoService
  BY DEF PlaceType
<1>2. Ids(schedule) \cap Held = {} /\ Once(schedule)
  BY DEF PlaceInv, KernelPlaced, Kernel
<1>3. \/ InQueue(s, p) /\ InQueue(s, q)
      \/ InHand(s, p) /\ InHand(s, q)
  BY <1>2, PlacesAre
<1>4. CASE InQueue(s, p) /\ InQueue(s, q)
  BY <1>2, <1>4 DEF InQueue, Once
<1>5. CASE InHand(s, p) /\ InHand(s, q)
  <2>1. \A v, w \in Workers :
          /\ ready[v] = s /\ ready[w] = s => v = w
          /\ running[v] = s /\ running[w] = s => v = w
          /\ done[v] = s /\ done[w] = s => v = w
          /\ ~(ready[v] = s /\ running[w] = s)
          /\ ~(ready[v] = s /\ done[w] = s)
          /\ ~(running[v] = s /\ done[w] = s)
    BY <1>1 DEF PlaceInv, SlotsApart
  <2>2. \A w \in Workers, i \in DOMAIN doneJob :
          doneJob[i] = s => ready[w] # s /\ running[w] # s /\ done[w] # s
    BY DEF PlaceInv, SlotsApart, Ids
  <2>3. \A i, j \in DOMAIN doneJob : doneJob[i] = s /\ doneJob[j] = s => i = j
    BY DEF PlaceInv, SlotsApart, Once
  <2>4. job = s => /\ \A w \in Workers :
                        ready[w] # s /\ running[w] # s /\ done[w] # s
                   /\ \A i \in DOMAIN doneJob : doneJob[i] # s
    BY <1>1 DEF PlaceInv, SlotsApart, Ids
  <2> QED
    BY <1>5, <2>1, <2>2, <2>3, <2>4 DEF InHand
<1> QED
  BY <1>3, <1>4, <1>5

(* The invariant says what the properties say. *)
LEMMA PlaceMeans ==
  ASSUME TypeInv, PlaceInv
  PROVE  SingleOwner /\ IdleHasNoMessage
<1>1. PlaceType
  BY PlaceTypeHolds
<1>2. PoolPlaced(pool, fresh, Ids(schedule) \cup Held) /\ Quiet(pool, {})
  BY DEF PlaceInv, KernelPlaced, Kernel
<1>3. SingleOwner
  BY <1>1, OnePlace DEF SingleOwner
<1>4. IdleHasNoMessage
  BY <1>2, PlacesHold DEF IdleHasNoMessage, PoolPlaced, Quiet
<1> QED
  BY <1>3, <1>4

(* Two workers never run one Lua VM, and no job is dispatched twice. *)
THEOREM OwnedOnce == Killable = {} => (Spec => []SingleOwner)
<1>1. ControlInv /\ PlaceInv => SingleOwner
  BY PlaceMeans DEF ControlInv, SchedulerInv
<1> QED
  BY <1>1, ControlInvariant, PlaceInvariant, PTL

(* A service that is parked has nothing left to read, whatever was sent to it
   while the scheduling pass was parking it. *)
THEOREM IdleIsEmpty == Killable = {} => (Spec => []IdleHasNoMessage)
<1>1. ControlInv /\ PlaceInv => IdleHasNoMessage
  BY PlaceMeans DEF ControlInv, SchedulerInv
<1> QED
  BY <1>1, ControlInvariant, PlaceInvariant, PTL
=============================================================================
